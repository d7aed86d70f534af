--------------------------- MODULE MCRconSession ----------------------------
(* Small batches for TLC.                                                    *)
EXTENDS RconSession

PlainTransitionOversized == <<"plain", "transition", "oversized">>
=============================================================================
