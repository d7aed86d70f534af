--------------------------- MODULE MCHelperSession --------------------------
(* Small batches for TLC.                                                    *)
EXTENDS HelperSession

PlainThenTransition == <<"plain", "transition">>
PlainTransitionOversized == <<"plain", "transition", "oversized">>
=============================================================================
