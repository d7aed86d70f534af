--------------------------- MODULE WorkshopRoute ----------------------------
(* POST /api/workshop (src/app/api/workshop/route.ts): one request, from the *)
(* slot it takes in the route's own limiter to the finally block that gives  *)
(* it back.  It reads two bodies with readJsonStream, the client's and then  *)
(* Steam's, and the JsonBody variables are those of the body being read.     *)
(* The first is read under the request's signal; the fetch and the second    *)
(* under a signal that an 8-second timer aborts too.                         *)
EXTENDS JsonBody

VARIABLES
  stage,    \* "idle", "request", "fetch", "steam" or "answered"
  slot,     \* the request holds a slot
  answer,   \* the code of the response, or "pending"
  asked     \* history: Steam was asked

vars == <<bodyVars, stage, slot, answer, asked>>

Errors == {"INVALID_JSON", "REQUEST_TIMEOUT", "REQUEST_TOO_LARGE"}

Init ==
  /\ BodyInit
  /\ stage = "idle" /\ slot = FALSE /\ answer = "pending" /\ asked = FALSE

(* The response, and the finally block.  Bug: an error response leaves       *)
(* without it.                                                               *)
BugRespond(code) ==
  /\ stage' = "answered" /\ answer' = code /\ UNCHANGED asked
  /\ slot' = (slot /\ code \in Errors)
Respond(code) ==
  stage' = "answered" /\ answer' = code /\ slot' = FALSE /\ UNCHANGED asked

(* acquire() and the checks of readJsonBody before it reads.                 *)
Arrive ==
  /\ stage = "idle"
  /\ \/ stage' = "request" /\ slot' = TRUE /\ UNCHANGED <<answer, asked>>
     \/ \E code \in {"RATE_LIMITED", "INVALID_CONTENT_TYPE", "REQUEST_TOO_LARGE", "INVALID_JSON"} :
          Respond(code)
  /\ UNCHANGED bodyVars

(* A body is read: what readJsonStream and the two ends of the stream do.    *)
Reading == stage \in {"request", "steam"}
Read == Reading /\ Reader /\ UNCHANGED <<stage, slot, answer, asked>>
Send == Reading /\ Sender /\ UNCHANGED <<stage, slot, answer, asked>>
BodyTimer == Reading /\ Timer /\ UNCHANGED <<stage, slot, answer, asked>>

(* The client leaves, or Steam's 8 seconds are over.                         *)
Signal == Reading /\ Abort /\ UNCHANGED <<stage, slot, answer, asked>>

(* No usable id: nothing to ask Steam.                                       *)
RequestRead ==
  /\ stage = "request" /\ outcome = "parsed"
  /\ \/ Respond("no items")
     \/ stage' = "fetch" /\ asked' = TRUE /\ UNCHANGED <<slot, answer>>
  /\ UNCHANGED bodyVars

RequestRefused ==
  /\ stage = "request" /\ outcome \in Errors
  /\ Respond(outcome)
  /\ UNCHANGED bodyVars

FetchSignal ==
  /\ stage = "fetch" /\ ~aborted
  /\ aborted' = TRUE
  /\ UNCHANGED <<pending, bytesSent, stream, complete, timedOut, length, outcome,
                 stage, slot, answer, asked>>

(* The response head arrives, unless the signal rejects the fetch: its body  *)
(* starts another round of readJsonStream.                                   *)
Fetched ==
  /\ stage = "fetch" /\ ~aborted
  /\ stage' = "steam"
  /\ pending' = <<>> /\ bytesSent' = 0 /\ stream' = "open" /\ complete' = FALSE
  /\ timedOut' = FALSE /\ length' = 0 /\ outcome' = "pending"
  /\ UNCHANGED <<aborted, slot, answer, asked>>

(* Aborted, unreachable, a redirect, or a status that is not ok.             *)
FetchFails ==
  /\ stage = "fetch"
  /\ Respond("STEAM_API_ERROR")
  /\ UNCHANGED bodyVars

SteamRead ==
  /\ stage = "steam" /\ outcome = "parsed"
  /\ Respond("items")
  /\ UNCHANGED bodyVars

(* Bug: an error of the second body leaves through the outer catch.          *)
BugSteamError == outcome
SteamError == "STEAM_API_ERROR"

SteamUnusable ==
  /\ stage = "steam" /\ outcome \in Errors
  /\ Respond(SteamError)
  /\ UNCHANGED bodyVars

Handler == Read \/ RequestRead \/ RequestRefused \/ SteamRead \/ SteamUnusable
Answered == stage = "answered" /\ UNCHANGED vars

Next ==
  \/ Arrive \/ Handler \/ Send \/ BodyTimer \/ Signal
  \/ FetchSignal \/ Fetched \/ FetchFails
  \/ Answered

(* The event loop runs continuations, and every timer fires; an aborted      *)
(* fetch rejects.                                                            *)
Spec == Init /\ [][Next]_vars
FairSpec ==
  /\ Spec
  /\ WF_vars(Arrive) /\ WF_vars(Handler) /\ WF_vars(BodyTimer)
  /\ WF_vars(FetchSignal) /\ WF_vars(aborted /\ FetchFails)

-----------------------------------------------------------------------------
(* The client is told that its request was cut off, too large or not JSON    *)
(* only when its own body was, before Steam was asked: the same errors of    *)
(* Steam's body never reach it, and items come only from an answer that      *)
(* Steam ended and that was read whole (lines 22-30 and 56-70).  Each of the *)
(* two bodies got the verdict that readJsonStream owes it.                   *)
AnswerFitsTheBody ==
  /\ VerdictIsRight
  /\ stage = "answered" =>
       /\ answer \in Errors => ~asked
       /\ answer = "items" => complete /\ length = bytesSent
       /\ answer = "REQUEST_TIMEOUT" => Interrupted

(* A client or a Steam that stops talking does not hold the slot of the      *)
(* route for good: every request is answered and its slot returned (request  *)
(* lines 28-31, route lines 27-30 and 44).                                   *)
AlwaysReleases == <>(stage = "answered" /\ ~slot)
=============================================================================
