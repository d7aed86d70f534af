------------------------------ MODULE JsonBody ------------------------------
(* readJsonStream (src/lib/server/request.ts): a JSON body is read chunk by  *)
(* chunk while a 5-second timer and the caller's signal may cancel the       *)
(* reader, which then reports "done" as a complete body does.  WorkshopRoute *)
(* reads its request and then Steam's answer with it.                        *)
EXTENDS Naturals, Sequences

CONSTANTS
  Limit,                \* the limit on the body, in units
  ChunkSizes, MaxBytes  \* bounds: sizes of a chunk, and of what the sender sends

ASSUME BodyAssumption ==
  Limit \in Nat /\ MaxBytes \in Nat /\ ChunkSizes \subseteq Nat \ {0}

VARIABLES
  pending,    \* chunks in the stream that were not read yet
  bytesSent,  \* history: the length of what the sender sent so far
  stream,     \* "open", "ended" or "broken" by the sender, or "cancelled" here
  complete,   \* history: the sender ended the body
  timedOut, aborted,
  length,     \* bytes read and kept
  outcome

bodyVars == <<pending, bytesSent, stream, complete, timedOut, aborted, length, outcome>>

BodyInit ==
  /\ pending = <<>> /\ bytesSent = 0 /\ complete = FALSE
  /\ aborted \in BOOLEAN
  /\ stream = IF aborted THEN "cancelled" ELSE "open"
  /\ timedOut = FALSE /\ length = 0 /\ outcome = "pending"

(* reader.cancel() drops what the stream holds; an error stays one.          *)
BugCancel == UNCHANGED <<pending, stream>>
Cancel ==
  /\ pending' = <<>>
  /\ stream' = IF stream = "broken" THEN "broken" ELSE "cancelled"

Interrupted == timedOut \/ aborted

(* Bug: only the chunk is measured.                                          *)
BugTooLargeChunk(size) == size > Limit
TooLarge(size) == length + size > Limit

ReadChunk ==
  /\ outcome = "pending" /\ pending # <<>>
  /\ IF TooLarge(Head(pending))
       THEN Cancel /\ outcome' = "REQUEST_TOO_LARGE" /\ UNCHANGED length
       ELSE /\ length' = length + Head(pending)
            /\ pending' = Tail(pending)
            /\ UNCHANGED <<stream, outcome>>
  /\ UNCHANGED <<bytesSent, complete, timedOut, aborted>>

(* Bug: only a read that fails is asked why.                                 *)
BugAfterDone == {"parsed", "INVALID_JSON"}
AfterDone == IF Interrupted THEN {"REQUEST_TIMEOUT"} ELSE {"parsed", "INVALID_JSON"}

ReadDone ==
  /\ outcome = "pending" /\ pending = <<>> /\ stream \in {"ended", "cancelled"}
  /\ outcome' \in AfterDone
  /\ UNCHANGED <<pending, bytesSent, stream, complete, timedOut, aborted, length>>

ReadFails ==
  /\ outcome = "pending" /\ stream = "broken"
  /\ outcome' = IF Interrupted THEN "REQUEST_TIMEOUT" ELSE "INVALID_JSON"
  /\ UNCHANGED <<pending, bytesSent, stream, complete, timedOut, aborted, length>>

Timer ==
  /\ outcome = "pending" /\ ~timedOut
  /\ timedOut' = TRUE
  /\ Cancel
  /\ UNCHANGED <<bytesSent, complete, aborted, length, outcome>>

Abort ==
  /\ outcome = "pending" /\ ~aborted
  /\ aborted' = TRUE
  /\ Cancel
  /\ UNCHANGED <<bytesSent, complete, timedOut, length, outcome>>

Sender ==
  /\ stream = "open"
  /\ \/ /\ \E size \in ChunkSizes :
             /\ bytesSent + size <= MaxBytes
             /\ bytesSent' = bytesSent + size
             /\ pending' = Append(pending, size)
        /\ UNCHANGED <<stream, complete>>
     \/ stream' = "ended" /\ complete' = TRUE /\ UNCHANGED <<bytesSent, pending>>
     \/ stream' = "broken" /\ pending' = <<>> /\ UNCHANGED <<bytesSent, complete>>
  /\ UNCHANGED <<timedOut, aborted, length, outcome>>

Reader == ReadChunk \/ ReadDone \/ ReadFails

-----------------------------------------------------------------------------
(* A body that was cut off, by the timer, the signal or the sender, is never *)
(* parsed as a complete one, although cancelling makes the pending read      *)
(* report "done"; no more than the limit is ever held, and only a body above *)
(* it is refused for its size (lines 33-44).                                 *)
VerdictIsRight ==
  /\ outcome = "parsed" => complete /\ length = bytesSent
  /\ outcome = "REQUEST_TOO_LARGE" => bytesSent > Limit
  /\ length <= Limit
=============================================================================
