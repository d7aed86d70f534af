---------------------------- MODULE CommandBatch ----------------------------
(* What a caller of executeRconCommands (src/lib/server/rcon.ts) or of       *)
(* executeCommands (src/helper/rcon.go) is promised, without sockets, timers *)
(* or packets: the commands of one batch reach the game server one at a      *)
(* time, in order, each at most once, and only after that server granted     *)
(* access; the batch succeeds only when every command has a reply, and a     *)
(* command that got no answer may be reported as "dispatched" only if it is  *)
(* a level transition.                                                       *)
EXTENDS Naturals, Sequences

CONSTANT Commands      \* the batch: a sequence of "plain", "transition", "oversized"

ReplyKinds == {"answer", "dispatched"}

VARIABLES
  granted,   \* the game server accepted the password
  issued,    \* number of commands handed to the connection so far
  replies,   \* the kind of reply obtained for each command, in order
  outcome    \* "pending", "ok" or "failed"

vars == <<granted, issued, replies, outcome>>

Init ==
  /\ granted = FALSE
  /\ issued = 0
  /\ replies = <<>>
  /\ outcome = "pending"

Grant ==
  /\ ~granted
  /\ granted' = TRUE
  /\ UNCHANGED <<issued, replies, outcome>>

(* The next command leaves only when every earlier one has its reply.        *)
Issue ==
  /\ outcome = "pending"
  /\ granted
  /\ issued = Len(replies)
  /\ issued < Len(Commands)
  /\ Commands[issued + 1] # "oversized"
  /\ issued' = issued + 1
  /\ UNCHANGED <<granted, replies, outcome>>

Reply(kind) ==
  /\ outcome = "pending"
  /\ issued = Len(replies) + 1
  /\ kind = "dispatched" => Commands[issued] = "transition"
  /\ replies' = Append(replies, kind)
  /\ UNCHANGED <<granted, issued, outcome>>

Complete ==
  /\ outcome = "pending"
  /\ granted
  /\ Len(replies) = Len(Commands)
  /\ outcome' = "ok"
  /\ UNCHANGED <<granted, issued, replies>>

Abandon ==
  /\ outcome = "pending"
  /\ outcome' = "failed"
  /\ UNCHANGED <<granted, issued, replies>>

Next ==
  \/ Grant
  \/ Issue
  \/ \E kind \in ReplyKinds : Reply(kind)
  \/ Complete
  \/ Abandon

Spec == Init /\ [][Next]_vars
=============================================================================
