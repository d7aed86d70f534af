---------------------------- MODULE RconResponse ----------------------------
(* What the hosted session (src/lib/server/rcon.ts) and the helper's session *)
(* (src/helper/rcon.go) have in common: the locals of the response loop, the *)
(* effect of one response packet on them, and the results.                   *)
EXTENDS GameServer, FiniteSets

CONSTANT ResponseLimit   \* the 2,000,000 bytes of one response, in units

ASSUME ResponseAssumption == ResponseLimit \in Nat

IsTransition(n) == Commands[n] = "transition"

(* The locals of execute(), and what it returns; "by" is history: what ended *)
(* the wait.                                                                 *)
Replies == [chunks : Seq(Chunks), bytes : 0..ResponseLimit, truncated : BOOLEAN,
            received : BOOLEAN, previousWasEmpty : BOOLEAN]
NoReply == [chunks |-> <<>>, bytes |-> 0, truncated |-> FALSE,
            received |-> FALSE, previousWasEmpty |-> FALSE]
Results == [kind : {"answer", "dispatched"},
            by : {"terminator", "quiet", "closed", "deadline", "probe"},
            chunks : Seq(Chunks), truncated : BOOLEAN]
Answer(by, r)  == [kind |-> "answer", by |-> by, chunks |-> r.chunks,
                   truncated |-> r.truncated]
Dispatched(by) == [kind |-> "dispatched", by |-> by, chunks |-> <<>>,
                   truncated |-> FALSE]

(* What the limit leaves of a packet.                                        *)
Room(r, p) ==
  LET available == ResponseLimit - r.bytes
  IN IF p.size < available THEN p.size ELSE available

(* What a packet of the response does to the locals.                         *)
Accumulate(r, p) ==
  [chunks    |-> IF Room(r, p) = 0 THEN r.chunks
                 ELSE Append(r.chunks, [id |-> p.id, part |-> p.part, take |-> Room(r, p)]),
   bytes     |-> r.bytes + Room(r, p),
   truncated |-> r.truncated \/ p.size > ResponseLimit - r.bytes,
   received  |-> TRUE,
   previousWasEmpty |-> p.size = 0]

-----------------------------------------------------------------------------
(* What a caller sees of a session, in the terms of CommandBatch.            *)
CommandsIn(requests) ==
  Cardinality({i \in 1..Len(requests) : requests[i].what = "command"})
KindsOf(list) == [n \in 1..Len(list) |-> list[n].kind]
Verdict(result) == IF result \in {"pending", "ok"} THEN result ELSE "failed"
=============================================================================
