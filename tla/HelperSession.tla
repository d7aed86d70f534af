---------------------------- MODULE HelperSession ---------------------------
(* One call of executeCommands (src/helper/rcon.go): the helper's goroutine  *)
(* dials, authenticates and runs a batch over blocking reads and writes that *)
(* end at the connection's deadline, while the context may be cancelled and  *)
(* close the connection under it (context.AfterFunc).                        *)
(*                                                                           *)
(* Unlike the hosted session it has no packet queue: a deadline that expires *)
(* inside a packet leaves the connection "misaligned", and the next read     *)
(* takes the rest of that packet for the size of a new one.  Ids are random, *)
(* so bytes read out of place are taken for a packet of another id at most.  *)
(* A deadline is a time the model does not count: it may expire whenever the *)
(* goroutine is blocked.                                                     *)
EXTENDS RconResponse

CONSTANT PacketLimit   \* the session's 4,000,000 bytes and 16,384 packets, in packets

ASSUME HelperAssumption == PacketLimit \in Nat

VARIABLES
  pc, current, reply,    \* the goroutine's position and locals
  conn, cancelled,       \* the connection, and ctx.Err() # nil
  misaligned, packets,   \* the reader's place in the stream, and its count
  err,                   \* the error of the read or write that failed
  results, outcome,      \* what executeCommands returns
  written, flushed       \* history: requests whose write began, and those written whole

session == <<pc, current, reply, conn, cancelled, misaligned, packets, err,
             results, outcome, written, flushed>>
vars == <<session, wireVars>>

NoError == "none"
Errors == {NoError, "timeout", "eof", "unexpectedEof", "reset", "closed", "invalid", "limit"}

Reading == {"authRead", "read"}
Failures == {"authFailed", "commandFailed", "probeFailed", "readFailed"}

Init ==
  /\ pc = "dial" /\ current = 0 /\ reply = NoReply
  /\ conn = "none" /\ cancelled = FALSE
  /\ misaligned = FALSE /\ packets = 0 /\ err = NoError
  /\ results = <<>> /\ outcome = "pending" /\ written = <<>> /\ flushed = <<>>
  /\ WireInit

(* executeCommands returns, and its deferred conn.Close() runs.              *)
Finish(result) ==
  /\ pc' = "done" /\ outcome' = result
  /\ conn' = IF conn = "none" THEN "none" ELSE "closed"
Throw(code) == Finish(code) /\ UNCHANGED results
Return(result) ==
  /\ results' = Append(results, result)
  /\ pc' = "next"
  /\ UNCHANGED <<conn, outcome>>
GoTo(position) == pc' = position /\ UNCHANGED <<conn, outcome, results>>

Dial ==
  /\ pc = "dial"
  /\ \/ ~cancelled /\ pc' = "auth" /\ conn' = "open" /\ UNCHANGED <<outcome, results>>
     \/ cancelled /\ Throw("REQUEST_TIMEOUT")
     \/ ~cancelled /\ \E code \in {"CONNECT_FAILED", "CONNECT_TIMEOUT"} : Throw(code)
  /\ UNCHANGED <<current, reply, misaligned, packets, err, written, flushed, toServer, stream>>

-----------------------------------------------------------------------------
(* Writes.                                                                   *)

Alive == conn \in {"open", "halfclosed"}

(* What a blocked read or write on the connection may fail with.             *)
Broken(error) ==
  \/ error = "timeout" /\ Alive
  \/ error = "reset" /\ conn = "reset"
  \/ error = "closed" /\ conn = "closed"

(* A write that fails may have left a part of the request in the stream,     *)
(* which the game server cannot read.                                        *)
Write(request, next, failed) ==
  /\ written' = Append(written, request)
  /\ \/ /\ Alive
        /\ flushed' = Append(flushed, request)
        /\ toServer' = Append(toServer, request)
        /\ err' = NoError
        /\ GoTo(next)
     \/ /\ \E error \in Errors :
             /\ Broken(error) \/ (error = "reset" /\ conn = "halfclosed")
             /\ err' = error
        /\ GoTo(failed)
        /\ UNCHANGED <<flushed, toServer>>

SendAuth ==
  /\ pc = "auth"
  /\ Write(Request("auth", 0), "authRead", "authFailed")
  /\ UNCHANGED <<current, reply, misaligned, packets, stream>>

NextCommand ==
  /\ pc = "next" /\ current < Len(Commands)
  /\ current' = current + 1
  /\ reply' = NoReply
  /\ IF Commands[current + 1] = "oversized"    \* encodePacket refuses it
       THEN Throw("COMMAND_TOO_LONG") /\ UNCHANGED <<written, flushed, toServer, err>>
       ELSE Write(Request("command", current + 1), "probe", "commandFailed")
  /\ UNCHANGED <<misaligned, packets, stream>>

BatchEnd ==
  /\ pc = "next" /\ current = Len(Commands)
  /\ Throw("ok")
  /\ UNCHANGED <<current, reply, misaligned, packets, err, written, flushed, toServer, stream>>

SendProbe ==
  /\ pc = "probe"
  /\ Write(Request("probe", current), "read", "probeFailed")
  /\ UNCHANGED <<current, reply, misaligned, packets, stream>>

-----------------------------------------------------------------------------
(* Reads.                                                                    *)

noWrites == <<current, written, flushed, toServer>>

ReadFails(error) ==
  /\ err' = error
  /\ GoTo(IF pc = "authRead" THEN "authFailed" ELSE "readFailed")
  /\ UNCHANGED <<reply, noWrites>>

(* Bug: the empty value packet before the authentication response counts.   *)
BugAccepts(p) == p.id = 0
Accepts(p) == p.type = "auth" /\ p.id = 0
Rejects(p) == p.type = "auth" /\ p.id = Rejection

(* Bug: the id of a packet is not compared.                                  *)
BugOwn(p) == p.type = "value"
Own(p) == p.type = "value" /\ p.id = current
Last(p) == reply.previousWasEmpty /\ p.term

Handle(p) ==
  /\ UNCHANGED <<err, noWrites>>
  /\ IF pc = "authRead"
       THEN /\ UNCHANGED reply
            /\ \/ Rejects(p) /\ Throw("AUTH_FAILED")
               \/ Accepts(p) /\ GoTo("next")
               \/ ~Rejects(p) /\ ~Accepts(p) /\ GoTo(pc)
       ELSE \/ ~Own(p) /\ GoTo(pc) /\ UNCHANGED reply
            \/ Own(p) /\ Last(p) /\ Return(Answer("terminator", reply)) /\ UNCHANGED reply
            \/ Own(p) /\ ~Last(p) /\ GoTo(pc) /\ reply' = Accumulate(reply, p)

(* read() with the stream where it should be.                                *)
ReadPacket ==
  /\ pc \in Reading /\ Alive /\ ~misaligned /\ stream # <<>>
  /\ LET p == Head(stream) IN
     IF p.type = "malformed" \/ packets + 1 > PacketLimit
       THEN ReadFails(IF p.type = "malformed" THEN "invalid" ELSE "limit")
       ELSE Handle(p)
  /\ packets' = packets + 1
  /\ stream' = Tail(stream)
  /\ UNCHANGED misaligned

(* read() in the middle of a packet: a size out of range, or one that        *)
(* swallows the rest and perhaps some of what follows.                       *)
ReadRest ==
  /\ pc \in Reading /\ Alive /\ misaligned /\ stream # <<>>
  /\ packets' = packets + 1
  /\ \/ ReadFails("invalid") /\ UNCHANGED <<stream, misaligned>>
     \/ packets + 1 > PacketLimit /\ ReadFails("limit") /\ UNCHANGED <<stream, misaligned>>
     \/ /\ packets + 1 <= PacketLimit
        /\ \E n \in 1..Len(stream) : stream' = SubSeq(stream, n + 1, Len(stream))
        /\ misaligned' \in IF stream' = <<>> THEN {FALSE} ELSE BOOLEAN
        /\ GoTo(pc) /\ UNCHANGED <<reply, err, noWrites>>

(* Bug: only a response that has begun is given a deadline.                  *)
BugExpires == Alive /\ (pc = "read" => reply.received)
Expires == Alive

(* The deadline ends a read that has none, some or, if misaligned, more than *)
(* one packet's bytes.                                                       *)
ReadExpires ==
  /\ pc \in Reading /\ Expires
  /\ ReadFails("timeout")
  /\ \/ UNCHANGED <<stream, misaligned>>
     \/ /\ stream # <<>> /\ misaligned' = TRUE
        /\ \E n \in 0..(IF misaligned THEN Len(stream) - 1 ELSE 0) :
             stream' = SubSeq(stream, n + 1, Len(stream))
  /\ UNCHANGED packets

(* io.ReadFull reports io.EOF only between packets.                          *)
ReadEnds ==
  /\ pc \in Reading
  /\ \E error \in Errors :
       /\ \/ conn = "halfclosed" /\ stream = <<>> /\ error \in {"eof", "unexpectedEof"}
          \/ ~Alive /\ Broken(error)
       /\ ReadFails(error)
  /\ UNCHANGED <<packets, stream, misaligned>>

-----------------------------------------------------------------------------
(* What becomes of an error: socketFailure and the error branches.           *)

SocketFailure(stage) ==
  IF err = "invalid" THEN "INVALID_PACKET"
  ELSE IF err = "limit" THEN "RESPONSE_LIMIT"
  ELSE IF cancelled THEN "REQUEST_TIMEOUT"
  ELSE IF err = "timeout" THEN stage
  ELSE "CONNECTION_CLOSED"

(* Bug: a command that could not be written is taken for a transition.       *)
BugDispatches == pc \in {"commandFailed", "probeFailed"} /\ IsTransition(current) /\ ~cancelled
Dispatches == pc = "probeFailed" /\ IsTransition(current) /\ ~cancelled

WriteFailed ==
  /\ pc \in {"authFailed", "commandFailed", "probeFailed"}
  /\ IF Dispatches
       THEN Return(Dispatched("probe"))
       ELSE Throw(SocketFailure(IF pc = "authFailed" THEN "AUTH_TIMEOUT" ELSE "RESPONSE_TIMEOUT"))
  /\ UNCHANGED <<reply, noWrites, packets, stream, misaligned, err>>

ReadFailed ==
  /\ pc = "readFailed"
  /\ LET lost == ~cancelled /\ err \in {"timeout", "eof", "reset"}
         by == IF err = "timeout" THEN "quiet" ELSE "closed"
     IN IF lost /\ reply.received THEN Return(Answer(by, reply))
        ELSE IF lost /\ IsTransition(current) THEN Return(Dispatched(by))
        ELSE Throw(SocketFailure("RESPONSE_TIMEOUT"))
  /\ UNCHANGED <<reply, noWrites, packets, stream, misaligned, err>>

SessionStep ==
  /\ \/ Dial \/ SendAuth \/ NextCommand \/ BatchEnd \/ SendProbe
     \/ ReadPacket \/ ReadRest \/ ReadExpires \/ ReadEnds
     \/ WriteFailed \/ ReadFailed
  /\ UNCHANGED <<cancelled, granted, served, faults>>

-----------------------------------------------------------------------------
(* The context, the goroutine of AfterFunc, the network and the game server. *)

Cancel ==
  /\ ~cancelled /\ pc # "done"
  /\ cancelled' = TRUE
  /\ UNCHANGED <<conn, stream>>

CloseConn ==
  /\ cancelled /\ conn \in {"open", "halfclosed", "reset"}
  /\ conn' = "closed"
  /\ UNCHANGED <<cancelled, stream>>

PeerCloses ==
  /\ conn = "open"
  /\ conn' = "halfclosed"
  /\ UNCHANGED <<cancelled, stream>>

PeerResets ==
  /\ Alive
  /\ conn' = "reset" /\ stream' = <<>>
  /\ UNCHANGED cancelled

Environment ==
  /\ Cancel \/ CloseConn \/ PeerCloses \/ PeerResets
  /\ UNCHANGED <<pc, current, reply, misaligned, packets, err, results, outcome, written,
                 flushed, toServer, granted, served, faults>>

ServerStep ==
  /\ conn = "open"
  /\ ServerNext
  /\ UNCHANGED session

Done == pc = "done" /\ UNCHANGED vars

Next == SessionStep \/ Environment \/ ServerStep \/ Done

Spec == Init /\ [][Next]_vars

(* The goroutine runs on, and the deadlines it set expire.                   *)
FairSpec == Spec /\ WF_vars(SessionStep)

-----------------------------------------------------------------------------
(* Properties                                                                *)

(* Chunks of command n only, in the order they were sent.                    *)
OwnInOrder(n, chunks) ==
  \A i \in 1..Len(chunks) :
    /\ chunks[i].id = n
    /\ i > 1 => chunks[i - 1].part < chunks[i].part

(* The text of a result is that command's and in order, even after a read    *)
(* that was cut off; late fragments of an earlier command are never taken    *)
(* for this one's (rcon.go lines 266-307).                                   *)
TextIsOwn ==
  /\ \A n \in 1..Len(results) : OwnInOrder(n, results[n].chunks)
  /\ pc \in {"read", "readFailed"} => OwnInOrder(current, reply.chunks)

(* "Only consider a level transition dispatched after its complete packet    *)
(* was written" (line 253), whatever became of the connection, its deadline  *)
(* and the context afterwards.                                               *)
DispatchedMeansWritten ==
  \A n \in 1..Len(results) :
    results[n].kind = "dispatched" =>
      /\ IsTransition(n)
      /\ \E i \in 1..Len(flushed) : flushed[i] = Request("command", n)

(* The helper keeps the promises of the hosted route.                        *)
Batch == INSTANCE CommandBatch WITH
  issued <- CommandsIn(written), replies <- KindsOf(results), outcome <- Verdict(outcome)
ImplementsCommandBatch == Batch!Spec

(* "Requests have body, command, response, operation and total deadlines"    *)
(* (helper/README.md line 71): a batch ends and its connection is closed,    *)
(* even if nobody cancels it and the game server stays silent.               *)
Terminates == <>[](pc = "done" /\ conn \in {"none", "closed"})

(* "Server returned an invalid RCON packet size" (line 157): the error is    *)
(* reported only of a server that sent an invalid packet.                    *)
InvalidIsTheServers == outcome = "INVALID_PACKET" => faults > 0
=============================================================================
