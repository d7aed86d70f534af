---------------------------- MODULE RconSession -----------------------------
(* One call of executeRconCommands (src/lib/server/rcon.ts): a RconSession   *)
(* connects, authenticates, runs a batch of commands over one TCP socket and *)
(* destroys the socket, while the game server, the network, the timers and   *)
(* the caller's AbortSignal act whenever they like.                          *)
(*                                                                           *)
(* The session is JavaScript: between two awaits it runs to completion, so   *)
(* an event of the socket, a timer or the signal is handled only while the   *)
(* session is Parked.  "pc" says at which await, or before which step, the   *)
(* async functions stand; "settled" is the promise readPacket returned.      *)
EXTENDS RconResponse

CONSTANTS
  SessionLimit,   \* the 4,000,000-byte cap of onData, in packets
  QueueLimit      \* the 4,096-packet cap of onData

ASSUME LimitsAssumption == SessionLimit \in Nat /\ QueueLimit \in Nat

VARIABLES
  pc, current, reply,                     \* the async functions' position and locals
  socket, terminalError, aborted,         \* the connection and the caller's signal
  queue, waiter, settled, receivedBytes,  \* the reading side of the session
  results, outcome,                       \* what executeRconCommands returns
  written, confirmed, unsent              \* history: requests given to socket.write, those whose callback
                                        \* came without an error, of these, those that never left in full

session == <<pc, current, reply, socket, terminalError, aborted, queue, waiter,
             settled, receivedBytes, results, outcome, written, confirmed, unsent>>
vars == <<session, wireVars>>

NoError == "none"
Codes == {"CONNECT_FAILED", "CONNECT_TIMEOUT", "AUTH_FAILED", "AUTH_TIMEOUT",
          "RESPONSE_TIMEOUT", "CONNECTION_CLOSED", "INVALID_PACKET",
          "REQUEST_TIMEOUT", "COMMAND_TOO_LONG"}

(* The state of the promise readPacket returned.                             *)
Settlements == {s \in [tag : {"none", "packet", "error"}, packet : Packets,
                       error : Codes \cup {NoError}] :
                  s.tag = "error" => s.error \in Codes}
Unsettled   == [tag |-> "none", packet |-> Malformed, error |-> NoError]
Resolved(p) == [tag |-> "packet", packet |-> p, error |-> NoError]
Rejected(e) == [tag |-> "error", packet |-> Malformed, error |-> e]

Writing == {"authWriting", "commandWriting", "probeWriting"}
Reading == {"authReading", "responseReading"}
Positions == {"start", "connecting", "authSend", "authRead", "authLoop", "next",
              "probeSend", "responseRead", "responseLoop", "done"}
             \cup Writing \cup Reading

(* No continuation is runnable: the event loop may deliver the next event.   *)
Parked == pc = "connecting" \/ pc \in Writing \/ waiter

Init ==
  /\ pc = "start" /\ current = 0 /\ reply = NoReply
  /\ socket = "none" /\ terminalError = NoError /\ aborted = FALSE
  /\ queue = <<>> /\ waiter = FALSE /\ settled = Unsettled /\ receivedBytes = 0
  /\ results = <<>> /\ outcome = "pending"
  /\ written = <<>> /\ confirmed = <<>> /\ unsent = {}
  /\ WireInit

(* executeRconCommands leaves through its finally block: close() destroys    *)
(* the socket and takes the abort listener away.                             *)
Finish(result) ==
  /\ pc' = "done"
  /\ outcome' = result
  /\ socket' = IF socket = "none" THEN "none" ELSE "destroyed"
Throw(error) == Finish(error) /\ UNCHANGED results
Return(result) ==
  /\ results' = Append(results, result)
  /\ pc' = "next"
  /\ UNCHANGED <<outcome, socket>>
GoTo(position) == pc' = position /\ UNCHANGED <<outcome, socket, results>>

(* Bug: the parked reader is forgotten.                                      *)
BugOnTerminalError(error) ==
  /\ terminalError' = IF terminalError = NoError THEN error ELSE terminalError
  /\ UNCHANGED <<waiter, settled>>
OnTerminalError(error) ==
  /\ terminalError' = IF terminalError = NoError THEN error ELSE terminalError
  /\ waiter' = FALSE
  /\ settled' = IF waiter THEN Rejected(error) ELSE settled

-----------------------------------------------------------------------------
(* Continuations of the async functions.  SessionStep adds what none of them *)
(* changes.                                                                  *)

noIO == <<queue, waiter, settled, written, toServer>>

Connect ==
  /\ pc = "start"
  /\ IF aborted
       THEN Throw("REQUEST_TIMEOUT")
       ELSE pc' = "connecting" /\ socket' = "connecting" /\ UNCHANGED <<outcome, results>>
  /\ UNCHANGED <<current, reply, noIO>>

CanWrite == terminalError = NoError /\ socket = "open"

(* Bugs: reject with terminalError even when there is none; never look at it. *)
BugWriteErrorUnset == terminalError
BugWriteErrorClosed == "CONNECTION_CLOSED"
WriteError == IF terminalError # NoError THEN terminalError ELSE "CONNECTION_CLOSED"

StartWrite(request, position) ==
  /\ CanWrite
  /\ written' = Append(written, request)
  /\ toServer' = Append(toServer, request)
  /\ GoTo(position)

ReadPacket(position) ==
  /\ GoTo(position)
  /\ IF queue # <<>>
       THEN /\ settled' = Resolved(Head(queue))
            /\ queue' = Tail(queue)
            /\ UNCHANGED waiter
       ELSE /\ waiter' = (terminalError = NoError)
            /\ settled' = IF terminalError = NoError THEN Unsettled
                                                     ELSE Rejected(terminalError)
            /\ UNCHANGED queue
  /\ UNCHANGED <<current, reply, written, toServer>>

AuthSend ==
  /\ pc = "authSend"
  /\ \/ StartWrite(Request("auth", 0), "authWriting")
     \/ ~CanWrite /\ Throw(WriteError) /\ UNCHANGED <<written, toServer>>
  /\ UNCHANGED <<current, reply, queue, waiter, settled>>

AuthRead == pc = "authRead" /\ ReadPacket("authReading")

(* Bug: the empty value packet before the authentication response counts.   *)
BugAccepts(p) == p.id = 0
Accepts(p) == p.type = "auth" /\ p.id = 0
Rejects(p) == p.type = "auth" /\ p.id = Rejection

AuthPacket ==
  /\ pc = "authReading" /\ settled.tag = "packet"
  /\ LET p == settled.packet IN
     \/ Rejects(p) /\ Throw("AUTH_FAILED")
     \/ Accepts(p) /\ GoTo("next")
     \/ ~Rejects(p) /\ ~Accepts(p) /\ GoTo("authLoop")
  /\ settled' = Unsettled
  /\ UNCHANGED <<current, reply, queue, waiter, written, toServer>>

AuthRejected ==
  /\ pc = "authReading" /\ settled.tag = "error"
  /\ Throw(settled.error)
  /\ settled' = Unsettled
  /\ UNCHANGED <<current, reply, queue, waiter, written, toServer>>

(* The loop test reads the clock: the deadline may have passed or not.       *)
AuthLoop ==
  /\ pc = "authLoop"
  /\ GoTo("authRead") \/ Throw("AUTH_TIMEOUT")
  /\ UNCHANGED <<current, reply, noIO>>

NextCommand ==
  /\ pc = "next" /\ current < Len(Commands)
  /\ current' = current + 1
  /\ reply' = NoReply
  /\ IF Commands[current + 1] = "oversized"    \* encodeRconPacket throws
       THEN Throw("COMMAND_TOO_LONG") /\ UNCHANGED <<written, toServer>>
       ELSE \/ StartWrite(Request("command", current + 1), "commandWriting")
            \/ ~CanWrite /\ Throw(WriteError) /\ UNCHANGED <<written, toServer>>
  /\ UNCHANGED <<queue, waiter, settled>>

BatchEnd ==
  /\ pc = "next" /\ current = Len(Commands)
  /\ Throw("ok")
  /\ UNCHANGED <<current, reply, noIO>>

ProbeSend ==
  /\ pc = "probeSend"
  /\ \/ StartWrite(Request("probe", current), "probeWriting")
     \/ /\ ~CanWrite
        /\ IF IsTransition(current) /\ WriteError = "CONNECTION_CLOSED"
             THEN Return(Dispatched("probe")) ELSE Throw(WriteError)
        /\ UNCHANGED <<written, toServer>>
  /\ UNCHANGED <<current, reply, queue, waiter, settled>>

ResponseRead == pc = "responseRead" /\ ReadPacket("responseReading")

(* Bugs: the id of a packet is not compared; the first empty packet ends it. *)
BugOwn(p) == p.type = "value"
Own(p) == p.type = "value" /\ p.id = current
BugLast(p) == p.size = 0
Last(p) == reply.previousWasEmpty /\ p.term

ResponsePacket ==
  /\ pc = "responseReading" /\ settled.tag = "packet"
  /\ LET p == settled.packet IN
     \/ ~Own(p) /\ GoTo("responseLoop") /\ UNCHANGED reply
     \/ Own(p) /\ Last(p) /\ Return(Answer("terminator", reply)) /\ UNCHANGED reply
     \/ Own(p) /\ ~Last(p) /\ GoTo("responseLoop") /\ reply' = Accumulate(reply, p)
  /\ settled' = Unsettled
  /\ UNCHANGED <<current, queue, waiter, written, toServer>>

ResponseRejected ==
  /\ pc = "responseReading" /\ settled.tag = "error"
  /\ LET lost == settled.error \in {"RESPONSE_TIMEOUT", "CONNECTION_CLOSED"}
         by == IF settled.error = "CONNECTION_CLOSED" THEN "closed" ELSE "quiet"
     IN IF lost /\ reply.received THEN Return(Answer(by, reply))
        ELSE IF lost /\ IsTransition(current) THEN Return(Dispatched(by))
        ELSE Throw(settled.error)
  /\ settled' = Unsettled
  /\ UNCHANGED <<current, reply, queue, waiter, written, toServer>>

(* The loop test of execute(), and what follows the loop (lines 242-252).    *)
ResponseLoop ==
  /\ pc = "responseLoop"
  /\ \/ GoTo("responseRead")
     \/ reply.received /\ Return(Answer("deadline", reply))
     \/ ~reply.received /\ IsTransition(current) /\ Return(Dispatched("deadline"))
     \/ ~reply.received /\ ~IsTransition(current) /\ Throw("RESPONSE_TIMEOUT")
  /\ UNCHANGED <<current, reply, noIO>>

SessionStep ==
  /\ \/ Connect \/ AuthSend \/ AuthRead \/ AuthPacket \/ AuthRejected \/ AuthLoop
     \/ NextCommand \/ BatchEnd \/ ProbeSend
     \/ ResponseRead \/ ResponsePacket \/ ResponseRejected \/ ResponseLoop
  /\ UNCHANGED <<terminalError, aborted, receivedBytes, confirmed, unsent,
                 stream, granted, served, faults>>

-----------------------------------------------------------------------------
(* Callbacks: the socket's events, the timers, the signal.  SessionEvent     *)
(* adds what none of them changes.                                           *)

reader == <<terminalError, queue, waiter, settled, receivedBytes>>

SocketConnect ==
  /\ pc = "connecting" /\ socket = "connecting"
  /\ socket' = "open"
  /\ pc' = "authSend"
  /\ UNCHANGED <<reader, aborted, results, outcome, confirmed, unsent, stream>>

ConnectTimer ==
  /\ pc = "connecting"
  /\ Throw("CONNECT_TIMEOUT")
  /\ UNCHANGED <<reader, aborted, confirmed, unsent, stream>>

ConnectError ==
  /\ pc = "connecting" /\ socket = "connecting"
  /\ OnTerminalError("CONNECT_FAILED")
  /\ Throw("CONNECT_FAILED")
  /\ UNCHANGED <<queue, receivedBytes, aborted, confirmed, unsent, stream>>

(* The "close" event of a socket that abort() destroyed before it connected. *)
ConnectClose ==
  /\ pc = "connecting" /\ socket = "destroyed"
  /\ OnTerminalError("CONNECTION_CLOSED")
  /\ Throw(terminalError')
  /\ UNCHANGED <<queue, receivedBytes, aborted, confirmed, unsent, stream>>

InFlight == Request(CASE pc = "authWriting"    -> "auth"
                      [] pc = "commandWriting" -> "command"
                      [] pc = "probeWriting"   -> "probe", current)

(* The callback came without an error.  On a connection that still stands    *)
(* the bytes have left.  When the socket is gone, Node completes the writes  *)
(* it cancels in the same way, so that of a request the server has not taken *)
(* only a part may have left, or nothing.                                    *)
WriteOk ==
  /\ pc \in Writing
  /\ confirmed' = Append(confirmed, InFlight)
  /\ \/ UNCHANGED unsent
     \/ /\ socket \in {"failed", "destroyed"}
        /\ \E i \in 1..Len(toServer) : toServer[i] = InFlight
        /\ unsent' = unsent \cup {InFlight}
  /\ GoTo(CASE pc = "authWriting"    -> "authRead"
            [] pc = "commandWriting" -> "probeSend"
            [] pc = "probeWriting"   -> "responseRead")
  /\ UNCHANGED <<reader, aborted, stream>>

(* Bug: a failed write of the command itself is taken for a transition.      *)
BugTransitionProbe == pc \in {"commandWriting", "probeWriting"} /\ IsTransition(current)
TransitionProbe == pc = "probeWriting" /\ IsTransition(current)

(* A write fails only when the peer broke the connection.  Node destroys the *)
(* socket and emits "error" before the continuation runs.                    *)
WriteFails ==
  /\ pc \in Writing
  /\ socket \in {"open", "halfclosed", "failed"}
  /\ OnTerminalError("CONNECTION_CLOSED")
  /\ IF TransitionProbe
       THEN /\ results' = Append(results, Dispatched("probe"))
            /\ pc' = "next" /\ socket' = "failed"
            /\ UNCHANGED outcome
       ELSE Throw("CONNECTION_CLOSED")
  /\ UNCHANGED <<queue, receivedBytes, aborted, confirmed, unsent, stream>>

(* One "data" event carries the next n packets of the stream.                *)
OnData(n) ==
  /\ Parked /\ socket = "open" /\ n <= Len(stream)
  /\ LET packets == SubSeq(stream, 1, n)
         buffered == queue \o packets
         refused == \/ receivedBytes + n > SessionLimit
                    \/ \E i \in 1..n : packets[i].type = "malformed"
                    \/ Len(buffered) > QueueLimit
     IN IF refused
          THEN /\ OnTerminalError("INVALID_PACKET")
               /\ socket' = "destroyed"
               /\ UNCHANGED queue
          ELSE /\ queue' = IF waiter THEN Tail(buffered) ELSE buffered
               /\ settled' = IF waiter THEN Resolved(Head(buffered)) ELSE settled
               /\ waiter' = FALSE
               /\ UNCHANGED <<socket, terminalError>>
  /\ receivedBytes' = receivedBytes + n
  /\ stream' = SubSeq(stream, n + 1, Len(stream))
  /\ UNCHANGED <<pc, aborted, results, outcome, confirmed, unsent>>

(* The server's FIN follows its data and ends this side's writing.           *)
PeerEnd ==
  /\ Parked /\ socket = "open" /\ stream = <<>>
  /\ socket' = "halfclosed"
  /\ UNCHANGED <<reader, pc, aborted, results, outcome, confirmed, unsent, stream>>

(* "close": after the server's FIN once no write is pending, or, with an     *)
(* "error" before it, because the connection was reset.                      *)
SocketClose ==
  /\ Parked /\ socket \in {"open", "halfclosed"}
  /\ socket' = "failed"
  /\ OnTerminalError("CONNECTION_CLOSED")
  /\ stream' = <<>>
  /\ UNCHANGED <<pc, queue, receivedBytes, aborted, results, outcome, confirmed, unsent>>

(* readPacket's timer: the authentication deadline, the response deadline or *)
(* the 900 ms of quiet after the first response packet.                      *)
ReadTimer ==
  /\ waiter
  /\ waiter' = FALSE
  /\ settled' = Rejected(IF pc = "authReading" THEN "AUTH_TIMEOUT"
                                               ELSE "RESPONSE_TIMEOUT")
  /\ UNCHANGED <<pc, socket, terminalError, queue, receivedBytes, aborted,
                 results, outcome, confirmed, unsent, stream>>

(* Bug: abort() leaves the socket open.                                      *)
BugDestroy == UNCHANGED socket
Destroy == socket' = IF socket = "failed" THEN "failed" ELSE "destroyed"

Abort ==
  /\ ~aborted /\ (pc = "start" \/ Parked)
  /\ aborted' = TRUE
  /\ IF pc = "start"       \* the listener is not registered yet
       THEN UNCHANGED <<queue, waiter, settled, terminalError, socket>>
       ELSE /\ queue' = <<>>
            /\ OnTerminalError("REQUEST_TIMEOUT")
            /\ Destroy
  /\ UNCHANGED <<pc, receivedBytes, results, outcome, confirmed, unsent, stream>>

SessionEvent ==
  /\ \/ SocketConnect \/ ConnectTimer \/ ConnectError \/ ConnectClose
     \/ WriteOk \/ WriteFails \/ PeerEnd \/ SocketClose \/ ReadTimer \/ Abort
     \/ \E n \in 1..Len(stream) : OnData(n)
  /\ UNCHANGED <<current, reply, written, toServer, granted, served, faults>>

-----------------------------------------------------------------------------
ServerStep ==
  /\ socket = "open"
  /\ ServerNext
  /\ UNCHANGED session

Done == pc = "done" /\ UNCHANGED vars

Next == SessionStep \/ SessionEvent \/ ServerStep \/ Done

(* The event loop runs every continuation, a timer that is set fires unless  *)
(* it is cleared, and the route's AbortSignal.timeout fires at last.  Nothing *)
(* is assumed of the network or the game server, save that Node completes    *)
(* the callbacks of a socket that was destroyed.                             *)
WriteCompletes == socket \in {"destroyed", "failed"} /\ (WriteOk \/ WriteFails)
Fairness ==
  /\ WF_vars(SessionStep)
  /\ WF_vars(SessionEvent /\ (ConnectTimer \/ ReadTimer))
  /\ WF_vars(SessionEvent /\ Abort)
  /\ WF_vars(SessionEvent /\ WriteCompletes)

Spec == Init /\ [][Next]_vars
FairSpec == Spec /\ Fairness

-----------------------------------------------------------------------------
(* Properties                                                                *)

TypeOK ==
  /\ pc \in Positions
  /\ current \in 0..Len(Commands)
  /\ reply \in Replies
  /\ socket \in {"none", "connecting", "open", "halfclosed", "failed", "destroyed"}
  /\ terminalError \in Codes \cup {NoError}
  /\ aborted \in BOOLEAN
  /\ queue \in Seq(Packets)
  /\ waiter \in BOOLEAN
  /\ settled \in Settlements
  /\ receivedBytes \in Nat
  /\ results \in Seq(Results)
  /\ outcome \in Codes \cup {"pending", "ok"}
  /\ written \in Seq(Requests)
  /\ confirmed \in Seq(Requests) /\ unsent \subseteq Requests
  /\ WireTypeOK

(* No lost wake-up: a reader that is parked has nothing to read and no error *)
(* to report, whichever of data, close, error, abort and timer came last     *)
(* (readPacket, pumpQueue and onTerminalError, lines 280-328).               *)
ParkedReader ==
  waiter => /\ pc \in Reading
            /\ queue = <<>>
            /\ terminalError = NoError
            /\ settled = Unsettled

(* Whatever was late, foreign, buffered or cut off, the text returned for a  *)
(* command is the beginning of what the server answered to that command:     *)
(* fragments of an earlier command that arrive after its 900 ms of quiet are *)
(* never taken for this one's (execute, lines 208-240).                      *)
ResponsesMatchServer ==
  /\ \A n \in 1..Len(results) : PrefixOfServed(n, results[n].chunks)
  /\ pc \in {"responseRead", "responseReading", "responseLoop"} =>
       PrefixOfServed(current, reply.chunks)

(* A response that ended with the probe's terminator is the whole response,  *)
(* and says "truncated" exactly when the size limit cut it (lines 197-199,   *)
(* 226-239).                                                                 *)
DelimitedIsWhole ==
  \A n \in 1..Len(results) :
    results[n].by = "terminator" =>
      (results[n].truncated <=> ~WholeOfServed(n, results[n].chunks))

(* "A transition is only dispatched once the command itself has been         *)
(* written" (line 194), as far as the code keeps it: Node reported the write *)
(* of the command as done, whatever became of the probe, the response or the *)
(* connection.  Excepted is a command whose write was cancelled because the  *)
(* peer broke the connection meanwhile: the callback reports no error (lines *)
(* 272-277), the probe finds CONNECTION_CLOSED, and that says "dispatched".  *)
(* Nothing follows such a command, and neither a cancelled batch nor one cut *)
(* off for an invalid packet ever returns one.                               *)
DispatchedUnlessBroken ==
  \A n \in 1..Len(results) :
    results[n].kind = "dispatched" =>
      /\ IsTransition(n)
      /\ \E i \in 1..Len(confirmed) : confirmed[i] = Request("command", n)
      /\ Request("command", n) \in unsent =>
           terminalError = "CONNECTION_CLOSED" /\ n = Len(results)

(* Once the caller's signal ended a session that had not failed before, no   *)
(* result is added, nothing more is written and the batch ends with          *)
(* REQUEST_TIMEOUT, even with responses buffered or a write pending; only    *)
(* while connecting may the connect timer report first (lines 115-119).      *)
CancellationIsFinal ==
  [][terminalError = "REQUEST_TIMEOUT" =>
       /\ UNCHANGED <<results, written>>
       /\ \/ outcome' \in {"pending", "REQUEST_TIMEOUT"}
          \/ pc = "connecting" /\ outcome' = "CONNECT_TIMEOUT"]_vars

(* Every batch ends, with its socket destroyed, even if the game server      *)
(* neither answers nor closes and a write is never confirmed (executeRcon-   *)
(* Commands, lines 360-371).                                                 *)
Terminates == <>[](pc = "done" /\ socket \in {"none", "destroyed"})

(* The session implements the abstract command batch: commands in order, at  *)
(* most once, after the server granted access, each after the reply of the   *)
(* one before.                                                               *)
Batch == INSTANCE CommandBatch WITH
  issued <- CommandsIn(written), replies <- KindsOf(results), outcome <- Verdict(outcome)
ImplementsCommandBatch == Batch!Spec
=============================================================================
