------------------------- MODULE RconSession_proofs -------------------------
(* Proofs about RconSession, for every batch and every limit.                *)
EXTENDS RconSession, TLAPS, SequenceTheorems, FiniteSetTheorems

USE DEF NoError

(* The packet that decodes no frame is a packet.                            *)
LEMMA MalformedType == Malformed \in Packets
  BY DEF Malformed, Packet, Packets, Foreign

(* A promise nobody settled is well typed.                                  *)
LEMMA UnsettledType == Unsettled \in Settlements
  BY MalformedType DEF Unsettled, Settlements

(* A promise settled with a packet or an error is well typed.               *)
LEMMA SettledType ==
  /\ \A p \in Packets : Resolved(p) \in Settlements
  /\ \A e \in Codes : Rejected(e) \in Settlements
  BY MalformedType DEF Resolved, Rejected, Settlements

(* The locals of execute() before the first response packet.                *)
LEMMA NoReplyType == NoReply \in Replies
  BY ResponseAssumption DEF NoReply, Replies

(* A new session is well typed.                                             *)
LEMMA InitType == Init => TypeOK
  <1> SUFFICES ASSUME Init PROVE TypeOK
    OBVIOUS
  <1> USE BatchAssumption
  <1>1. WireTypeOK
    <2>1. served \in [1..Len(Commands) -> Seq(FragmentSizes)]
      BY DEF Init, WireInit
    <2>2. stream \in Seq(Packets) /\ toServer \in Seq(Requests)
      BY DEF Init, WireInit
    <2>3. granted \in BOOLEAN
      BY DEF Init, WireInit
    <2>4. faults \in 0..MaxFaults
      BY DEF Init, WireInit
    <2> QED
      BY <2>1, <2>2, <2>3, <2>4 DEF WireTypeOK
  <1>2. reply \in Replies
    BY NoReplyType DEF Init
  <1>3. settled \in Settlements
    BY UnsettledType DEF Init
  <1>4. current \in 0..Len(Commands)
    BY DEF Init
  <1>5. queue \in Seq(Packets) /\ results \in Seq(Results)
    BY DEF Init
  <1>6. written \in Seq(Requests) /\ confirmed \in Seq(Requests) /\ unsent \subseteq Requests
    BY DEF Init
  <1>7. pc \in Positions /\ outcome \in Codes \cup {"pending", "ok"}
    BY DEF Init, Positions
  <1>8. receivedBytes \in Nat /\ waiter \in BOOLEAN /\ aborted \in BOOLEAN
    BY DEF Init
  <1>9. socket \in {"none", "connecting", "open", "halfclosed", "failed", "destroyed"}
     BY DEF Init
  <1>10. terminalError \in Codes \cup {NoError}
     BY DEF Init
  <1> QED
    BY <1>1, <1>2, <1>3, <1>4, <1>5, <1>6, <1>7, <1>8, <1>9, <1>10 DEF TypeOK

-----------------------------------------------------------------------------
(* What the shared parts of the actions preserve.                            *)

(* Leaving through the finally block keeps position, socket and outcome typed.*)
LEMMA ThrowType ==
  ASSUME TypeOK, NEW error \in Codes \cup {"ok"}, Throw(error)
  PROVE  /\ pc' \in Positions
         /\ outcome' \in Codes \cup {"pending", "ok"}
         /\ socket' \in {"none", "connecting", "open", "halfclosed", "failed", "destroyed"}
         /\ results' \in Seq(Results)
  BY DEF TypeOK, Throw, Finish, Positions

(* Returning the result of a command keeps the list of results typed.       *)
LEMMA ReturnType ==
  ASSUME TypeOK, NEW result \in Results, Return(result)
  PROVE  /\ pc' \in Positions
         /\ outcome' \in Codes \cup {"pending", "ok"}
         /\ socket' \in {"none", "connecting", "open", "halfclosed", "failed", "destroyed"}
         /\ results' \in Seq(Results)
  BY DEF TypeOK, Return, Positions

(* Moving to another await disturbs nothing else.                           *)
LEMMA GoToType ==
  ASSUME TypeOK, NEW position \in Positions, GoTo(position)
  PROVE  /\ pc' \in Positions
         /\ outcome' \in Codes \cup {"pending", "ok"}
         /\ socket' \in {"none", "connecting", "open", "halfclosed", "failed", "destroyed"}
         /\ results' \in Seq(Results)
  BY DEF TypeOK, GoTo

(* onTerminalError keeps the error and the promise typed.                   *)
LEMMA TerminalErrorType ==
  ASSUME TypeOK, NEW error \in Codes, OnTerminalError(error)
  PROVE  /\ terminalError' \in Codes
         /\ waiter' \in BOOLEAN
         /\ settled' \in Settlements
  BY SettledType DEF TypeOK, OnTerminalError

(* The records execute() returns are results.                               *)
LEMMA ReplyKindType ==
  ASSUME NEW r \in Replies, NEW by \in {"terminator", "quiet", "closed", "deadline", "probe"}
  PROVE  /\ Answer(by, r) \in Results
         /\ Dispatched(by) \in Results
  BY DEF Replies, Results, Answer, Dispatched

(* A response packet leaves the locals of execute() within the size limit.  *)
LEMMA AccumulateType ==
  ASSUME NEW r \in Replies, NEW p \in Packets
  PROVE  Accumulate(r, p) \in Replies
  <1> DEFINE available == ResponseLimit - r.bytes
             take == IF p.size < available THEN p.size ELSE available
             chunk == [id |-> p.id, part |-> p.part, take |-> take]
  <1>1. /\ r.bytes \in 0..ResponseLimit /\ r.chunks \in Seq(Chunks)
        /\ r.truncated \in BOOLEAN
    BY DEF Replies
  <1>2. p.size \in Nat /\ p.id \in Int /\ p.part \in Nat
    BY DEF Packets
  <1>3. take \in Nat /\ r.bytes + take \in 0..ResponseLimit
    BY <1>1, <1>2, ResponseAssumption
  <1>4. chunk \in Chunks
    BY <1>2, <1>3 DEF Chunks
  <1>5. (IF take = 0 THEN r.chunks ELSE Append(r.chunks, chunk)) \in Seq(Chunks)
    <2> HIDE DEF chunk, take
    <2> QED
      BY <1>1, <1>4
  <1> QED
    BY <1>1, <1>3, <1>5 DEF Accumulate, Room, Replies

(* Giving a request to the socket keeps the wire typed.                     *)
LEMMA StartWriteType ==
  ASSUME TypeOK, NEW request \in Requests, NEW position \in Positions,
         StartWrite(request, position)
  PROVE  /\ written' \in Seq(Requests)
         /\ toServer' \in Seq(Requests)
  BY DEF TypeOK, WireTypeOK, StartWrite

(* readPacket takes the head of the queue, parks, or reports the error.     *)
LEMMA ReadPacketType ==
  ASSUME TypeOK, NEW position \in Positions, ReadPacket(position)
  PROVE  /\ queue' \in Seq(Packets)
         /\ waiter' \in BOOLEAN
         /\ settled' \in Settlements
  <1>1. CASE queue # <<>>
    <2>1. Head(queue) \in Packets /\ Tail(queue) \in Seq(Packets)
      BY <1>1 DEF TypeOK
    <2> QED
      BY <1>1, <2>1, SettledType DEF TypeOK, ReadPacket
  <1>2. CASE queue = <<>>
    <2>1. settled' \in Settlements
      BY <1>2, SettledType, UnsettledType DEF TypeOK, ReadPacket
    <2>2. waiter' \in BOOLEAN
      BY <1>2 DEF ReadPacket
    <2> QED
      BY <1>2, <2>1, <2>2 DEF TypeOK, ReadPacket
  <1> QED
    BY <1>1, <1>2

(* What a refused write throws is a code of the session, never "none".      *)
LEMMA WriteErrorType == ASSUME TypeOK PROVE WriteError \in Codes
  BY DEF TypeOK, WriteError, Codes

-----------------------------------------------------------------------------
(* The part of TypeOK that a continuation of the async functions can change. *)
SessionTypeOK ==
  /\ pc \in Positions
  /\ outcome \in Codes \cup {"pending", "ok"}
  /\ socket \in {"none", "connecting", "open", "halfclosed", "failed", "destroyed"}
  /\ results \in Seq(Results)
  /\ current \in 0..Len(Commands)
  /\ reply \in Replies
  /\ queue \in Seq(Packets)
  /\ waiter \in BOOLEAN
  /\ settled \in Settlements
  /\ written \in Seq(Requests)
  /\ toServer \in Seq(Requests)

(* The part of the type invariant that continuations need.                  *)
LEMMA TypeOfSession == TypeOK => SessionTypeOK
  BY DEF TypeOK, SessionTypeOK, WireTypeOK

(* Every continuation keeps the state well typed.                           *)
LEMMA SessionStepType == TypeOK /\ SessionStep => TypeOK'
  <1> SUFFICES ASSUME TypeOK, SessionStep
               PROVE  SessionTypeOK'
    BY DEF TypeOK, SessionTypeOK, SessionStep, WireTypeOK
  <1>t. SessionTypeOK
    BY TypeOfSession
  <1>p. settled.tag = "packet" => settled.packet \in Packets
    BY <1>t DEF SessionTypeOK, Settlements
  <1>e. settled.tag = "error" => settled.error \in Codes
    BY <1>t DEF SessionTypeOK, Settlements
  <1>1. CASE Connect
    <2>1. CASE aborted
      BY <1>t, <1>1, <2>1, ThrowType DEF Connect, SessionTypeOK, noIO, Codes
    <2>2. CASE ~aborted
      BY <1>t, <1>1, <2>2 DEF Connect, SessionTypeOK, noIO, Positions
    <2> QED
      BY <2>1, <2>2
  <1>2. CASE AuthSend
    <2>1. Request("auth", 0) \in Requests /\ "authWriting" \in Positions
      BY DEF Request, Requests, Positions, Writing
    <2>2. CASE StartWrite(Request("auth", 0), "authWriting")
      <3>1. GoTo("authWriting")
        BY <2>2 DEF StartWrite
      <3> QED
        BY <1>t, <1>2, <2>1, <2>2, <3>1, StartWriteType, GoToType DEF AuthSend, SessionTypeOK
    <2>3. CASE ~CanWrite /\ Throw(WriteError) /\ UNCHANGED <<written, toServer>>
      BY <1>t, <1>2, <2>3, WriteErrorType, ThrowType DEF AuthSend, SessionTypeOK
    <2> QED
      BY <1>2, <2>2, <2>3 DEF AuthSend
  <1>3. CASE AuthRead \/ ResponseRead
    <2>1. PICK position \in Reading : ReadPacket(position)
      BY <1>3 DEF AuthRead, ResponseRead, Reading
    <2>2. position \in Positions
      BY DEF Positions, Reading
    <2>3. GoTo(position) /\ UNCHANGED <<current, reply, written, toServer>>
      BY <2>1 DEF ReadPacket
    <2> QED
      BY <1>t, <2>1, <2>2, <2>3, ReadPacketType, GoToType DEF SessionTypeOK
  <1>4. CASE AuthPacket
    <2>1. Throw("AUTH_FAILED") \/ GoTo("next") \/ GoTo("authLoop")
      BY <1>4 DEF AuthPacket
    <2>2. "next" \in Positions /\ "authLoop" \in Positions /\ "AUTH_FAILED" \in Codes
      BY DEF Positions, Codes
    <2> QED
      BY <1>t, <1>4, <2>1, <2>2, ThrowType, GoToType, UnsettledType DEF AuthPacket, SessionTypeOK
  <1>5. CASE AuthRejected
    BY <1>t, <1>e, <1>5, ThrowType, UnsettledType DEF AuthRejected, SessionTypeOK
  <1>6. CASE AuthLoop
    <2>1. "authRead" \in Positions /\ "AUTH_TIMEOUT" \in Codes
      BY DEF Positions, Codes
    <2> QED
      BY <1>t, <1>6, <2>1, ThrowType, GoToType DEF AuthLoop, SessionTypeOK, noIO
  <1>7. CASE NextCommand
    <2>1. current' \in 0..Len(Commands)
      BY <1>t, <1>7, BatchAssumption DEF NextCommand, SessionTypeOK
    <2>2. reply' \in Replies
      BY <1>7, NoReplyType DEF NextCommand
    <2>3. Request("command", current + 1) \in Requests /\ "commandWriting" \in Positions
      BY <1>t DEF SessionTypeOK, Request, Requests, Positions, Writing
    <2>4. CASE StartWrite(Request("command", current + 1), "commandWriting")
      <3>1. GoTo("commandWriting")
        BY <2>4 DEF StartWrite
      <3> QED
        BY <1>t, <1>7, <2>1, <2>2, <2>3, <2>4, <3>1, StartWriteType, GoToType
        DEF NextCommand, SessionTypeOK
    <2>5. CASE /\ Throw("COMMAND_TOO_LONG") \/ Throw(WriteError)
               /\ UNCHANGED <<written, toServer>>
      <3>1. "COMMAND_TOO_LONG" \in Codes
        BY DEF Codes
      <3> QED
        BY <1>t, <1>7, <2>1, <2>2, <2>5, <3>1, WriteErrorType, ThrowType
        DEF NextCommand, SessionTypeOK
    <2> QED
      BY <1>7, <2>4, <2>5 DEF NextCommand
  <1>8. CASE BatchEnd
    BY <1>t, <1>8, ThrowType DEF BatchEnd, SessionTypeOK, noIO
  <1>9. CASE ProbeSend
    <2>1. Request("probe", current) \in Requests /\ "probeWriting" \in Positions
      BY <1>t DEF SessionTypeOK, Request, Requests, Positions, Writing
    <2>2. CASE StartWrite(Request("probe", current), "probeWriting")
      <3>1. GoTo("probeWriting")
        BY <2>2 DEF StartWrite
      <3> QED
        BY <1>t, <1>9, <2>1, <2>2, <3>1, StartWriteType, GoToType DEF ProbeSend, SessionTypeOK
    <2>3. CASE /\ Return(Dispatched("probe")) \/ Throw(WriteError)
               /\ UNCHANGED <<written, toServer>>
      <3>1. Dispatched("probe") \in Results
        BY NoReplyType, ReplyKindType
      <3> QED
        BY <1>t, <1>9, <2>3, <3>1, WriteErrorType, ThrowType, ReturnType
        DEF ProbeSend, SessionTypeOK
    <2> QED
      BY <1>9, <2>2, <2>3 DEF ProbeSend
  <1>10. CASE ResponsePacket
    <2>1. /\ Answer("terminator", reply) \in Results
          /\ "responseLoop" \in Positions
      BY <1>t, ReplyKindType DEF SessionTypeOK, Positions
    <2>2. reply' \in Replies
      BY <1>t, <1>p, <1>10, AccumulateType DEF ResponsePacket, SessionTypeOK
    <2>3. GoTo("responseLoop") \/ Return(Answer("terminator", reply))
      BY <1>10 DEF ResponsePacket
    <2> QED
      BY <1>t, <1>10, <2>1, <2>2, <2>3, GoToType, ReturnType, UnsettledType
      DEF ResponsePacket, SessionTypeOK
  <1>11. CASE ResponseRejected
    <2>1. \/ \E by \in {"quiet", "closed"} : Return(Answer(by, reply)) \/ Return(Dispatched(by))
          \/ Throw(settled.error)
      BY <1>11 DEF ResponseRejected
    <2>2. \A by \in {"quiet", "closed"} : Answer(by, reply) \in Results /\ Dispatched(by) \in Results
      BY <1>t, ReplyKindType DEF SessionTypeOK
    <2> QED
      BY <1>t, <1>e, <1>11, <2>1, <2>2, ReturnType, ThrowType, UnsettledType
      DEF ResponseRejected, SessionTypeOK
  <1>12. CASE ResponseLoop
    <2>1. /\ Answer("deadline", reply) \in Results /\ Dispatched("deadline") \in Results
          /\ "responseRead" \in Positions /\ "RESPONSE_TIMEOUT" \in Codes
      BY <1>t, ReplyKindType DEF SessionTypeOK, Positions, Codes
    <2> QED
      BY <1>t, <1>12, <2>1, ReturnType, ThrowType, GoToType DEF ResponseLoop, SessionTypeOK, noIO
  <1> QED
    BY <1>1, <1>2, <1>3, <1>4, <1>5, <1>6, <1>7, <1>8, <1>9, <1>10, <1>11, <1>12
    DEF SessionStep

-----------------------------------------------------------------------------
(* The part of TypeOK that a callback can change.                            *)
EventTypeOK ==
  /\ pc \in Positions
  /\ outcome \in Codes \cup {"pending", "ok"}
  /\ socket \in {"none", "connecting", "open", "halfclosed", "failed", "destroyed"}
  /\ results \in Seq(Results)
  /\ terminalError \in Codes \cup {NoError}
  /\ aborted \in BOOLEAN
  /\ queue \in Seq(Packets)
  /\ waiter \in BOOLEAN
  /\ settled \in Settlements
  /\ receivedBytes \in Nat
  /\ confirmed \in Seq(Requests)
  /\ unsent \subseteq Requests
  /\ stream \in Seq(Packets)

(* The part of the type invariant that callbacks need.                      *)
LEMMA TypeOfEvent == TypeOK => EventTypeOK
  BY DEF TypeOK, EventTypeOK, WireTypeOK

(* A data event of n packets keeps the reading side well typed.             *)
LEMMA OnDataType ==
  ASSUME TypeOK, NEW n \in 1..Len(stream), OnData(n)
  PROVE  EventTypeOK'
  <1> DEFINE packets == SubSeq(stream, 1, n)
             buffered == queue \o packets
  <1>t. EventTypeOK
    BY TypeOfEvent
  <1>1. /\ packets \in Seq(Packets) /\ packets # <<>>
        /\ SubSeq(stream, n + 1, Len(stream)) \in Seq(Packets)
    BY <1>t, SubSeqProperties, EmptySeq DEF EventTypeOK
  <1>2. buffered \in Seq(Packets) /\ buffered # <<>>
    <2>1. queue \in Seq(Packets)
      BY <1>t DEF EventTypeOK
    <2> HIDE DEF packets
    <2>2. buffered \in Seq(Packets) /\ Len(buffered) = Len(queue) + Len(packets)
      BY <1>1, <2>1
    <2>3. Len(packets) > 0 /\ Len(queue) >= 0
      BY <1>1, <2>1
    <2> QED
      BY <2>2, <2>3
  <1>3. Head(buffered) \in Packets /\ Tail(buffered) \in Seq(Packets)
    BY <1>2, HeadTailProperties
  <1>4. receivedBytes' \in Nat /\ stream' \in Seq(Packets)
    BY <1>t, <1>1 DEF OnData, EventTypeOK
  <1>5. CASE OnTerminalError("INVALID_PACKET") /\ socket' = "destroyed" /\ UNCHANGED queue
    <2>1. "INVALID_PACKET" \in Codes
      BY DEF Codes
    <2> QED
      BY <1>t, <1>4, <1>5, <2>1, TerminalErrorType DEF OnData, EventTypeOK
  <1>6. CASE /\ queue' = IF waiter THEN Tail(buffered) ELSE buffered
             /\ settled' = IF waiter THEN Resolved(Head(buffered)) ELSE settled
             /\ waiter' = FALSE
             /\ UNCHANGED <<socket, terminalError>>
    <2> HIDE DEF buffered
    <2>1. queue' \in Seq(Packets) /\ settled' \in Settlements
      BY <1>t, <1>2, <1>3, <1>6, SettledType DEF EventTypeOK
    <2> QED
      BY <1>t, <1>4, <1>6, <2>1 DEF OnData, EventTypeOK
  <1> QED
    BY <1>5, <1>6 DEF OnData

(* Every callback keeps the state well typed.                               *)
LEMMA SessionEventType == TypeOK /\ SessionEvent => TypeOK'
  <1> SUFFICES ASSUME TypeOK, SessionEvent
               PROVE  EventTypeOK'
    BY DEF TypeOK, EventTypeOK, SessionEvent, WireTypeOK
  <1>t. EventTypeOK
    BY TypeOfEvent
  <1>c. {"CONNECTION_CLOSED", "CONNECT_FAILED", "CONNECT_TIMEOUT", "REQUEST_TIMEOUT",
         "AUTH_TIMEOUT", "RESPONSE_TIMEOUT"} \subseteq Codes
    BY DEF Codes
  <1>1. CASE SocketConnect
    BY <1>t, <1>1 DEF SocketConnect, EventTypeOK, reader, Positions
  <1>2. CASE ConnectTimer
    BY <1>t, <1>c, <1>2, ThrowType DEF ConnectTimer, EventTypeOK, reader
  <1>3. CASE ConnectError
    BY <1>t, <1>c, <1>3, ThrowType, TerminalErrorType DEF ConnectError, EventTypeOK
  <1>4. CASE ConnectClose
    <2>1. terminalError' \in Codes /\ waiter' \in BOOLEAN /\ settled' \in Settlements
      BY <1>c, <1>4, TerminalErrorType DEF ConnectClose
    <2>2. Throw(terminalError')
      BY <1>4 DEF ConnectClose
    <2>3. /\ pc' \in Positions /\ outcome' \in Codes \cup {"pending", "ok"}
          /\ socket' \in {"none", "connecting", "open", "halfclosed", "failed", "destroyed"}
          /\ results' \in Seq(Results)
      BY <1>t, <2>1, <2>2 DEF Throw, Finish, Positions, EventTypeOK
    <2> QED
      BY <1>t, <1>4, <2>1, <2>3 DEF ConnectClose, EventTypeOK
  <1>5. CASE WriteOk
    <2>1. InFlight \in Requests
      BY <1>5 DEF WriteOk, InFlight, TypeOK, Request, Requests, Writing
    <2>2. confirmed' \in Seq(Requests) /\ unsent' \subseteq Requests
      BY <1>t, <1>5, <2>1 DEF WriteOk, EventTypeOK
    <2>3. \E position \in {"authRead", "probeSend", "responseRead"} : GoTo(position)
      BY <1>5 DEF WriteOk, Writing
    <2>4. {"authRead", "probeSend", "responseRead"} \subseteq Positions
      BY DEF Positions
    <2> QED
      BY <1>t, <1>5, <2>2, <2>3, <2>4, GoToType DEF WriteOk, EventTypeOK, reader
  <1>6. CASE WriteFails
    <2>1. CASE Throw("CONNECTION_CLOSED")
      BY <1>t, <1>c, <1>6, <2>1, ThrowType, TerminalErrorType DEF WriteFails, EventTypeOK
    <2>2. CASE /\ results' = Append(results, Dispatched("probe"))
               /\ pc' = "next" /\ socket' = "failed" /\ UNCHANGED outcome
      <3>1. Dispatched("probe") \in Results /\ "next" \in Positions
        BY NoReplyType, ReplyKindType DEF Positions
      <3> QED
        BY <1>t, <1>c, <1>6, <2>2, <3>1, TerminalErrorType DEF WriteFails, EventTypeOK
    <2> QED
      BY <1>6, <2>1, <2>2 DEF WriteFails
  <1>7. CASE PeerEnd
    BY <1>t, <1>7 DEF PeerEnd, EventTypeOK, reader
  <1>8. CASE SocketClose
    BY <1>t, <1>c, <1>8, TerminalErrorType DEF SocketClose, EventTypeOK
  <1>9. CASE ReadTimer
    BY <1>t, <1>c, <1>9, SettledType DEF ReadTimer, EventTypeOK
  <1>10. CASE Abort
    <2>1. CASE pc = "start"
      BY <1>t, <1>10, <2>1 DEF Abort, EventTypeOK
    <2>2. CASE pc # "start"
      <3>1. OnTerminalError("REQUEST_TIMEOUT") /\ queue' = <<>> /\ Destroy
        BY <1>10, <2>2 DEF Abort
      <3>2. terminalError' \in Codes /\ waiter' \in BOOLEAN /\ settled' \in Settlements
        BY <1>c, <3>1, TerminalErrorType
      <3> QED
        BY <1>t, <1>10, <3>1, <3>2 DEF Abort, Destroy, EventTypeOK
    <2> QED
      BY <2>1, <2>2
  <1>11. CASE \E n \in 1..Len(stream) : OnData(n)
    BY <1>11, OnDataType
  <1> QED
    BY <1>1, <1>2, <1>3, <1>4, <1>5, <1>6, <1>7, <1>8, <1>9, <1>10, <1>11
    DEF SessionEvent

-----------------------------------------------------------------------------
(* Every step of the game server keeps the wire well typed.                 *)
LEMMA ServerType == WireTypeOK /\ ServerNext => WireTypeOK'
  <1> SUFFICES ASSUME WireTypeOK, ServerNext
               PROVE  WireTypeOK'
    OBVIOUS
  <1>p. /\ \A id \in Int : Empty(id) \in Packets /\ Terminator(id) \in Packets /\ AuthReply(id) \in Packets
        /\ \A id, size, n \in Nat : Fragment(id, size, n) \in Packets
        /\ Foreign \in Int /\ Rejection \in Int
    BY DEF Empty, Terminator, AuthReply, Fragment, Packet, Packets, Foreign, Rejection
  <1>t. \A what \in {"auth", "command", "probe"} :
          Takes(what) => toServer' \in Seq(Requests) /\ Head(toServer) \in Requests
    BY HeadTailProperties DEF Takes, WireTypeOK
  <1>1. CASE ServerAuth
    <2>1. PICK accept \in BOOLEAN :
            /\ granted' = accept
            /\ stream' = stream \o <<Empty(0), AuthReply(IF accept THEN 0 ELSE Rejection)>>
      BY <1>1 DEF ServerAuth
    <2>2. <<Empty(0), AuthReply(IF accept THEN 0 ELSE Rejection)>> \in Seq(Packets)
      BY <1>p
    <2>3. stream' \in Seq(Packets)
      BY <2>1, <2>2, ConcatProperties DEF WireTypeOK
    <2>4. toServer' \in Seq(Requests) /\ UNCHANGED <<served, faults>>
      BY <1>1, <1>t DEF ServerAuth
    <2>5. granted' \in BOOLEAN
      BY <2>1
    <2> QED
      BY <2>3, <2>4, <2>5 DEF WireTypeOK
  <1>2. CASE ServerCommand
    <2>0. PICK count \in 0..MaxFragments : \E sizes \in [1..count -> FragmentSizes] :
            /\ served' = [served EXCEPT ![Head(toServer).id] = sizes]
            /\ stream' = stream \o [n \in 1..count |-> Fragment(Head(toServer).id, sizes[n], n)]
      BY <1>2 DEF ServerCommand
    <2>1. PICK sizes \in [1..count -> FragmentSizes] :
            /\ served' = [served EXCEPT ![Head(toServer).id] = sizes]
            /\ stream' = stream \o [n \in 1..count |-> Fragment(Head(toServer).id, sizes[n], n)]
      BY <2>0
    <2>2. Head(toServer).id \in Nat /\ toServer' \in Seq(Requests) /\ UNCHANGED <<granted, faults>>
      BY <1>2, <1>t DEF ServerCommand, Requests
    <2>3. sizes \in Seq(FragmentSizes)
      BY BatchAssumption
    <2>4. served' \in [1..Len(Commands) -> Seq(FragmentSizes)]
      BY <2>1, <2>3 DEF WireTypeOK
    <2>5. \A n \in 1..count : Fragment(Head(toServer).id, sizes[n], n) \in Packets
      <3>1. \A n \in 1..count : sizes[n] \in Nat /\ n \in Nat
        <4> TAKE n \in 1..count
        <4>1. count \in Nat
          BY <2>0, BatchAssumption
        <4>2. n \in Nat
          BY <4>1
        <4>3. sizes[n] \in FragmentSizes
          BY <2>1
        <4> QED
          BY <4>2, <4>3, BatchAssumption
      <3> QED
        BY <1>p, <2>2, <3>1
    <2>6. [n \in 1..count |-> Fragment(Head(toServer).id, sizes[n], n)] \in Seq(Packets)
      BY <2>5, BatchAssumption
    <2>7. stream' \in Seq(Packets)
      BY <2>1, <2>6, ConcatProperties DEF WireTypeOK
    <2> QED
      BY <2>2, <2>4, <2>7 DEF WireTypeOK
  <1>3. CASE ServerProbe
    <2>1. Head(toServer).id \in Nat /\ toServer' \in Seq(Requests) /\ UNCHANGED <<granted, served, faults>>
      BY <1>3, <1>t DEF ServerProbe, Requests
    <2>2. <<Empty(Head(toServer).id), Terminator(Head(toServer).id)>> \in Seq(Packets)
      BY <1>p, <2>1
    <2>3. stream' \in Seq(Packets)
      BY <1>3, <2>2, ConcatProperties DEF ServerProbe, WireTypeOK
    <2> QED
      BY <2>1, <2>3 DEF WireTypeOK
  <1>4. CASE ServerIgnores
    BY <1>4, <1>t DEF ServerIgnores, WireTypeOK
  <1>5. CASE ServerFault
    <2>1. PICK p \in {Malformed, Empty(Foreign), Terminator(Foreign)} : stream' = Append(stream, p)
      BY <1>5 DEF ServerFault
    <2>2. p \in Packets
      BY <1>p, MalformedType
    <2>3. stream' \in Seq(Packets)
      BY <2>1, <2>2 DEF WireTypeOK
    <2>4. faults' \in 0..MaxFaults
      BY <1>5, BatchAssumption DEF ServerFault, WireTypeOK
    <2> QED
      BY <1>5, <2>3, <2>4 DEF ServerFault, WireTypeOK
  <1> QED
    BY <1>1, <1>2, <1>3, <1>4, <1>5 DEF ServerNext

(* Every variable stays in its type, whatever the batch, the limits and the  *)
(* game server: in particular a session never ends without an outcome.       *)
THEOREM TypeCorrect == Spec => []TypeOK
  <1>1. TypeOK /\ [Next]_vars => TypeOK'
    <2> SUFFICES ASSUME TypeOK, [Next]_vars
                 PROVE  TypeOK'
      OBVIOUS
    <2>1. CASE SessionStep
      BY <2>1, SessionStepType
    <2>2. CASE SessionEvent
      BY <2>2, SessionEventType
    <2>3. CASE ServerStep
      <3>1. WireTypeOK'
        BY <2>3, ServerType DEF ServerStep, TypeOK
      <3> QED
        BY <2>3, <3>1 DEF ServerStep, session, TypeOK
    <2>4. CASE UNCHANGED vars
      BY <2>4 DEF vars, session, wireVars, TypeOK, WireTypeOK
    <2> QED
      BY <2>1, <2>2, <2>3, <2>4 DEF Next, Done
  <1> QED
    BY <1>1, InitType, PTL DEF Spec

-----------------------------------------------------------------------------
(* No lost wake-up (readPacket, pumpQueue, onTerminalError): proved by       *)
(* itself once the types are known, because "parked" also says that the      *)
(* promise is unsettled, which keeps the continuations disabled.             *)
THEOREM NoLostWakeup == Spec => []ParkedReader
  <1>1. Init => ParkedReader
    BY DEF Init, ParkedReader
  <1>2. TypeOK /\ ParkedReader /\ [Next]_vars => ParkedReader'
    <2> SUFFICES ASSUME TypeOK, ParkedReader, [Next]_vars, waiter'
                 PROVE  ParkedReader'
      BY DEF ParkedReader
    <2> USE DEF ParkedReader
    <2>1. CASE SessionStep
      <3>1. CASE AuthRead \/ ResponseRead
        <4>1. PICK position \in Reading : ReadPacket(position)
          BY <3>1 DEF AuthRead, ResponseRead, Reading
        <4> QED
          BY <2>1, <3>1, <4>1 DEF ReadPacket, GoTo, AuthRead, ResponseRead, Reading, SessionStep
      <3>2. CASE ~(AuthRead \/ ResponseRead)
        <4>1. waiter' = waiter
          BY <2>1, <3>2 DEF SessionStep, Connect, AuthSend, AuthPacket, AuthRejected, AuthLoop,
               NextCommand, BatchEnd, ProbeSend, ResponsePacket, ResponseRejected, ResponseLoop, noIO
        <4>2. pc \in Reading /\ settled.tag = "none"
          BY <4>1 DEF Unsettled
        <4>3. FALSE
          BY <2>1, <3>2, <4>2 DEF SessionStep, Connect, AuthSend, AuthPacket, AuthRejected, AuthLoop,
               NextCommand, BatchEnd, ProbeSend, ResponsePacket, ResponseRejected, ResponseLoop, Reading
        <4> QED
          BY <4>3
      <3> QED
        BY <3>1, <3>2
    <2>2. CASE SessionEvent
      BY <2>2 DEF SessionEvent, SocketConnect, ConnectTimer, ConnectError, ConnectClose, WriteOk,
           WriteFails, PeerEnd, SocketClose, ReadTimer, Abort, OnData, OnTerminalError,
           reader, Writing, Reading
    <2>3. CASE ServerStep
      BY <2>3 DEF ServerStep, session
    <2>4. CASE UNCHANGED vars
      BY <2>4 DEF vars, session
    <2> QED
      BY <2>1, <2>2, <2>3, <2>4 DEF Next, Done
  <1> QED
    BY <1>1, <1>2, TypeCorrect, PTL DEF Spec

-----------------------------------------------------------------------------
(* What a cancelled session still is.  CancellationIsFinal only looks at one *)
(* step, but that step may be the continuation of a read or a write that was *)
(* pending when the signal came: it must find nothing buffered, a destroyed  *)
(* socket, and no error but REQUEST_TIMEOUT.                                 *)
CancelInv ==
  /\ settled.tag # "none" => pc \in Reading
  /\ socket = "failed" => terminalError # NoError
  /\ pc # "done" => outcome = "pending"
  /\ terminalError = "REQUEST_TIMEOUT" =>
       /\ queue = <<>>
       /\ ~waiter
       /\ socket = "destroyed"
       /\ settled.tag # "packet"
       /\ settled.tag = "error" => settled.error = "REQUEST_TIMEOUT"
       /\ pc \in {"connecting", "authRead", "probeSend", "responseRead", "done"}
                  \cup Writing \cup Reading

(* A cancelled session stays cancelled: no step undoes CancelInv.           *)
LEMMA CancelInvStep == TypeOK /\ ParkedReader /\ CancelInv /\ [Next]_vars => CancelInv'
  <1> SUFFICES ASSUME TypeOK, ParkedReader, CancelInv, [Next]_vars
               PROVE  CancelInv'
    OBVIOUS
  <1> USE DEF CancelInv
  <1>1. CASE SessionStep
    <2>1. CASE AuthRead \/ ResponseRead
      <3>1. PICK position \in Reading : ReadPacket(position)
        BY <2>1 DEF AuthRead, ResponseRead, Reading
      <3>2. /\ pc' \in Reading /\ pc \in {"authRead", "responseRead"}
            /\ UNCHANGED <<socket, terminalError, outcome>>
        BY <1>1, <2>1, <3>1 DEF SessionStep, ReadPacket, GoTo, AuthRead, ResponseRead
      <3>3. CASE queue # <<>>
        <4>1. terminalError # "REQUEST_TIMEOUT"
          BY <3>3
        <4> QED
          BY <3>2, <4>1 DEF Reading
      <3>4. CASE queue = <<>> /\ terminalError = "REQUEST_TIMEOUT"
        <4>1. waiter' = FALSE /\ settled' = Rejected(terminalError) /\ queue' = queue
          BY <3>1, <3>4 DEF ReadPacket
        <4> QED
          BY <3>2, <3>4, <4>1 DEF Rejected, Reading
      <3>5. CASE terminalError # "REQUEST_TIMEOUT"
        BY <3>2, <3>5 DEF Reading
      <3> QED
        BY <3>3, <3>4, <3>5
    <2>2. CASE Connect \/ AuthSend \/ AuthPacket \/ AuthRejected \/ AuthLoop
      BY <1>1, <2>2 DEF SessionStep, Connect, AuthSend, AuthPacket, AuthRejected, AuthLoop, noIO,
         Throw, Finish, GoTo, StartWrite, Unsettled, Reading, Writing
    <2>3. CASE NextCommand \/ BatchEnd \/ ProbeSend
      BY <1>1, <2>3 DEF SessionStep, NextCommand, BatchEnd, ProbeSend, noIO, WriteError, CanWrite,
         Throw, Return, Finish, GoTo, StartWrite, Reading, Writing
    <2>4. CASE ResponsePacket \/ ResponseRejected \/ ResponseLoop
      BY <1>1, <2>4 DEF SessionStep, ResponsePacket, ResponseRejected, ResponseLoop, noIO,
         Throw, Return, Finish, GoTo, Unsettled, Reading, Writing
    <2> QED
      BY <1>1, <2>1, <2>2, <2>3, <2>4 DEF SessionStep
  <1>2. CASE SessionEvent
    <2>1. CASE Abort
      BY <1>2, <2>1 DEF SessionEvent, Abort, Destroy, OnTerminalError, Parked, ParkedReader,
         Rejected, Unsettled, Reading, Writing, TypeOK
    <2>2. CASE \E n \in 1..Len(stream) : OnData(n)
      BY <1>2, <2>2 DEF SessionEvent, OnData, OnTerminalError, ParkedReader, Rejected, Resolved
    <2>3. CASE SocketConnect \/ ConnectTimer \/ ConnectError \/ ConnectClose
      BY <1>2, <2>3 DEF SessionEvent, SocketConnect, ConnectTimer, ConnectError, ConnectClose,
         OnTerminalError, Throw, Finish, Rejected, reader, Reading, ParkedReader
    <2>4. CASE WriteOk \/ WriteFails
      <3>1. pc \in Writing /\ settled.tag = "none" /\ ~waiter
        BY <2>4 DEF WriteOk, WriteFails, Writing, Reading, ParkedReader, TypeOK, Settlements
      <3>2. CASE WriteOk
        BY <1>2, <3>1, <3>2 DEF SessionEvent, WriteOk, GoTo, reader, Reading, Writing
      <3>3. CASE WriteFails
        <4>1. terminalError # "REQUEST_TIMEOUT" /\ terminalError' # "REQUEST_TIMEOUT" /\ terminalError' # NoError
          BY <3>3 DEF WriteFails, OnTerminalError
        <4>2. settled' = settled
          BY <3>1, <3>3 DEF WriteFails, OnTerminalError
        <4>3. pc' # "done" => outcome' = "pending"
          BY <3>1, <3>3 DEF WriteFails, Throw, Finish, Writing
        <4> QED
          BY <3>1, <4>1, <4>2, <4>3
      <3> QED
        BY <2>4, <3>2, <3>3
    <2>5. CASE PeerEnd \/ SocketClose \/ ReadTimer
      BY <1>2, <2>5 DEF SessionEvent, PeerEnd, SocketClose, ReadTimer, OnTerminalError, Parked,
         Rejected, reader, ParkedReader
    <2> QED
      BY <1>2, <2>1, <2>2, <2>3, <2>4, <2>5 DEF SessionEvent
  <1>3. CASE ServerStep
    BY <1>3 DEF ServerStep, session
  <1>4. CASE UNCHANGED vars
    BY <1>4 DEF vars, session
  <1> QED
    BY <1>1, <1>2, <1>3, <1>4 DEF Next, Done

LEMMA AlwaysCancelInv == Spec => []CancelInv
  <1>1. Init => CancelInv
    BY DEF Init, CancelInv, Unsettled
  <1> QED
    BY <1>1, CancelInvStep, TypeCorrect, NoLostWakeup, PTL DEF Spec

(* Cancellation is final (rcon.ts lines 115-119): after the caller's signal  *)
(* ended a sound session, no step adds a result, writes a request or ends    *)
(* the batch with anything but REQUEST_TIMEOUT (or CONNECT_TIMEOUT, while it *)
(* was still connecting).                                                    *)
THEOREM CancellationFinal == Spec => CancellationIsFinal
  <1> DEFINE Final == terminalError = "REQUEST_TIMEOUT" =>
                        /\ UNCHANGED <<results, written>>
                        /\ \/ outcome' \in {"pending", "REQUEST_TIMEOUT"}
                           \/ pc = "connecting" /\ outcome' = "CONNECT_TIMEOUT"
  <1>1. TypeOK /\ ParkedReader /\ CancelInv /\ [Next]_vars => [Final]_vars
    <2> SUFFICES ASSUME TypeOK, ParkedReader, CancelInv, Next, terminalError = "REQUEST_TIMEOUT",
                        vars' # vars
                 PROVE  /\ UNCHANGED <<results, written>>
                        /\ \/ outcome' \in {"pending", "REQUEST_TIMEOUT"}
                           \/ pc = "connecting" /\ outcome' = "CONNECT_TIMEOUT"
      OBVIOUS
    <2> USE DEF CancelInv
    <2>1. CASE SessionStep
      <3>1. pc # "start" /\ pc # "authSend" /\ pc # "next" /\ pc # "responseLoop" /\ pc # "authLoop"
        BY DEF Reading, Writing
      <3>2. ~CanWrite /\ WriteError = "REQUEST_TIMEOUT"
        BY DEF CanWrite, WriteError
      <3>3. CASE AuthRead \/ ResponseRead
        BY <2>1, <3>3 DEF SessionStep, AuthRead, ResponseRead, ReadPacket, GoTo
      <3>4. CASE AuthRejected \/ ProbeSend \/ ResponseRejected
        BY <2>1, <3>2, <3>4 DEF SessionStep, AuthRejected, ProbeSend, ResponseRejected, Throw,
           Finish, StartWrite
      <3> QED
        BY <2>1, <3>1, <3>3, <3>4 DEF SessionStep, Connect, AuthSend, AuthPacket, AuthLoop,
           NextCommand, BatchEnd, ResponsePacket, ResponseLoop
    <2>2. CASE SessionEvent
      <3>1. pc # "done" \/ ~Parked
        BY DEF Parked, Writing, Reading
      <3> QED
        BY <2>2, <3>1 DEF SessionEvent, SocketConnect, ConnectTimer, ConnectError, ConnectClose,
           WriteOk, WriteFails, PeerEnd, SocketClose, ReadTimer, Abort, OnData, OnTerminalError,
           Throw, Finish, GoTo, Parked, Writing
    <2>3. CASE ServerStep
      BY <2>3 DEF ServerStep
    <2>4. CASE Done
      BY <2>4 DEF Done
    <2> QED
      BY <2>1, <2>2, <2>3, <2>4 DEF Next
  <1>2. CancellationIsFinal <=> [][Final]_vars
    BY DEF CancellationIsFinal
  <1> QED
    BY <1>1, <1>2, AlwaysCancelInv, TypeCorrect, NoLostWakeup, PTL DEF Spec

-----------------------------------------------------------------------------
(* The refinement of CommandBatch.  What makes it inductive: where the      *)
(* authentication request and its answer are (WireInv, GrantInv), and how   *)
(* many commands and results there are at each position (StageInv).         *)

(* Only the oldest request can be the authentication, and while it waits    *)
(* access is not granted yet.                                               *)
WireInv ==
  /\ \A i \in 2..Len(toServer) : toServer[i].what # "auth"
  /\ toServer # <<>> /\ toServer[1].what = "auth" => ~granted
  /\ pc \in {"start", "connecting", "authSend"} => toServer = <<>> /\ ~granted

Opening == {"start", "connecting", "authSend", "authWriting", "authRead", "authReading",
            "authLoop"}
Answering == {"probeSend", "probeWriting", "responseRead", "responseReading", "responseLoop"}

(* Whatever says that access was granted is right.                          *)
GrantInv ==
  /\ \A i \in 1..Len(stream) : Accepts(stream[i]) => granted
  /\ \A i \in 1..Len(queue) : Accepts(queue[i]) => granted
  /\ settled.tag = "packet" /\ Accepts(settled.packet) => granted
  /\ pc \in Answering \cup {"next", "commandWriting"} => granted

(* What is dispatched is a transition whose write was reported as done.     *)
DispatchedConfirmed ==
  \A n \in 1..Len(results) :
    results[n].kind = "dispatched" =>
      /\ IsTransition(n)
      /\ \E i \in 1..Len(confirmed) : confirmed[i] = Request("command", n)

StageInv ==
  /\ pc # "done" => outcome = "pending" /\ CommandsIn(written) = current
  /\ pc \in Opening \cup {"next"} => Len(results) = current
  /\ pc \in Answering \cup {"commandWriting"} => Len(results) + 1 = current
  /\ pc \in Answering =>
       \E i \in 1..Len(confirmed) : confirmed[i] = Request("command", current)
  /\ DispatchedConfirmed

(* A command adds one to the commands of a sequence of requests.            *)
LEMMA CommandsInFacts ==
  ASSUME NEW requests \in Seq(Requests), NEW r \in Requests
  PROVE  /\ CommandsIn(requests) \in Nat
         /\ r.what = "command" => CommandsIn(Append(requests, r)) = CommandsIn(requests) + 1
         /\ r.what # "command" => CommandsIn(Append(requests, r)) = CommandsIn(requests)
  <1> DEFINE longer == Append(requests, r)
             old == {i \in 1..Len(requests) : requests[i].what = "command"}
             new == {i \in 1..Len(longer) : longer[i].what = "command"}
  <1>1. /\ Len(longer) = Len(requests) + 1 /\ longer[Len(requests) + 1] = r
        /\ \A i \in 1..Len(requests) : longer[i] = requests[i]
        /\ Len(requests) \in Nat
    OBVIOUS
  <1>2. IsFiniteSet(old) /\ Cardinality(old) \in Nat
    <2>1. IsFiniteSet(1..Len(requests))
      BY <1>1, FS_Interval
    <2>2. QED
      BY <2>1, FS_Subset, FS_CardinalityType
  <1>3. /\ new = IF r.what = "command" THEN old \cup {Len(requests) + 1} ELSE old
        /\ Len(requests) + 1 \notin old
    <2> HIDE DEF longer
    <2>1. QED
      BY <1>1
  <1>4. Cardinality(old \cup {Len(requests) + 1}) = Cardinality(old) + 1
    BY <1>2, <1>3, FS_AddElement
  <1>5. CommandsIn(requests) = Cardinality(old) /\ CommandsIn(longer) = Cardinality(new)
    BY DEF CommandsIn
  <1> HIDE DEF old, new, longer
  <1>6. QED
    <2>1. CommandsIn(longer) = IF r.what = "command" THEN Cardinality(old) + 1
                                                      ELSE Cardinality(old)
      BY <1>3, <1>4, <1>5
    <2>2. QED
      BY <1>2, <1>5, <2>1 DEF longer

(* Adding a result adds its kind.                                           *)
LEMMA KindsFacts ==
  ASSUME NEW list \in Seq(Results), NEW result \in Results
  PROVE  /\ KindsOf(Append(list, result)) = Append(KindsOf(list), result.kind)
         /\ Len(KindsOf(list)) = Len(list) /\ Len(list) \in Nat
  <1> DEFINE longer == Append(list, result)
  <1>1. /\ Len(longer) = Len(list) + 1 /\ longer[Len(list) + 1] = result
        /\ \A n \in 1..Len(list) : longer[n] = list[n]
        /\ Len(list) \in Nat
    OBVIOUS
  <1>2. /\ KindsOf(list) \in Seq({"answer", "dispatched"}) /\ Len(KindsOf(list)) = Len(list)
        /\ \A n \in 1..Len(list) : KindsOf(list)[n] = list[n].kind
    <2>10. \A n \in 1..Len(list) : list[n].kind \in {"answer", "dispatched"}
      <3>1. \A n \in 1..Len(list) : list[n] \in Results
        BY ElementOfSeq
      <3>2. \A one \in Results : one.kind \in {"answer", "dispatched"}
        BY DEF Results
      <3>3. QED
        BY <3>1, <3>2
    <2>1. KindsOf(list) \in [1..Len(list) -> {"answer", "dispatched"}]
      BY <2>10 DEF KindsOf
    <2>2. KindsOf(list) \in Seq({"answer", "dispatched"})
      BY <1>1, <2>1, SeqDef
    <2>3. DOMAIN KindsOf(list) = 1..Len(list)
      BY <2>1
    <2>4. Len(KindsOf(list)) = Len(list)
      BY <1>1, <2>2, <2>3, LenProperties
    <2>5. QED
      BY <2>2, <2>4 DEF KindsOf
  <1> HIDE DEF longer
  <1>3. KindsOf(longer) = Append(KindsOf(list), result.kind)
    <2>1. KindsOf(longer) = [n \in 1..(Len(list) + 1) |-> longer[n].kind]
      BY <1>1 DEF KindsOf
    <2>2. Append(KindsOf(list), result.kind) =
            [n \in 1..(Len(list) + 1) |->
               IF n = Len(list) + 1 THEN result.kind ELSE list[n].kind]
      BY <1>1, <1>2
    <2>3. QED
      BY <1>1, <2>1, <2>2
  <1>4. QED
    BY <1>1, <1>2, <1>3 DEF longer

-----------------------------------------------------------------------------
(* What the kinds of steps do to the stage and to the abstract batch.       *)

(* A step that only moves on.                                               *)
LEMMA Moved ==
  ASSUME TypeOK, StageInv, UNCHANGED <<results, outcome, current, granted, confirmed>>,
         CommandsIn(written') = CommandsIn(written), pc # "done",
         \/ pc' = pc
         \/ pc \in Opening /\ pc' \in Opening \cup {"next"}
         \/ pc \in Answering /\ pc' \in Answering
  PROVE  StageInv' /\ UNCHANGED Batch!vars
  BY DEF TypeOK, StageInv, Opening, Answering, DispatchedConfirmed, Batch!vars

(* A failure of the batch.                                                  *)
LEMMA Thrown ==
  ASSUME StageInv, NEW error \in Codes, Throw(error), pc # "done",
         UNCHANGED <<written, granted, confirmed>>
  PROVE  StageInv' /\ Batch!Next
  <1>1. outcome = "pending" /\ Verdict(outcome') = "failed"
    BY DEF StageInv, Throw, Finish, Verdict, Codes
  <1>2. Batch!Abandon
    BY <1>1 DEF Batch!Abandon, Verdict, Throw
  <1>3. StageInv'
    BY DEF StageInv, Throw, Finish, DispatchedConfirmed, Opening, Answering
  <1>4. QED
    BY <1>2, <1>3 DEF Batch!Next

(* The reply of a command.                                                  *)
LEMMA Replied ==
  ASSUME TypeOK, StageInv, NEW result \in Results, pc \in Answering,
         results' = Append(results, result), pc' = "next",
         result.kind = "dispatched" => IsTransition(current),
         UNCHANGED <<outcome, current, written, granted, confirmed>>
  PROVE  StageInv' /\ Batch!Next
  <1>1. /\ results \in Seq(Results) /\ current \in 0..Len(Commands)
        /\ outcome = "pending" /\ Len(results) + 1 = current
        /\ CommandsIn(written) = current
    BY DEF TypeOK, StageInv, Answering
  <1>2. /\ KindsOf(results') = Append(KindsOf(results), result.kind)
        /\ Len(KindsOf(results)) = Len(results)
    BY <1>1, KindsFacts
  <1>3. result.kind \in {"answer", "dispatched"}
    BY DEF Results
  <1>4. Batch!Reply(result.kind)
    BY <1>1, <1>2 DEF Batch!Reply, Verdict, IsTransition
  <1>5. Batch!Next
    BY <1>3, <1>4 DEF Batch!Next, Batch!ReplyKinds
  <1>6. /\ Len(results') = Len(results) + 1 /\ results'[Len(results) + 1] = result
        /\ \A n \in 1..Len(results) : results'[n] = results[n]
    BY <1>1
  <1>7. DispatchedConfirmed'
    BY <1>1, <1>6 DEF DispatchedConfirmed, StageInv, IsTransition
  <1>8. StageInv'
    BY <1>1, <1>6, <1>7 DEF StageInv, Opening, Answering
  <1>9. QED
    BY <1>5, <1>8

(* What WriteError throws, and readPacket's promise carries, is a code.     *)
LEMMA StageTypes ==
  ASSUME TypeOK
  PROVE  /\ results \in Seq(Results) /\ written \in Seq(Requests) /\ current \in 0..Len(Commands)
         /\ reply \in Replies /\ confirmed \in Seq(Requests) /\ Len(Commands) \in Nat
         /\ WriteError \in Codes
         /\ settled.tag = "error" => settled.error \in Codes
         /\ Commands \in Seq(Kinds)
  BY BatchAssumption, WriteErrorType DEF TypeOK, Settlements

(* The continuations, one at a time.                                        *)
LEMMA OpeningSteps ==
  ASSUME TypeOK, StageInv, SessionStep,
         Connect \/ AuthSend \/ AuthRead \/ AuthPacket \/ AuthRejected \/ AuthLoop
  PROVE  StageInv' /\ [Batch!Next]_(Batch!vars)
  <1> USE DEF Codes
  <1>1. UNCHANGED <<confirmed, granted, current>>
    BY DEF SessionStep, Connect, AuthSend, AuthRead, AuthPacket, AuthRejected, AuthLoop, ReadPacket
  <1>2. CASE Connect \/ AuthRead \/ AuthPacket \/ AuthRejected \/ AuthLoop
    <2>1. pc # "done" /\ UNCHANGED written
      BY <1>2 DEF Connect, AuthRead, AuthPacket, AuthRejected, AuthLoop, ReadPacket, noIO
    <2>2. \/ \E error \in Codes : Throw(error)
          \/ /\ UNCHANGED <<outcome, results>>
             /\ pc \in Opening /\ pc' \in Opening \cup {"next"}
      BY <1>2, StageTypes DEF Connect, AuthRead, AuthPacket, AuthRejected, AuthLoop, ReadPacket,
         GoTo, Opening
    <2>3. QED
      BY <1>1, <2>1, <2>2, Thrown, Moved
  <1>3. CASE AuthSend
    <2>1. CASE StartWrite(Request("auth", 0), "authWriting")
      <3>1. Request("auth", 0) \in Requests /\ Request("auth", 0).what # "command"
        BY DEF Request, Requests
      <3>2. CommandsIn(written') = CommandsIn(written)
        BY <2>1, <3>1, StageTypes, CommandsInFacts DEF StartWrite
      <3>3. QED
        BY <1>1, <1>3, <2>1, <3>2, Moved DEF AuthSend, StartWrite, GoTo, Opening
    <2>2. CASE ~CanWrite /\ Throw(WriteError) /\ UNCHANGED <<written, toServer>>
      BY <1>1, <1>3, <2>2, StageTypes, Thrown DEF AuthSend
    <2>3. QED
      BY <1>3, <2>1, <2>2 DEF AuthSend
  <1>4. QED
    BY <1>2, <1>3

LEMMA NextCommandStep ==
  ASSUME TypeOK, StageInv, GrantInv, SessionStep, NextCommand
  PROVE  StageInv' /\ [Batch!Next]_(Batch!vars)
  <1>1. UNCHANGED <<confirmed, granted>> /\ granted /\ pc = "next" /\ current' = current + 1
        /\ current < Len(Commands)
    BY DEF SessionStep, NextCommand, GrantInv
  <1>2. CASE UNCHANGED written /\ \E error \in Codes : Throw(error)
    BY <1>1, <1>2, Thrown
  <1>3. CASE /\ Commands[current + 1] # "oversized"
             /\ StartWrite(Request("command", current + 1), "commandWriting")
    <2>1. /\ Request("command", current + 1) \in Requests
          /\ Request("command", current + 1).what = "command"
      BY StageTypes DEF Request, Requests
    <2>2. /\ CommandsIn(written') = CommandsIn(written) + 1
      BY <1>3, <2>1, StageTypes, CommandsInFacts DEF StartWrite
    <2>3. /\ outcome = "pending" /\ CommandsIn(written) = current /\ Len(results) = current
          /\ Len(KindsOf(results)) = Len(results)
      BY <1>1 DEF StageInv, KindsOf
    <2>4. pc' = "commandWriting" /\ UNCHANGED <<results, outcome>>
      BY <1>3 DEF StartWrite, GoTo
    <2>5. Batch!Issue
      BY <1>1, <1>3, <2>2, <2>3, <2>4 DEF Batch!Issue, Verdict
    <2>6. StageInv'
      BY <1>1, <2>2, <2>3, <2>4, StageTypes
      DEF StageInv, Opening, Answering, DispatchedConfirmed
    <2>7. QED
      BY <2>5, <2>6 DEF Batch!Next
  <1>4. QED
    BY <1>2, <1>3, StageTypes DEF NextCommand, Codes

LEMMA BatchEndStep ==
  ASSUME TypeOK, StageInv, GrantInv, SessionStep, BatchEnd
  PROVE  StageInv' /\ [Batch!Next]_(Batch!vars)
  <1>1. /\ granted /\ outcome = "pending" /\ Len(results) = Len(Commands)
        /\ Len(KindsOf(results)) = Len(results)
    BY DEF BatchEnd, GrantInv, StageInv, KindsOf
  <1>2. pc' = "done" /\ outcome' = "ok" /\ UNCHANGED <<results, written, confirmed, granted>>
    BY DEF SessionStep, BatchEnd, Throw, Finish, noIO
  <1>3. Batch!Complete
    BY <1>1, <1>2 DEF Batch!Complete, Verdict
  <1>4. StageInv'
    BY <1>2 DEF StageInv, Opening, Answering, DispatchedConfirmed
  <1>5. QED
    BY <1>3, <1>4 DEF Batch!Next

LEMMA AnsweringSteps ==
  ASSUME TypeOK, StageInv, SessionStep,
         ProbeSend \/ ResponseRead \/ ResponsePacket \/ ResponseRejected \/ ResponseLoop
  PROVE  StageInv' /\ [Batch!Next]_(Batch!vars)
  <1>1. UNCHANGED <<confirmed, granted, current>> /\ pc \in Answering /\ pc # "done"
    BY DEF SessionStep, ProbeSend, ResponseRead, ResponsePacket, ResponseRejected, ResponseLoop,
       ReadPacket, Answering
  <1>2. \A by \in {"terminator", "quiet", "closed", "deadline", "probe"} :
          /\ Answer(by, reply) \in Results /\ Answer(by, reply).kind = "answer"
          /\ Dispatched(by) \in Results
    BY ReplyKindType, StageTypes DEF Answer
  <1>3. ASSUME UNCHANGED <<outcome, results>>, CommandsIn(written') = CommandsIn(written),
               pc' \in Answering
        PROVE  StageInv' /\ [Batch!Next]_(Batch!vars)
    BY <1>1, <1>3, Moved
  <1>4. ASSUME UNCHANGED written, NEW error \in Codes, Throw(error)
        PROVE  StageInv' /\ [Batch!Next]_(Batch!vars)
    BY <1>1, <1>4, Thrown
  <1>5. ASSUME UNCHANGED written, NEW result \in Results, Return(result),
               result.kind = "dispatched" => IsTransition(current)
        PROVE  StageInv' /\ [Batch!Next]_(Batch!vars)
    BY <1>1, <1>5, Replied DEF Return
  <1>6. CASE ProbeSend
    <2>1. CASE StartWrite(Request("probe", current), "probeWriting")
      <3>1. Request("probe", current) \in Requests /\ Request("probe", current).what # "command"
        BY StageTypes DEF Request, Requests
      <3>2. CommandsIn(written') = CommandsIn(written)
        BY <2>1, <3>1, StageTypes, CommandsInFacts DEF StartWrite
      <3>3. QED
        BY <1>3, <2>1, <3>2 DEF StartWrite, GoTo, Answering
    <2>2. CASE UNCHANGED written /\ IsTransition(current) /\ Return(Dispatched("probe"))
      BY <1>2, <1>5, <2>2
    <2>3. CASE UNCHANGED written /\ Throw(WriteError)
      BY <1>4, <2>3, StageTypes
    <2>4. QED
      BY <1>6, <2>1, <2>2, <2>3 DEF ProbeSend
  <1>7. CASE ResponseRead
    BY <1>3, <1>7 DEF ResponseRead, ReadPacket, GoTo, Answering
  <1>8. CASE ResponsePacket
    <2>1. UNCHANGED written
      BY <1>8 DEF ResponsePacket
    <2>2. GoTo("responseLoop") \/ Return(Answer("terminator", reply))
      BY <1>8 DEF ResponsePacket
    <2>3. QED
      BY <1>2, <1>3, <1>5, <2>1, <2>2 DEF GoTo, Answering
  <1>9. CASE ResponseRejected
    <2>1. UNCHANGED written /\ settled.error \in Codes
      BY <1>9, StageTypes DEF ResponseRejected
    <2>2. \/ \E by \in {"quiet", "closed"} : Return(Answer(by, reply))
          \/ IsTransition(current) /\ \E by \in {"quiet", "closed"} : Return(Dispatched(by))
          \/ Throw(settled.error)
      BY <1>9 DEF ResponseRejected
    <2>3. QED
      BY <1>2, <1>4, <1>5, <2>1, <2>2
  <1>10. CASE ResponseLoop
    <2>1. UNCHANGED written
      BY <1>10 DEF ResponseLoop, noIO
    <2>2. \/ GoTo("responseRead") \/ Return(Answer("deadline", reply))
          \/ IsTransition(current) /\ Return(Dispatched("deadline"))
          \/ Throw("RESPONSE_TIMEOUT")
      BY <1>10 DEF ResponseLoop
    <2>3. QED
      BY <1>2, <1>3, <1>4, <1>5, <2>1, <2>2 DEF GoTo, Answering, Codes
  <1>11. QED
    BY <1>6, <1>7, <1>8, <1>9, <1>10

(* The callbacks: a write that was confirmed or failed, a connection that   *)
(* was not made; the others only move packets.                              *)
LEMMA CallbackSteps ==
  ASSUME TypeOK, ParkedReader, StageInv, SessionEvent
  PROVE  StageInv' /\ [Batch!Next]_(Batch!vars)
  <1> USE DEF Codes
  <1>1. UNCHANGED <<written, granted, current>>
    BY DEF SessionEvent
  <1>2. CASE WriteOk
    <2>1. /\ UNCHANGED <<results, outcome>> /\ pc \in Writing /\ pc # "done"
          /\ confirmed' = Append(confirmed, InFlight)
          /\ pc' = CASE pc = "authWriting" -> "authRead" [] pc = "commandWriting" -> "probeSend"
                     [] pc = "probeWriting" -> "responseRead"
      BY <1>2 DEF WriteOk, GoTo, Writing
    <2>2. /\ Len(confirmed') = Len(confirmed) + 1 /\ confirmed'[Len(confirmed) + 1] = InFlight
          /\ \A i \in 1..Len(confirmed) : confirmed'[i] = confirmed[i]
      BY <2>1, StageTypes
    <2>3. Len(confirmed) \in Nat
      BY StageTypes
    <2>4. DispatchedConfirmed'
      BY <2>1, <2>2, <2>3 DEF StageInv, DispatchedConfirmed, IsTransition
    <2>5. pc = "commandWriting" => InFlight = Request("command", current)
      BY DEF InFlight
    <2>6. StageInv'
      BY <1>1, <2>1, <2>2, <2>3, <2>4, <2>5 DEF StageInv, Writing, Opening, Answering
    <2>7. QED
      BY <1>1, <2>1, <2>6 DEF Batch!vars
  <1>3. CASE WriteFails
    <2>1. pc \in Writing /\ pc # "done" /\ UNCHANGED confirmed
      BY <1>3 DEF WriteFails, Writing
    <2>2. CASE Throw("CONNECTION_CLOSED")
      BY <1>1, <2>1, <2>2, Thrown
    <2>3. CASE /\ TransitionProbe /\ results' = Append(results, Dispatched("probe"))
               /\ pc' = "next" /\ UNCHANGED outcome
      <3>1. Dispatched("probe") \in Results /\ pc \in Answering /\ IsTransition(current)
        BY <2>3, ReplyKindType, StageTypes DEF TransitionProbe, Answering
      <3>2. QED
        BY <1>1, <2>1, <2>3, <3>1, Replied
    <2>4. QED
      BY <1>3, <2>2, <2>3 DEF WriteFails
  <1>4. CASE ConnectTimer \/ ConnectError \/ ConnectClose
    <2>1. pc # "done" /\ UNCHANGED confirmed /\ \E error \in Codes : Throw(error)
      <3>1. ConnectClose => terminalError' \in Codes
        BY TerminalErrorType DEF ConnectClose
      <3>2. QED
        BY <1>4, <3>1 DEF ConnectTimer, ConnectError, ConnectClose
    <2>2. QED
      BY <1>1, <2>1, Thrown
  <1>5. CASE SocketConnect \/ PeerEnd \/ SocketClose \/ ReadTimer \/ Abort
             \/ \E n \in 1..Len(stream) : OnData(n)
    <2>1. UNCHANGED <<results, outcome, confirmed>>
      BY <1>5 DEF SocketConnect, PeerEnd, SocketClose, ReadTimer, Abort, OnData
    <2>2. pc # "done"
      BY <1>5 DEF SocketConnect, PeerEnd, SocketClose, ReadTimer, Abort, OnData, Parked,
         ParkedReader, Reading, Writing
    <2>3. pc' = pc \/ (pc \in Opening /\ pc' \in Opening)
      BY <1>5 DEF SocketConnect, PeerEnd, SocketClose, ReadTimer, Abort, OnData, Opening
    <2>4. QED
      BY <1>1, <2>1, <2>2, <2>3, Moved
  <1>6. QED
    BY <1>2, <1>3, <1>4, <1>5 DEF SessionEvent

(* The game server's steps are steps of nobody, save that it grants access.  *)
LEMMA ServerSteps ==
  ASSUME TypeOK, WireInv, GrantInv, StageInv, ServerStep
  PROVE  StageInv' /\ [Batch!Next]_(Batch!vars) /\ (granted => granted')
  <1>1. UNCHANGED <<pc, current, results, outcome, written, confirmed>>
    BY DEF ServerStep, session
  <1>2. StageInv'
    BY <1>1 DEF StageInv, DispatchedConfirmed
  <1>3. CASE granted' = granted
    BY <1>1, <1>2, <1>3 DEF Batch!vars
  <1>4. CASE granted' # granted
    <2>1. ServerAuth /\ granted' \in BOOLEAN
      BY <1>4 DEF ServerStep, ServerNext, ServerAuth, ServerCommand, ServerProbe, ServerIgnores,
         ServerFault
    <2>2. toServer # <<>> /\ toServer[1].what = "auth"
      BY <2>1 DEF ServerAuth, Takes, TypeOK, WireTypeOK
    <2>3. ~granted /\ granted'
      BY <1>4, <2>1, <2>2 DEF WireInv, TypeOK, WireTypeOK
    <2>4. Batch!Grant
      BY <1>1, <2>3 DEF Batch!Grant
    <2>5. QED
      BY <1>2, <2>3, <2>4 DEF Batch!Next
  <1>5. QED
    BY <1>3, <1>4

-----------------------------------------------------------------------------
(* A continuation may append a request; the first is the authentication.    *)
LEMMA SessionWire ==
  ASSUME TypeOK, SessionStep
  PROVE  /\ granted' = granted
         /\ \/ /\ toServer' = Append(toServer, Request("auth", 0))
               /\ pc = "authSend" /\ pc' = "authWriting"
            \/ /\ \E r \in Requests : r.what # "auth" /\ toServer' = Append(toServer, r)
               /\ pc' \in {"commandWriting", "probeWriting"}
            \/ /\ toServer' = toServer
               /\ pc' \in {"start", "connecting", "authSend"} =>
                    pc \in {"start", "connecting", "authSend"}
  <1>1. granted' = granted
    BY DEF SessionStep
  <1>2. CASE AuthSend
    BY <1>1, <1>2 DEF AuthSend, StartWrite, GoTo, Throw, Finish
  <1>3. CASE NextCommand
    <2>1. Request("command", current + 1) \in Requests /\ Request("command", current + 1).what # "auth"
      BY StageTypes DEF Request, Requests
    <2>2. QED
      BY <1>1, <1>3, <2>1 DEF NextCommand, StartWrite, GoTo, Throw, Finish
  <1>4. CASE ProbeSend
    <2>1. Request("probe", current) \in Requests /\ Request("probe", current).what # "auth"
      BY StageTypes DEF Request, Requests
    <2>2. QED
      BY <1>1, <1>4, <2>1 DEF ProbeSend, StartWrite, GoTo, Throw, Finish, Return
  <1>5. CASE Connect \/ AuthRead \/ AuthPacket \/ AuthRejected \/ AuthLoop \/ BatchEnd
    BY <1>1, <1>5 DEF Connect, AuthRead, AuthPacket, AuthRejected, AuthLoop, BatchEnd, noIO,
       ReadPacket, Throw, Finish, GoTo
  <1>6. CASE ResponseRead \/ ResponsePacket \/ ResponseRejected \/ ResponseLoop
    BY <1>1, <1>6 DEF ResponseRead, ResponsePacket, ResponseRejected, ResponseLoop, noIO,
       ReadPacket, Throw, Finish, GoTo, Return
  <1>7. QED
    BY <1>2, <1>3, <1>4, <1>5, <1>6 DEF SessionStep

(* Requests reach the server in the order they were written, the            *)
(* authentication first and once.                                           *)
LEMMA WireSteps ==
  ASSUME TypeOK, WireInv, [Next]_vars
  PROVE  WireInv'
  <1>1. toServer \in Seq(Requests)
    BY DEF TypeOK, WireTypeOK
  <1>2. CASE SessionStep
    <2>1. ASSUME NEW r \in Requests, toServer' = Append(toServer, r)
          PROVE  /\ Len(toServer) \in Nat /\ Len(toServer') = Len(toServer) + 1
                 /\ toServer'[Len(toServer) + 1] = r
                 /\ \A i \in 1..Len(toServer) : toServer'[i] = toServer[i]
      BY <1>1, <2>1
    <2>2. CASE /\ toServer' = Append(toServer, Request("auth", 0)) /\ granted' = granted
               /\ pc = "authSend" /\ pc' = "authWriting"
      BY <2>2 DEF WireInv
    <2>3. CASE /\ \E r \in Requests : r.what # "auth" /\ toServer' = Append(toServer, r)
               /\ pc' \in {"commandWriting", "probeWriting"} /\ granted' = granted
      <3>1. PICK r \in Requests : r.what # "auth" /\ toServer' = Append(toServer, r)
        BY <2>3
      <3>2. /\ Len(toServer) \in Nat /\ Len(toServer') = Len(toServer) + 1
            /\ toServer'[Len(toServer) + 1] = r
            /\ \A i \in 1..Len(toServer) : toServer'[i] = toServer[i]
        BY <2>1, <3>1
      <3>3. CASE toServer = <<>>
        BY <2>3, <3>1, <3>3 DEF WireInv
      <3>4. CASE toServer # <<>>
        <4>1. Len(toServer) >= 1
          BY <1>1, <3>4
        <4>2. \A i \in 2..Len(toServer') : toServer'[i].what # "auth"
          BY <3>1, <3>2 DEF WireInv
        <4>3. QED
          BY <2>3, <3>2, <3>4, <4>1, <4>2 DEF WireInv
      <3>5. QED
        BY <3>3, <3>4
    <2>4. QED
      BY <1>2, <2>2, <2>3, SessionWire DEF WireInv
  <1>3. CASE SessionEvent
    <2>1. UNCHANGED <<toServer, granted>>
      BY <1>3 DEF SessionEvent, SocketConnect, ConnectTimer, ConnectError, ConnectClose, WriteOk,
         WriteFails, PeerEnd, SocketClose, ReadTimer, Abort, OnData
    <2>2. pc' \in {"start", "connecting", "authSend"} => pc \in {"start", "connecting", "authSend"}
      BY <1>3 DEF SessionEvent, SocketConnect, ConnectTimer, ConnectError, ConnectClose, WriteOk,
         WriteFails, PeerEnd, SocketClose, ReadTimer, Abort, OnData, Throw, Finish, GoTo, Writing
    <2>3. QED
      BY <2>1, <2>2 DEF WireInv
  <1>4. CASE ServerStep
    <2>1. pc' = pc
      BY <1>4 DEF ServerStep, session
    <2>2. CASE UNCHANGED <<toServer, granted>>
      BY <2>1, <2>2 DEF WireInv
    <2>3. CASE toServer # <<>> /\ toServer' = Tail(toServer)
      <3>1. /\ toServer' \in Seq(Requests) /\ Len(toServer') = Len(toServer) - 1
            /\ \A i \in 1..Len(toServer') : toServer'[i] = toServer[i + 1]
        BY <1>1, <2>3
      <3>2. \A i \in 1..Len(toServer') : toServer'[i].what # "auth"
        BY <1>1, <3>1 DEF WireInv
      <3>3. toServer' # <<>> => toServer'[1].what # "auth"
        BY <3>1, <3>2
      <3>4. QED
        BY <2>1, <2>3, <3>2, <3>3 DEF WireInv
    <2>4. QED
      BY <1>4, <2>2, <2>3 DEF ServerStep, ServerNext, ServerAuth, ServerCommand, ServerProbe,
         ServerIgnores, ServerFault, Takes
  <1>5. CASE UNCHANGED vars
    BY <1>5 DEF vars, session, wireVars, WireInv
  <1>6. QED
    BY <1>2, <1>3, <1>4, <1>5 DEF Next, Done

-----------------------------------------------------------------------------
(* Of the server's packets only its own acceptance grants access.            *)
LEMMA PacketFacts ==
  /\ \A p \in {Malformed, Empty(Foreign), Terminator(Foreign)} : p \in Packets /\ ~Accepts(p)
  /\ \A id \in Nat : /\ Empty(id) \in Packets /\ ~Accepts(Empty(id))
                     /\ Terminator(id) \in Packets /\ ~Accepts(Terminator(id))
  /\ \A id, size, part \in Nat : /\ Fragment(id, size, part) \in Packets
                                 /\ ~Accepts(Fragment(id, size, part))
  /\ \A accept \in BOOLEAN :
       /\ AuthReply(IF accept THEN 0 ELSE Rejection) \in Packets
       /\ Accepts(AuthReply(IF accept THEN 0 ELSE Rejection)) => accept
  <1> USE DEF Packet, Packets, Foreign, Rejection, Accepts
  <1>1. Malformed \in Packets /\ ~Accepts(Malformed)
    BY DEF Malformed
  <1>2. \A id \in Int : /\ Empty(id) \in Packets /\ ~Accepts(Empty(id))
                       /\ Terminator(id) \in Packets /\ ~Accepts(Terminator(id))
    BY DEF Empty, Terminator
  <1>3. \A id, size, part \in Nat : /\ Fragment(id, size, part) \in Packets
                                   /\ ~Accepts(Fragment(id, size, part))
    BY DEF Fragment
  <1>4. \A accept \in BOOLEAN :
          /\ AuthReply(IF accept THEN 0 ELSE Rejection) \in Packets
          /\ Accepts(AuthReply(IF accept THEN 0 ELSE Rejection)) => accept
    BY DEF AuthReply
  <1>5. Foreign \in Int
    OBVIOUS
  <1> HIDE DEF Packet, Packets, Foreign, Rejection, Accepts
  <1>6. QED
    BY <1>1, <1>2, <1>3, <1>4, <1>5

(* Wherever a granting packet may be, access was granted.                    *)
LEMMA GrantSteps ==
  ASSUME TypeOK, ParkedReader, WireInv, GrantInv, StageInv, [Next]_vars
  PROVE  GrantInv'
  <1> DEFINE Telling(packets) == \A i \in 1..Len(packets) : Accepts(packets[i]) => granted
  <1>1. stream \in Seq(Packets) /\ queue \in Seq(Packets) /\ Telling(stream) /\ Telling(queue)
    BY DEF TypeOK, WireTypeOK, GrantInv
  <1>2. CASE SessionStep
    <2>1. UNCHANGED <<stream, granted>>
      BY <1>2 DEF SessionStep
    <2>2. CASE AuthRead \/ ResponseRead
      <3>1. PICK position \in Reading : ReadPacket(position)
        BY <2>2 DEF AuthRead, ResponseRead, Reading
      <3>2. pc' \in Answering => pc \in Answering
        BY <2>2 DEF AuthRead, ResponseRead, ReadPacket, GoTo, Answering
      <3>3. pc' \in Reading
        BY <3>1 DEF ReadPacket, GoTo
      <3>4. CASE queue # <<>>
        <4>1. /\ queue' = Tail(queue) /\ settled'.packet = queue[1]
          BY <1>1, <3>1, <3>4 DEF ReadPacket, Resolved
        <4>2. /\ 1 \in 1..Len(queue) /\ Len(queue') = Len(queue) - 1
              /\ \A i \in 1..Len(queue') : queue'[i] = queue[i + 1]
          BY <1>1, <3>4, <4>1
        <4>3. QED
          BY <1>1, <2>1, <3>2, <3>3, <4>1, <4>2 DEF GrantInv, Reading, Accepts, Answering
      <3>5. CASE queue = <<>>
        <4>1. queue' = queue /\ settled'.tag # "packet"
          BY <3>1, <3>5 DEF ReadPacket, Rejected, Unsettled
        <4>2. QED
          BY <2>1, <3>2, <3>3, <4>1 DEF GrantInv, Reading, Accepts, Answering
      <3>6. QED
        BY <3>4, <3>5
    <2>3. CASE ~(AuthRead \/ ResponseRead)
      <3>1. queue' = queue /\ (settled' = settled \/ settled' = Unsettled)
        BY <1>2, <2>3 DEF SessionStep, Connect, AuthSend, AuthPacket, AuthRejected, AuthLoop,
           NextCommand, BatchEnd, ProbeSend, ResponsePacket, ResponseRejected, ResponseLoop, noIO
      <3>2. pc' \in Answering \cup {"next", "commandWriting"} => granted
        <4>1. CASE AuthPacket
          BY <4>1 DEF AuthPacket, Throw, Finish, GoTo, Answering, GrantInv
        <4>2. CASE pc \in Answering \cup {"next"}
          BY <4>2 DEF GrantInv
        <4>3. CASE Connect \/ AuthSend \/ AuthRejected \/ AuthLoop
          BY <4>3 DEF Connect, AuthSend, AuthRejected, AuthLoop, StartWrite, Throw, Finish, GoTo,
             Answering
        <4>4. QED
          BY <1>2, <2>3, <4>1, <4>2, <4>3 DEF SessionStep, NextCommand, BatchEnd, ProbeSend,
             ResponsePacket, ResponseRejected, ResponseLoop, Answering
      <3>3. Unsettled.tag # "packet"
        BY DEF Unsettled
      <3>4. QED
        BY <2>1, <3>1, <3>2, <3>3 DEF GrantInv, Accepts
    <2>4. QED
      BY <2>2, <2>3
  <1>3. CASE SessionEvent
    <2>1. granted' = granted
      BY <1>3 DEF SessionEvent
    <2>2. pc' \in Answering \cup {"next", "commandWriting"} => granted
      BY <1>3 DEF SessionEvent, SocketConnect, ConnectTimer, ConnectError, ConnectClose, WriteOk,
         WriteFails, PeerEnd, SocketClose, ReadTimer, Abort, OnData, Throw, Finish, GoTo, Writing,
         Answering, GrantInv, TransitionProbe
    <2>3. CASE \E n \in 1..Len(stream) : OnData(n)
      <3>1. PICK n \in 1..Len(stream) : OnData(n)
        BY <2>3
      <3> DEFINE packets == SubSeq(stream, 1, n)
                 buffered == queue \o packets
      <3>2. /\ packets \in Seq(Packets) /\ Len(packets) = n /\ n \in Nat \ {0}
            /\ \A i \in 1..n : packets[i] = stream[i]
        BY <1>1, SubSeqProperties
      <3>3. /\ buffered \in Seq(Packets) /\ Len(buffered) = Len(queue) + n
            /\ \A i \in 1..Len(buffered) :
                  buffered[i] = IF i <= Len(queue) THEN queue[i] ELSE packets[i - Len(queue)]
        BY <1>1, <3>2, ConcatProperties
      <3>4. Telling(buffered)
        <4> HIDE DEF packets, buffered
        <4>1. Len(queue) \in Nat /\ Len(stream) \in Nat /\ n <= Len(stream)
          BY <1>1
        <4>2. SUFFICES ASSUME NEW i \in 1..Len(buffered), Accepts(buffered[i])
                       PROVE  granted
          OBVIOUS
        <4>3. CASE i <= Len(queue)
          BY <1>1, <3>3, <4>1, <4>2, <4>3
        <4>4. CASE i > Len(queue)
          <5>1. i - Len(queue) \in 1..n /\ i - Len(queue) \in 1..Len(stream)
            BY <3>3, <4>1, <4>4
          <5>2. buffered[i] = stream[i - Len(queue)]
            BY <3>2, <3>3, <4>1, <4>4, <5>1
          <5>3. QED
            BY <1>1, <4>2, <5>1, <5>2
        <4>5. QED
          BY <3>3, <4>1, <4>3, <4>4
      <3>5. stream' = SubSeq(stream, n + 1, Len(stream))
        BY <3>1 DEF OnData
      <3>6. Telling(stream')
        <4>1. /\ Len(stream') = Len(stream) - n /\ Len(stream) \in Nat
              /\ \A i \in 1..(Len(stream) - n) : stream'[i] = stream[i + n]
          BY <1>1, <3>2, <3>5, SubSeqProperties
        <4>2. QED
          BY <1>1, <3>2, <4>1
      <3>7. \/ UNCHANGED queue /\ (settled' = settled \/ settled'.tag # "packet")
            \/ queue' = buffered /\ settled' = settled
            \/ queue' = Tail(buffered) /\ settled' = Resolved(Head(buffered))
        <4>1. \/ OnTerminalError("INVALID_PACKET") /\ UNCHANGED queue
              \/ /\ queue' = IF waiter THEN Tail(buffered) ELSE buffered
                 /\ settled' = IF waiter THEN Resolved(Head(buffered)) ELSE settled
          BY <3>1, Zenon DEF OnData
        <4> HIDE DEF packets, buffered
        <4>2. QED
          BY <4>1 DEF OnTerminalError, Rejected
      <3>8. buffered # <<>> /\ 1 \in 1..Len(buffered)
        <4> HIDE DEF packets, buffered
        <4>1. QED
          BY <1>1, <3>2, <3>3
      <3> HIDE DEF packets, buffered
      <3>9. /\ Head(buffered) = buffered[1] /\ Len(Tail(buffered)) = Len(buffered) - 1
            /\ \A i \in 1..(Len(buffered) - 1) : Tail(buffered)[i] = buffered[i + 1]
        BY <3>3, <3>8
      <3>10. Telling(Tail(buffered)) /\ (Accepts(Head(buffered)) => granted)
        BY <3>3, <3>4, <3>8, <3>9
      <3>11. /\ Telling(queue')
             /\ settled'.tag = "packet" /\ Accepts(settled'.packet) => granted
        <4>1. CASE UNCHANGED queue /\ (settled' = settled \/ settled'.tag # "packet")
          BY <1>1, <4>1 DEF GrantInv
        <4>2. CASE queue' = buffered /\ settled' = settled
          BY <3>4, <4>2 DEF GrantInv
        <4>3. CASE queue' = Tail(buffered) /\ settled' = Resolved(Head(buffered))
          <5>1. settled'.packet = Head(buffered)
            BY <4>3 DEF Resolved
          <5>2. QED
            BY <3>10, <4>3, <5>1
        <4>4. QED
          BY <3>7, <4>1, <4>2, <4>3
      <3>12. QED
        BY <2>1, <2>2, <3>6, <3>11 DEF GrantInv, Accepts
    <2>4. CASE ~\E n \in 1..Len(stream) : OnData(n)
      <3>1. /\ stream' = stream \/ stream' = <<>>
            /\ queue' = queue \/ queue' = <<>>
            /\ settled' = settled \/ settled'.tag # "packet"
        BY <1>3, <2>4 DEF SessionEvent, SocketConnect, ConnectTimer, ConnectError, ConnectClose,
           WriteOk, WriteFails, PeerEnd, SocketClose, ReadTimer, Abort, OnTerminalError,
           Rejected, reader
      <3>2. QED
        BY <2>1, <2>2, <3>1 DEF GrantInv, Accepts
    <2>5. QED
      BY <2>3, <2>4
  <1>4. CASE ServerStep
    <2>1. UNCHANGED <<pc, queue, settled>> /\ (granted => granted')
      BY <1>4, ServerSteps DEF ServerStep, session
    <2>10. toServer # <<>> => Head(toServer).id \in Nat
      <3>1. toServer # <<>> => Head(toServer) \in Requests
        BY HeadTailProperties DEF TypeOK, WireTypeOK
      <3>2. QED
        BY <3>1 DEF Requests
    <2>2. PICK news \in Seq(Packets) :
            /\ stream' = stream \o news
            /\ \A i \in 1..Len(news) : Accepts(news[i]) => granted'
      <3>1. CASE ServerAuth
        <4>1. PICK accept \in BOOLEAN :
                /\ granted' = accept
                /\ stream' = stream \o <<Empty(0), AuthReply(IF accept THEN 0 ELSE Rejection)>>
          BY <3>1 DEF ServerAuth
        <4> DEFINE verdict == AuthReply(IF accept THEN 0 ELSE Rejection)
                   news == <<Empty(0), verdict>>
        <4>2. /\ Empty(0) \in Packets /\ verdict \in Packets
              /\ ~Accepts(Empty(0)) /\ (Accepts(verdict) => granted')
          BY <4>1, PacketFacts
        <4> HIDE DEF verdict
        <4>3. /\ news \in Seq(Packets) /\ Len(news) = 2
              /\ news[1] = Empty(0) /\ news[2] = verdict
          BY <4>2
        <4> HIDE DEF news
        <4>4. \A i \in 1..Len(news) : Accepts(news[i]) => granted'
          BY <4>2, <4>3
        <4>5. QED
          BY <4>1, <4>3, <4>4 DEF news, verdict
      <3>2. CASE ServerCommand
        <4> DEFINE id == Head(toServer).id
        <4>1. PICK count \in 0..MaxFragments : \E sizes \in [1..count -> FragmentSizes] :
                stream' = stream \o [n \in 1..count |-> Fragment(id, sizes[n], n)]
          BY <3>2 DEF ServerCommand
        <4>2. PICK sizes \in [1..count -> FragmentSizes] :
                stream' = stream \o [n \in 1..count |-> Fragment(id, sizes[n], n)]
          BY <4>1
        <4> DEFINE news == [n \in 1..count |-> Fragment(id, sizes[n], n)]
        <4>3. id \in Nat /\ count \in Nat
          BY <3>2, <2>10, BatchAssumption DEF ServerCommand, Takes
        <4>4. \A n \in 1..count : /\ Fragment(id, sizes[n], n) \in Packets
                                  /\ ~Accepts(Fragment(id, sizes[n], n))
          <5> HIDE DEF id
          <5>1. \A n \in 1..count : sizes[n] \in FragmentSizes
            BY <4>2
          <5>2. FragmentSizes \subseteq Nat /\ \A n \in 1..count : n \in Nat
            BY <4>3, BatchAssumption
          <5>3. \A n \in 1..count : sizes[n] \in Nat
            BY <5>1, <5>2
          <5> HIDE DEF id
          <5>4. QED
            BY <4>3, <5>2, <5>3, PacketFacts
        <4>5. news \in [1..count -> Packets] /\ \A n \in 1..count : ~Accepts(news[n])
          BY <4>4
        <4>6. stream' = stream \o news
          BY <4>2
        <4> HIDE DEF news
        <4>7. news \in Seq(Packets) /\ Len(news) = count
          BY <4>3, <4>5
        <4>8. QED
          BY <4>5, <4>6, <4>7
      <3>3. CASE ServerProbe
        <4> DEFINE id == Head(toServer).id
                   news == <<Empty(id), Terminator(id)>>
        <4>1. id \in Nat
          BY <3>3, <2>10 DEF ServerProbe, Takes
        <4> HIDE DEF id
        <4>2. /\ Empty(id) \in Packets /\ Terminator(id) \in Packets
              /\ ~Accepts(Empty(id)) /\ ~Accepts(Terminator(id))
          BY <4>1, PacketFacts
        <4>3. /\ news \in Seq(Packets) /\ Len(news) = 2
              /\ news[1] = Empty(id) /\ news[2] = Terminator(id)
          BY <4>2
        <4>4. stream' = stream \o news
          BY <3>3 DEF ServerProbe, id
        <4> HIDE DEF news
        <4>5. \A i \in 1..Len(news) : ~Accepts(news[i])
          BY <4>2, <4>3
        <4>6. QED
          BY <4>3, <4>4, <4>5
      <3>4. CASE ServerIgnores
        <4> DEFINE news == <<>>
        <4>1. stream' = stream \o news /\ news \in Seq(Packets) /\ Len(news) = 0
          BY <1>1, <3>4, ConcatEmptySeq, EmptySeq DEF ServerIgnores
        <4> HIDE DEF news
        <4>2. \A i \in 1..Len(news) : Accepts(news[i]) => granted'
          BY <4>1
        <4>3. QED
          BY <4>1, <4>2
      <3>5. CASE ServerFault
        <4>1. PICK p : p \in {Malformed, Empty(Foreign), Terminator(Foreign)} /\ stream' = Append(stream, p)
          BY <3>5 DEF ServerFault
        <4>2. p \in Packets /\ ~Accepts(p)
          BY <4>1, PacketFacts
        <4> DEFINE news == <<p>>
        <4>3. stream' = stream \o news
          BY <1>1, <4>1, <4>2, AppendIsConcat
        <4>4. news \in Seq(Packets) /\ \A i \in 1..Len(news) : news[i] = p
          BY <4>2
        <4> HIDE DEF news
        <4>5. \A i \in 1..Len(news) : ~Accepts(news[i])
          BY <4>2, <4>4
        <4>6. QED
          BY <4>3, <4>4, <4>5
      <3>6. QED
        BY <1>4, <3>1, <3>2, <3>3, <3>4, <3>5 DEF ServerStep, ServerNext
    <2>3. /\ Len(stream') = Len(stream) + Len(news)
          /\ Len(stream) \in Nat /\ Len(news) \in Nat
          /\ \A i \in 1..Len(stream) + Len(news) :
                stream'[i] = IF i <= Len(stream) THEN stream[i] ELSE news[i - Len(stream)]
      BY <1>1, <2>2, ConcatProperties
    <2>4. \A i \in 1..Len(stream') : Accepts(stream'[i]) => granted'
      <3>1. SUFFICES ASSUME NEW i \in 1..Len(stream'), Accepts(stream'[i]) PROVE granted'
        OBVIOUS
      <3>2. CASE i <= Len(stream)
        BY <1>1, <2>1, <2>3, <3>1, <3>2
      <3>3. CASE i > Len(stream)
        <4>1. i - Len(stream) \in 1..Len(news)
          BY <2>3, <3>3
        <4>2. QED
          BY <2>2, <2>3, <3>1, <3>3, <4>1
      <3>4. QED
        BY <2>3, <3>2, <3>3
    <2>5. QED
      BY <2>1, <2>4 DEF GrantInv, Accepts
  <1>5. CASE UNCHANGED vars
    BY <1>5 DEF vars, session, wireVars, GrantInv, Accepts
  <1>6. QED
    BY <1>2, <1>3, <1>4, <1>5 DEF Next, Done

-----------------------------------------------------------------------------
BatchInv == WireInv /\ GrantInv /\ StageInv

LEMMA InitBatch == Init => BatchInv /\ Batch!Init
  <1> SUFFICES ASSUME Init PROVE BatchInv /\ Batch!Init
    OBVIOUS
  <1>1. WireInv /\ GrantInv
    BY DEF Init, WireInit, WireInv, GrantInv, Unsettled, Answering
  <1>2. CommandsIn(<<>>) = 0 /\ KindsOf(<<>>) = <<>>
    <2>1. {i \in 1..Len(<<>>) : <<>>[i].what = "command"} = {} /\ Cardinality({}) = 0
      BY FS_EmptySet
    <2>2. QED
      BY <2>1 DEF CommandsIn, KindsOf
  <1>3. StageInv
    BY <1>2 DEF Init, StageInv, Answering, DispatchedConfirmed
  <1>4. Batch!Init
    BY <1>2 DEF Init, WireInit, Batch!Init, Verdict
  <1>5. QED
    BY <1>1, <1>3, <1>4 DEF BatchInv

LEMMA StepBatch ==
  ASSUME TypeOK, ParkedReader, BatchInv, [Next]_vars
  PROVE  BatchInv' /\ [Batch!Next]_(Batch!vars)
  <1>1. WireInv' /\ GrantInv'
    BY WireSteps, GrantSteps DEF BatchInv
  <1>2. StageInv' /\ [Batch!Next]_(Batch!vars)
    <2> USE DEF BatchInv
    <2>1. CASE SessionStep
      BY <2>1, OpeningSteps, NextCommandStep, BatchEndStep, AnsweringSteps DEF SessionStep
    <2>2. CASE SessionEvent
      BY <2>2, CallbackSteps
    <2>3. CASE ServerStep
      BY <2>3, ServerSteps
    <2>4. CASE UNCHANGED vars
      BY <2>4 DEF vars, session, wireVars, StageInv, DispatchedConfirmed, Batch!vars
    <2>5. QED
      BY <2>1, <2>2, <2>3, <2>4 DEF Next, Done
  <1>3. QED
    BY <1>1, <1>2 DEF BatchInv

LEMMA AlwaysBatchInv == Spec => []BatchInv
  BY InitBatch, StepBatch, TypeCorrect, NoLostWakeup, PTL DEF Spec

(* executeRconCommands keeps the promises of CommandBatch (rcon.ts lines    *)
(* 360-371), whatever the server, the timers and the signal do: commands in *)
(* order, at most once, after access was granted, each after the reply of   *)
(* the one before, and "ok" only with every reply.                          *)
THEOREM BatchImplemented == Spec => ImplementsCommandBatch
  BY InitBatch, StepBatch, AlwaysBatchInv, TypeCorrect, NoLostWakeup, PTL
  DEF Spec, ImplementsCommandBatch, Batch!Spec

(* What is left of a command whose write was cancelled: the error that broke *)
(* the connection stays, so that nothing more is written, and the only       *)
(* result there can be is the probe's, last of all.                          *)
After(n) ==
  /\ terminalError # NoError
  /\ pc \in {"probeSend", "next", "done"}
  /\ pc = "probeSend" => n = current
  /\ Len(results) <= n
  /\ Len(results) = n => results[n].by = "probe" /\ terminalError = "CONNECTION_CLOSED"

UnsentInv ==
  /\ socket = "destroyed" /\ pc # "done" => terminalError # NoError
  /\ \A n \in Nat : Request("command", n) \in unsent => After(n)

(* Nothing but a callback, and no callback after a cancelled write, adds to  *)
(* unsent: a command's UnsentInv is for its probe and the end of the batch.  *)
LEMMA UnsentSteps ==
  ASSUME TypeOK, ParkedReader, CancelInv, StageInv, UnsentInv, [Next]_vars
  PROVE  UnsentInv'
  <1>t. Len(results) \in Nat /\ current \in Nat
    BY StageTypes
  <1>1. (socket = "destroyed" /\ pc # "done" => terminalError # NoError)'
    <2>1. CASE SessionStep
      <3>1. terminalError' = terminalError /\ (pc' # "done" => pc # "done")
        BY <2>1 DEF SessionStep, Connect, AuthSend, AuthRead, AuthPacket, AuthRejected, AuthLoop,
           NextCommand, BatchEnd, ProbeSend, ResponseRead, ResponsePacket, ResponseRejected,
           ResponseLoop
      <3>2. socket' = socket \/ pc' = "done" \/ socket' = "connecting"
        BY <2>1 DEF SessionStep, Connect, AuthSend, AuthRead, AuthPacket, AuthRejected, AuthLoop,
           NextCommand, BatchEnd, ProbeSend, ResponseRead, ResponsePacket, ResponseRejected,
           ResponseLoop, ReadPacket, StartWrite, GoTo, Return, Throw, Finish
      <3> QED
        BY <3>1, <3>2 DEF UnsentInv
    <2>2. CASE SessionEvent
      BY <2>2 DEF SessionEvent, SocketConnect, ConnectTimer, ConnectError, ConnectClose, WriteOk,
         WriteFails, PeerEnd, SocketClose, ReadTimer, Abort, Destroy, OnData, OnTerminalError,
         Throw, Finish, GoTo, reader, Parked, Writing, UnsentInv, NoError
    <2>3. CASE ServerStep \/ UNCHANGED vars
      BY <2>3 DEF ServerStep, session, vars, UnsentInv
    <2> QED
      BY <2>1, <2>2, <2>3 DEF Next, Done
  <1>2. ASSUME NEW n \in Nat, Request("command", n) \in unsent' PROVE After(n)'
    <2>1. CASE SessionStep
      <3>1. Request("command", n) \in unsent /\ After(n) /\ terminalError' = terminalError
        BY <1>2, <2>1 DEF SessionStep, UnsentInv
      <3>2. ~CanWrite /\ pc \in {"probeSend", "next", "done"}
        BY <3>1 DEF After, CanWrite
      <3>3. CASE \E error \in Codes \cup {"ok"} : Throw(error)
        BY <3>1, <3>3 DEF After, Throw, Finish
      <3>4. CASE ProbeSend /\ WriteError = "CONNECTION_CLOSED" /\ Return(Dispatched("probe"))
        <4>1. /\ Len(results) + 1 = current /\ n = current
              /\ terminalError' = "CONNECTION_CLOSED" /\ pc' = "next"
          BY <3>1, <3>4 DEF After, ProbeSend, StageInv, Answering, WriteError, Return
        <4>2. Dispatched("probe") \in Results /\ Dispatched("probe").by = "probe"
          BY NoReplyType, ReplyKindType DEF Dispatched
        <4>3. Len(results') = Len(results) + 1 /\ results'[Len(results) + 1] = Dispatched("probe")
          BY <3>4, <4>2 DEF Return, TypeOK
        <4> QED
          BY <1>t, <4>1, <4>2, <4>3 DEF After, NoError
      <3>5. SessionStep =>
              \/ \E error \in Codes \cup {"ok"} : Throw(error)
              \/ ProbeSend /\ WriteError = "CONNECTION_CLOSED" /\ Return(Dispatched("probe"))
        <4>1. WriteError \in Codes /\ "COMMAND_TOO_LONG" \in Codes
          BY WriteErrorType DEF Codes
        <4>2. CASE NextCommand
          BY <3>2, <4>1, <4>2 DEF NextCommand, StartWrite
        <4>3. CASE BatchEnd
          BY <4>3 DEF BatchEnd
        <4>4. CASE ProbeSend
          BY <3>2, <4>1, <4>4 DEF ProbeSend, StartWrite
        <4> QED
          BY <3>2, <4>2, <4>3, <4>4 DEF SessionStep, Connect, AuthSend, AuthRead, AuthPacket,
             AuthRejected, AuthLoop, ResponseRead, ResponsePacket, ResponseRejected, ResponseLoop
      <3> QED
        BY <2>1, <3>3, <3>4, <3>5
    <2>2. CASE SessionEvent
      <3>1. pc \notin {"probeSend", "next", "done"}
        BY <2>2 DEF SessionEvent, SocketConnect, ConnectTimer, ConnectError, ConnectClose, WriteOk,
           WriteFails, PeerEnd, SocketClose, ReadTimer, Abort, OnData, Parked, ParkedReader,
           Reading, Writing
      <3>2. Request("command", n) \notin unsent
        BY <3>1 DEF UnsentInv, After
      <3>3. /\ WriteOk /\ InFlight = Request("command", n)
            /\ socket \in {"failed", "destroyed"}
        <4>1. WriteOk \/ UNCHANGED unsent
          <5>1. CASE SocketConnect \/ ConnectTimer \/ ConnectError \/ ConnectClose \/ WriteFails
            BY <5>1 DEF SocketConnect, ConnectTimer, ConnectError, ConnectClose, WriteFails
          <5>2. CASE PeerEnd \/ SocketClose \/ ReadTimer \/ Abort
            BY <5>2 DEF PeerEnd, SocketClose, ReadTimer, Abort
          <5>3. CASE \E k \in 1..Len(stream) : OnData(k)
            BY <5>3 DEF OnData
          <5> QED
            BY <2>2, <5>1, <5>2, <5>3 DEF SessionEvent
        <4>2. Request("command", n) \in unsent' /\ Request("command", n) \notin unsent
          BY <1>2, <3>2
        <4>3. WriteOk /\ unsent' # unsent
          BY <4>1, <4>2
        <4>4. /\ socket \in {"failed", "destroyed"}
              /\ unsent' = unsent \cup {InFlight}
          BY <4>3 DEF WriteOk
        <4> QED
          BY <4>2, <4>3, <4>4
      <3>4. pc = "commandWriting" /\ n = current
        BY <3>3 DEF WriteOk, Writing, InFlight, Request
      <3>5. terminalError # NoError
        BY <3>3, <3>4 DEF UnsentInv, CancelInv
      <3>6. /\ pc' = "probeSend" /\ UNCHANGED <<current, results, terminalError>>
        BY <2>2, <3>3, <3>4 DEF SessionEvent, WriteOk, GoTo, reader
      <3>7. Len(results) + 1 = current
        BY <3>4 DEF StageInv
      <3> QED
        BY <1>t, <3>4, <3>5, <3>6, <3>7 DEF After
    <2>3. CASE ServerStep \/ UNCHANGED vars
      BY <1>2, <2>3 DEF ServerStep, session, vars, UnsentInv, After
    <2> QED
      BY <2>1, <2>2, <2>3 DEF Next, Done
  <1> QED
    BY <1>1, <1>2 DEF UnsentInv

(* A level transition is reported as dispatched only if Node reported the    *)
(* write of the command as done (rcon.ts lines 194-204); if that write was   *)
(* in truth cancelled, the peer had broken the connection, never this side,  *)
(* and the dispatch is the last result of the batch.                         *)
THEOREM DispatchedAlwaysConfirmed == Spec => []DispatchedUnlessBroken
  <1>1. Init => UnsentInv
    BY DEF Init, UnsentInv
  <1>2. TypeOK /\ BatchInv /\ UnsentInv => DispatchedUnlessBroken
    <2>1. SUFFICES ASSUME TypeOK, StageInv, UnsentInv, NEW n \in 1..Len(results),
                          results[n].kind = "dispatched", Request("command", n) \in unsent
                   PROVE  terminalError = "CONNECTION_CLOSED" /\ n = Len(results)
      BY DEF BatchInv, StageInv, DispatchedConfirmed, DispatchedUnlessBroken
    <2>2. Len(results) \in Nat /\ n \in Nat
      BY <2>1 DEF TypeOK
    <2> QED
      BY <2>1, <2>2 DEF UnsentInv, After
  <1>3. BatchInv => StageInv
    BY DEF BatchInv
  <1>4. Spec => []UnsentInv
    BY <1>1, <1>3, UnsentSteps, AlwaysCancelInv, AlwaysBatchInv, TypeCorrect, NoLostWakeup, PTL DEF Spec
  <1> QED
    BY <1>2, <1>4, AlwaysBatchInv, TypeCorrect, PTL

-----------------------------------------------------------------------------
(* What is on its way to execute(): the packet readPacket resolved with, the *)
(* queue of the session, and what the network still carries.  A step keeps   *)
(* this line, cuts its end off when the connection ends, takes its first     *)
(* packet or, if it is the server's, adds to it.                             *)
InHand   == IF settled.tag = "packet" THEN <<settled.packet>> ELSE <<>>
Held     == InHand \o queue
Arriving == IF socket = "open" THEN stream ELSE <<>>
Line     == Held \o Arriving
Uncut    == socket \in {"none", "connecting", "open"}

ReaderInv ==
  /\ settled.tag = "packet" => pc \in Reading
  /\ socket \in {"none", "connecting"} => stream = <<>>
  /\ pc \in Opening => current = 0
  /\ pc = "start" => socket = "none"

(* "new" is "old" without its first d packets, as far as it goes.            *)
Shift(old, new, d) ==
  /\ Len(new) <= Len(old) - d
  /\ \A i \in 1..Len(new) : new[i] = old[i + d]

LineKept ==
  Shift(Line, Line', 0) /\ (Uncut' => Uncut /\ Len(Line') = Len(Line))
LineTaken ==
  /\ Line # <<>> /\ Line[1] = settled.packet
  /\ Shift(Line, Line', 1) /\ (Uncut' => Uncut /\ Len(Line') = Len(Line) - 1)

(* All parts of the line hold packets.                                      *)
LEMMA LineType ==
  ASSUME TypeOK
  PROVE  /\ InHand \in Seq(Packets) /\ queue \in Seq(Packets) /\ Held \in Seq(Packets)
         /\ Arriving \in Seq(Packets) /\ stream \in Seq(Packets)
         /\ Line \in Seq(Packets) /\ Len(Line) \in Nat
         /\ settled.tag = "packet" => settled.packet \in Packets
  <1>1. settled.tag = "packet" => settled.packet \in Packets
    BY DEF TypeOK, Settlements
  <1>2. queue \in Seq(Packets) /\ stream \in Seq(Packets)
    BY DEF TypeOK, WireTypeOK
  <1>3. InHand \in Seq(Packets)
    BY <1>1, EmptySeq DEF InHand
  <1>4. Held \in Seq(Packets)
    BY <1>2, <1>3, ConcatProperties DEF Held
  <1>5. Arriving \in Seq(Packets)
    BY <1>2, EmptySeq DEF Arriving
  <1>6. Line \in Seq(Packets)
    BY <1>4, <1>5, ConcatProperties DEF Line
  <1>7. QED
    BY <1>1, <1>2, <1>3, <1>4, <1>5, <1>6

LEMMA LineTypeNext == TypeOK' => (Line \in Seq(Packets) /\ Len(Line) \in Nat)'
  <1>1. TypeOK => Line \in Seq(Packets) /\ Len(Line) \in Nat
    BY LineType
  <1>2. QED
    BY <1>1, PTL

(* Concatenation of three sequences of packets.                             *)
LEMMA Regroup ==
  \A s, t, u \in Seq(Packets) : (s \o t) \o u = s \o (t \o u)
  <1> TAKE s, t, u \in Seq(Packets)
  <1>1. QED
    BY ConcatAssociative

(* The beginning of a concatenation is its first operand.                   *)
LEMMA CutConcat ==
  ASSUME NEW s \in Seq(Packets), NEW t \in Seq(Packets)
  PROVE  Shift(s \o t, s, 0)
  <1>1. /\ Len(s \o t) = Len(s) + Len(t) /\ Len(s) \in Nat /\ Len(t) \in Nat
        /\ \A i \in 1..Len(s) : (s \o t)[i] = s[i] /\ i + 0 = i
    BY ConcatProperties
  <1>2. QED
    BY <1>1 DEF Shift

(* A sequence is its own beginning.                                         *)
LEMMA ShiftSame ==
  ASSUME NEW s \in Seq(Packets)
  PROVE  Shift(s, s, 0)
  <1>1. Len(s) \in Nat /\ \A i \in 1..Len(s) : i + 0 = i
    OBVIOUS
  <1>2. QED
    BY <1>1 DEF Shift

(* The first packet goes, and perhaps the end of the line with it.          *)
LEMMA ShiftOne ==
  ASSUME NEW p \in Packets, NEW s \in Seq(Packets), NEW t \in Seq(Packets),
         NEW u \in Seq(Packets), u = t \/ u = <<>>
  PROVE  LET old == (<<p>> \o s) \o t
             new == s \o u
         IN /\ old # <<>> /\ old[1] = p /\ Shift(old, new, 1)
            /\ u = t => Len(new) = Len(old) - 1
  <1> DEFINE one == <<p>>
             both == one \o s
             old == both \o t
             new == s \o u
  <1>1. one \in Seq(Packets) /\ Len(one) = 1 /\ one[1] = p
    OBVIOUS
  <1> HIDE DEF one
  <1>2. /\ both \in Seq(Packets) /\ Len(both) = 1 + Len(s)
        /\ \A i \in 1..1 + Len(s) : both[i] = IF i <= 1 THEN one[i] ELSE s[i - 1]
    <2>1. /\ both \in Seq(Packets) /\ Len(both) = Len(one) + Len(s)
          /\ \A i \in 1..Len(one) + Len(s) :
               both[i] = IF i <= Len(one) THEN one[i] ELSE s[i - Len(one)]
      BY <1>1, ConcatProperties
    <2>2. QED
      BY <1>1, <2>1
  <1> HIDE DEF both
  <1>3. Len(s) \in Nat /\ Len(t) \in Nat /\ Len(u) \in Nat /\ Len(u) <= Len(t)
    BY EmptySeq
  <1>4. /\ old \in Seq(Packets) /\ Len(old) = 1 + Len(s) + Len(t)
        /\ \A i \in 1..1 + Len(s) + Len(t) :
             old[i] = IF i <= 1 + Len(s) THEN both[i] ELSE t[i - (1 + Len(s))]
    <2>1. /\ old \in Seq(Packets) /\ Len(old) = Len(both) + Len(t)
          /\ \A i \in 1..Len(both) + Len(t) :
               old[i] = IF i <= Len(both) THEN both[i] ELSE t[i - Len(both)]
      BY <1>2, ConcatProperties
    <2>2. QED
      BY <1>2, <2>1
  <1>5. /\ Len(new) = Len(s) + Len(u)
        /\ \A i \in 1..Len(s) + Len(u) : new[i] = IF i <= Len(s) THEN s[i] ELSE u[i - Len(s)]
    BY ConcatProperties
  <1> HIDE DEF old, new
  <1>6. old # <<>> /\ old[1] = p
    BY <1>1, <1>2, <1>3, <1>4
  <1>7. Len(new) <= Len(old) - 1 /\ (u = t => Len(new) = Len(old) - 1)
    <2>1. Len(new) = Len(s) + Len(u) /\ Len(old) = 1 + Len(s) + Len(t)
      BY <1>4, <1>5
    <2> HIDE DEF new, old
    <2>2. QED
      BY <1>3, <2>1
  <1>8. ASSUME NEW i \in 1..Len(new) PROVE new[i] = old[i + 1]
    <2>1. CASE i <= Len(s)
      <3>1. i + 1 \in 1..1 + Len(s) /\ i + 1 \in 1..1 + Len(s) + Len(t) /\ ~(i + 1 <= 1)
        BY <1>3, <1>5, <2>1
      <3>2. old[i + 1] = s[(i + 1) - 1]
        BY <1>2, <1>4, <3>1
      <3>3. QED
        BY <1>3, <1>5, <2>1, <3>2
    <2>2. CASE i > Len(s)
      <3>1. u = t
        BY <1>3, <1>5, <2>2, EmptySeq
      <3>2. /\ i + 1 \in 1..1 + Len(s) + Len(t) /\ ~(i + 1 <= 1 + Len(s))
            /\ (i + 1) - (1 + Len(s)) = i - Len(s)
        BY <1>3, <1>5, <2>2, <3>1
      <3>3. QED
        BY SMTT(30), <1>3, <1>4, <1>5, <2>2, <3>1, <3>2
    <2>3. QED
      BY <1>3, <1>5, <2>1, <2>2
  <1>9. QED
    BY <1>6, <1>7, <1>8 DEF Shift, old, new, both, one

(* What is held stays; what arrives stays, or is lost with the connection.  *)
LEMMA HeldKept ==
  ASSUME TypeOK, TypeOK', Held' = Held,
         \/ Arriving' = Arriving /\ (Uncut' => Uncut)
         \/ Arriving' = <<>> /\ ~Uncut'
  PROVE  LineKept
  <1>1. Held \in Seq(Packets) /\ Arriving \in Seq(Packets) /\ Line \in Seq(Packets)
    BY LineType
  <1>2. CASE Arriving' = Arriving /\ (Uncut' => Uncut)
    <2>1. Line' = Line
      BY <1>2 DEF Line
    <2>2. QED
      BY <1>1, <1>2, <2>1, ShiftSame DEF LineKept
  <1>3. CASE Arriving' = <<>> /\ ~Uncut'
    <2>1. Line' = Held
      BY <1>1, <1>3, ConcatEmptySeq DEF Line
    <2>2. QED
      BY <1>1, <1>3, <2>1, CutConcat DEF LineKept, Line
  <1>4. QED
    BY <1>2, <1>3

(* A continuation takes the packet it was waiting for, and nothing else.    *)
LEMMA ContinuationLine ==
  ASSUME TypeOK, TypeOK', ReaderInv, SessionStep
  PROVE  IF AuthPacket \/ ResponsePacket THEN LineTaken ELSE LineKept
  <1>1. UNCHANGED stream
    BY DEF SessionStep
  <1>2. socket' \in {socket, "destroyed"} \/ (pc = "start" /\ socket' = "connecting")
    <2>1. CASE Connect \/ AuthSend \/ AuthRead \/ AuthPacket \/ AuthRejected \/ AuthLoop
      BY <2>1 DEF Connect, AuthSend, AuthRead, AuthPacket, AuthRejected, AuthLoop, ReadPacket,
         StartWrite, Throw, Finish, GoTo
    <2>2. CASE NextCommand \/ BatchEnd \/ ProbeSend
      BY <2>2 DEF NextCommand, BatchEnd, ProbeSend, StartWrite, Throw, Finish, Return, GoTo
    <2>3. CASE ResponseRead \/ ResponsePacket \/ ResponseRejected \/ ResponseLoop
      BY <2>3 DEF ResponseRead, ResponsePacket, ResponseRejected, ResponseLoop, ReadPacket,
         Throw, Finish, Return, GoTo
    <2>4. QED
      BY <2>1, <2>2, <2>3 DEF SessionStep
  <1>3. Uncut' => Uncut
    BY <1>2 DEF Uncut, ReaderInv
  <1>4. \/ Arriving' = Arriving
        \/ Arriving' = <<>> /\ ~Uncut'
    <2>1. CASE socket' = socket
      BY <1>1, <2>1 DEF Arriving
    <2>2. CASE socket' = "destroyed"
      BY <2>2 DEF Arriving, Uncut
    <2>3. CASE pc = "start" /\ socket' = "connecting"
      BY <2>3 DEF Arriving, Uncut, ReaderInv
    <2>4. QED
      BY <1>2, <2>1, <2>2, <2>3
  <1>5. CASE AuthPacket \/ ResponsePacket
    <2>1. settled.tag = "packet" /\ settled' = Unsettled /\ queue' = queue
      BY <1>5 DEF AuthPacket, ResponsePacket
    <2>2. InHand = <<settled.packet>> /\ InHand' = <<>> /\ settled.packet \in Packets
      BY <2>1, LineType DEF InHand, Unsettled
    <2>3. Held' = queue
      BY <2>1, <2>2, LineType, ConcatEmptySeq DEF Held
    <2>4. Line' = queue \o Arriving' /\ Line = (<<settled.packet>> \o queue) \o Arriving
      BY <2>2, <2>3 DEF Line, Held
    <2>5. /\ queue \in Seq(Packets) /\ Arriving \in Seq(Packets)
          /\ Arriving' \in Seq(Packets)
      BY LineType, <1>4, EmptySeq
    <2>6. LineTaken
      <3> DEFINE p == settled.packet
                 now == Arriving'
                 next == queue \o now
                 old == (<<p>> \o queue) \o Arriving
      <3>1. /\ old # <<>> /\ old[1] = p /\ Shift(old, next, 1)
            /\ now = Arriving => Len(next) = Len(old) - 1
        BY <1>4, <2>2, <2>5, ShiftOne
      <3>2. Line' = next /\ Line = old
        BY <2>4
      <3> HIDE DEF old, next
      <3>3. QED
        BY <1>3, <1>4, <3>1, <3>2 DEF LineTaken
    <2>7. QED
      BY <1>5, <2>6
  <1>6. CASE ~(AuthPacket \/ ResponsePacket)
    <2>1. Held' = Held
      <3>1. CASE AuthRead \/ ResponseRead
        <4>1. PICK position \in Reading : ReadPacket(position)
          BY <3>1 DEF AuthRead, ResponseRead, Reading
        <4>2. settled.tag # "packet"
          BY <3>1 DEF AuthRead, ResponseRead, ReaderInv, Reading
        <4>3. Held = queue
          BY <4>2, LineType, ConcatEmptySeq DEF Held, InHand
        <4>4. CASE queue # <<>>
          <5>1. settled' = Resolved(Head(queue)) /\ queue' = Tail(queue)
            BY <4>1, <4>4 DEF ReadPacket
          <5>2. InHand' = <<Head(queue)>>
            BY <5>1 DEF InHand, Resolved
          <5>3. <<Head(queue)>> \o Tail(queue) = queue
            <6>1. queue \in Seq(Packets) /\ 1 \in 1..Len(queue) /\ Len(queue) \in 1..Len(queue)
              BY <4>4, LineType
            <6>2. SubSeq(queue, 1, Len(queue)) = <<queue[1]>> \o SubSeq(queue, 1 + 1, Len(queue))
              BY <6>1, SubSeqRecursiveFirst
            <6>3. Tail(queue) = SubSeq(queue, 2, Len(queue)) /\ Head(queue) = queue[1]
              BY <4>4, <6>1, TailIsSubSeq
            <6>4. SubSeq(queue, 1, Len(queue)) = queue
              BY <6>1, SubSeqFull
            <6>5. QED
              BY <6>2, <6>3, <6>4
          <5>4. QED
            BY <4>3, <5>1, <5>2, <5>3 DEF Held
        <4>5. CASE queue = <<>>
          <5>1. settled'.tag # "packet" /\ queue' = queue
            BY <4>1, <4>5 DEF ReadPacket, Unsettled, Rejected
          <5>2. Held' = queue'
            BY <5>1, LineType, ConcatEmptySeq DEF Held, InHand
          <5>3. QED
            BY <4>3, <5>1, <5>2
        <4>6. QED
          BY <4>4, <4>5
      <3>2. CASE ~(AuthRead \/ ResponseRead)
        <4>1. CASE Connect \/ AuthSend \/ AuthLoop \/ NextCommand \/ BatchEnd \/ ProbeSend
                   \/ ResponseLoop
          BY <4>1 DEF Connect, AuthSend, AuthLoop, NextCommand, BatchEnd, ProbeSend, ResponseLoop,
             noIO, Held, InHand
        <4>2. CASE AuthRejected \/ ResponseRejected
          <5>1. queue' = queue /\ settled' = Unsettled /\ settled.tag # "packet"
            BY <4>2 DEF AuthRejected, ResponseRejected
          <5>2. QED
            BY <5>1 DEF Held, InHand, Unsettled
        <4>3. QED
          BY <1>6, <3>2, <4>1, <4>2 DEF SessionStep
      <3>3. QED
        BY <3>1, <3>2
    <2>2. QED
      BY <1>3, <1>4, <1>6, <2>1, HeldKept
  <1>7. QED
    BY <1>5, <1>6

(* A data event moves packets from the network into the session.            *)
LEMMA DataLine ==
  ASSUME TypeOK, TypeOK', ParkedReader, NEW n \in 1..Len(stream), OnData(n)
  PROVE  LineKept
  <1> DEFINE packets == SubSeq(stream, 1, n)
             rest == SubSeq(stream, n + 1, Len(stream))
             buffered == queue \o packets
  <1>1. stream \in Seq(Packets) /\ queue \in Seq(Packets) /\ Held \in Seq(Packets)
        /\ Line \in Seq(Packets)
    BY LineType
  <1>2. packets \in Seq(Packets) /\ rest \in Seq(Packets) /\ packets # <<>>
    <2>1. n \in 1..Len(stream) /\ Len(stream) \in Nat
      BY <1>1
    <2>2. packets \in Seq(Packets) /\ Len(packets) = n
      BY <1>1, <2>1, SubSeqProperties
    <2>3. rest \in Seq(Packets)
      BY <1>1, <2>1, SubSeqProperties
    <2>4. QED
      BY <2>1, <2>2, <2>3, EmptySeq
  <1>3. packets \o rest = stream
    <2>1. /\ 1 \in 1..Len(stream) + 1 /\ n \in (1 - 1)..Len(stream)
          /\ Len(stream) \in n..Len(stream)
      BY <1>1
    <2>2. packets \o rest = SubSeq(stream, 1, Len(stream))
      BY <1>1, <2>1, ConcatAdjacentSubSeq
    <2>3. QED
      BY <1>1, <2>2, SubSeqFull
  <1>4. /\ socket = "open" /\ stream' = rest
        /\ \/ OnTerminalError("INVALID_PACKET") /\ socket' = "destroyed" /\ UNCHANGED queue
           \/ /\ queue' = IF waiter THEN Tail(buffered) ELSE buffered
              /\ settled' = IF waiter THEN Resolved(Head(buffered)) ELSE settled
              /\ socket' = socket
    BY Zenon DEF OnData
  <1> HIDE DEF packets, rest
  <1>5. buffered \in Seq(Packets) /\ buffered # <<>>
    BY <1>1, <1>2, ConcatProperties, ConcatEqualIffEmpty
  <1>6. waiter => settled = Unsettled /\ queue = <<>>
    BY DEF ParkedReader
  <1>7. CASE OnTerminalError("INVALID_PACKET") /\ socket' = "destroyed" /\ UNCHANGED queue
    <2>1. InHand' = InHand
      BY <1>6, <1>7 DEF OnTerminalError, InHand, Unsettled, Rejected
    <2>2. Held' = Held /\ Arriving' = <<>> /\ ~Uncut'
      BY <1>7, <2>1 DEF Held, Arriving, Uncut
    <2>3. QED
      BY <2>2, HeldKept
  <1>8. CASE /\ queue' = IF waiter THEN Tail(buffered) ELSE buffered
             /\ settled' = IF waiter THEN Resolved(Head(buffered)) ELSE settled
             /\ socket' = socket
    <2>1. Held' = Held \o packets
      <3>1. CASE waiter
        <4>1. InHand = <<>> /\ Held = queue
          BY <1>1, <1>6, <3>1, ConcatEmptySeq DEF InHand, Held, Unsettled
        <4>2. settled' = Resolved(Head(buffered)) /\ queue' = Tail(buffered)
          BY <1>8, <3>1
        <4>3. InHand' = <<Head(buffered)>>
          BY <4>2 DEF InHand, Resolved
        <4> HIDE DEF buffered
        <4>4. <<Head(buffered)>> \o Tail(buffered) = buffered
          <5>1. 1 \in 1..Len(buffered) /\ Len(buffered) \in 1..Len(buffered)
            BY <1>5, EmptySeq
          <5>2. SubSeq(buffered, 1, Len(buffered))
                  = <<buffered[1]>> \o SubSeq(buffered, 1 + 1, Len(buffered))
            BY <1>5, <5>1, SubSeqRecursiveFirst
          <5>3. Tail(buffered) = SubSeq(buffered, 2, Len(buffered)) /\ Head(buffered) = buffered[1]
            BY <1>5, TailIsSubSeq
          <5>4. SubSeq(buffered, 1, Len(buffered)) = buffered
            BY <1>5, SubSeqFull
          <5>5. QED
            BY <5>2, <5>3, <5>4
        <4>5. Held' = buffered
          BY <4>2, <4>3, <4>4 DEF Held
        <4>6. QED
          BY <4>1, <4>5 DEF buffered
      <3>2. CASE ~waiter
        <4>1. InHand' = InHand /\ queue' = queue \o packets
          BY <1>8, <3>2 DEF InHand
        <4>2. InHand \in Seq(Packets)
          BY LineType
        <4>3. Held' = InHand \o (queue \o packets)
          BY <4>1 DEF Held
        <4>4. QED
          BY ZenonT(30), <1>1, <1>2, <4>2, <4>3, Regroup DEF Held
      <3>3. QED
        BY <3>1, <3>2
    <2>2. Arriving = stream /\ Arriving' = rest /\ Uncut
      BY <1>4, <1>8 DEF Arriving, Uncut
    <2>3. Line' = (Held \o packets) \o rest
      BY <2>1, <2>2 DEF Line
    <2>4. Line' = Line
      <3>1. (Held \o packets) \o rest = Held \o (packets \o rest)
        BY ZenonT(30), <1>1, <1>2, Regroup
      <3>2. QED
        BY <1>3, <2>2, <2>3, <3>1 DEF Line
    <2>5. QED
      BY <1>1, <2>2, <2>4, ShiftSame DEF LineKept
  <1>9. QED
    BY <1>4, <1>7, <1>8

(* No event brings execute() a packet it was not going to get.              *)
LEMMA EventLine ==
  ASSUME TypeOK, TypeOK', ParkedReader, ReaderInv, SessionEvent
  PROVE  LineKept
  <1>1. CASE \E n \in 1..Len(stream) : OnData(n)
    BY <1>1, DataLine
  <1>2. CASE Abort /\ pc # "start"
    <2>1. /\ Parked /\ queue' = <<>> /\ ~Uncut'
          /\ OnTerminalError("REQUEST_TIMEOUT")
      BY <1>2 DEF Abort, Destroy, Uncut
    <2>2. settled'.tag # "packet"
      BY <1>2, <2>1 DEF OnTerminalError, Parked, ParkedReader, ReaderInv, Rejected, Reading, Writing
    <2>3. Held' = <<>> /\ Arriving' = <<>>
      BY <2>1, <2>2, EmptySeq, ConcatEmptySeq DEF Held, InHand, Arriving, Uncut
    <2>4. Line' = <<>>
      BY <2>3, EmptySeq, ConcatEmptySeq DEF Line
    <2>5. Len(Line') = 0 /\ Len(Line) \in Nat
      BY <2>4, LineType
    <2>6. QED
      BY <2>1, <2>5 DEF LineKept, Shift
  <1>3. CASE ~(\E n \in 1..Len(stream) : OnData(n)) /\ ~(Abort /\ pc # "start")
    <2>1. queue' = queue /\ (settled' = settled \/ (waiter /\ settled'.tag # "packet"))
      <3>1. CASE SocketConnect \/ ConnectTimer \/ WriteOk \/ PeerEnd \/ ReadTimer \/ Abort
        BY <1>3, <3>1 DEF SocketConnect, ConnectTimer, WriteOk, PeerEnd, ReadTimer, Abort,
           Rejected, reader
      <3>2. CASE ConnectError \/ ConnectClose \/ WriteFails \/ SocketClose
        <4>1. queue' = queue /\ \E error \in Codes : OnTerminalError(error)
          BY <3>2 DEF ConnectError, ConnectClose, WriteFails, SocketClose, Codes
        <4>2. QED
          BY <4>1 DEF OnTerminalError, Rejected
      <3>3. QED
        BY <1>3, <3>1, <3>2 DEF SessionEvent
    <2>2. Held' = Held
      <3>1. InHand' = InHand
        BY <2>1 DEF InHand, ParkedReader, Unsettled
      <3>2. QED
        BY <2>1, <3>1 DEF Held
    <2>3. \/ Arriving' = Arriving /\ (Uncut' => Uncut)
          \/ Arriving' = <<>> /\ ~Uncut'
      <3>1. CASE SocketConnect
        BY <3>1 DEF SocketConnect, Arriving, Uncut, ReaderInv
      <3>2. CASE WriteOk \/ ReadTimer \/ Abort
        BY <1>3, <3>2 DEF WriteOk, ReadTimer, Abort, GoTo, Arriving, Uncut
      <3>3. CASE ConnectTimer \/ ConnectError \/ ConnectClose
        BY <3>3 DEF ConnectTimer, ConnectError, ConnectClose, Throw, Finish, Arriving, Uncut
      <3>4. CASE WriteFails \/ PeerEnd \/ SocketClose
        BY <3>4 DEF WriteFails, PeerEnd, SocketClose, Throw, Finish, Arriving, Uncut
      <3>5. QED
        BY <1>3, <3>1, <3>2, <3>3, <3>4 DEF SessionEvent
    <2>4. QED
      BY <2>2, <2>3, HeldKept
  <1>4. QED
    BY <1>1, <1>2, <1>3

(* What the server sends goes to the end of the line.                       *)
LEMMA ServerLine ==
  ASSUME TypeOK, ServerStep, NEW news \in Seq(Packets), stream' = stream \o news
  PROVE  Line' = Line \o news
  <1>1. Held' = Held /\ Arriving = stream /\ Arriving' = stream \o news
    BY DEF ServerStep, session, Held, InHand, Arriving
  <1>2. (Held \o stream) \o news = Held \o (stream \o news)
    <2>1. Held \in Seq(Packets) /\ stream \in Seq(Packets) /\ news \in Seq(Packets)
      BY LineType
    <2>2. QED
      BY <2>1, Regroup
  <1>3. QED
    BY <1>1, <1>2 DEF Line

(* A packet is in hand only where one is awaited.                           *)
LEMMA ReaderSteps ==
  ASSUME TypeOK, ParkedReader, ReaderInv, [Next]_vars
  PROVE  ReaderInv'
  <1> USE DEF ReaderInv
  <1>1. CASE SessionStep
    <2>1. CASE AuthRead \/ ResponseRead
      BY <1>1, <2>1 DEF SessionStep, AuthRead, ResponseRead, ReadPacket, GoTo, Reading, Opening
    <2>2. CASE Connect \/ AuthSend \/ AuthPacket \/ AuthRejected \/ AuthLoop
      BY <1>1, <2>2 DEF SessionStep, Connect, AuthSend, AuthPacket, AuthRejected, AuthLoop, noIO,
         Throw, Finish, GoTo, StartWrite, CanWrite, Unsettled, Reading, Opening
    <2>3. CASE NextCommand \/ BatchEnd \/ ProbeSend
      BY <1>1, <2>3 DEF SessionStep, NextCommand, BatchEnd, ProbeSend, noIO,
         Throw, Return, Finish, GoTo, StartWrite, Reading, Opening
    <2>4. CASE ResponsePacket \/ ResponseRejected \/ ResponseLoop
      BY <1>1, <2>4 DEF SessionStep, ResponsePacket, ResponseRejected, ResponseLoop, noIO,
         Throw, Return, Finish, GoTo, Unsettled, Reading, Opening
    <2>5. QED
      BY <1>1, <2>1, <2>2, <2>3, <2>4 DEF SessionStep
  <1>2. CASE SessionEvent
    <2>1. CASE \E n \in 1..Len(stream) : OnData(n)
      BY <1>2, <2>1 DEF SessionEvent, OnData, OnTerminalError, ParkedReader, Rejected, Opening
    <2>2. CASE SocketConnect \/ ConnectTimer \/ ConnectError \/ ConnectClose
      BY <1>2, <2>2 DEF SessionEvent, SocketConnect, ConnectTimer, ConnectError, ConnectClose,
         OnTerminalError, Throw, Finish, Rejected, reader, Reading, ParkedReader, Opening
    <2>3. CASE WriteOk \/ WriteFails
      BY <1>2, <2>3 DEF SessionEvent, WriteOk, WriteFails, OnTerminalError, Throw, Finish, GoTo,
         Rejected, reader, Reading, Writing, Opening
    <2>4. CASE PeerEnd \/ SocketClose \/ ReadTimer \/ Abort
      BY <1>2, <2>4 DEF SessionEvent, PeerEnd, SocketClose, ReadTimer, Abort, Destroy,
         OnTerminalError, Rejected, reader, ParkedReader, Parked, Opening
    <2>5. QED
      BY <1>2, <2>1, <2>2, <2>3, <2>4 DEF SessionEvent
  <1>3. CASE ServerStep
    BY <1>3 DEF ServerStep, session, Opening
  <1>4. CASE UNCHANGED vars
    BY <1>4 DEF vars, session, wireVars
  <1>5. QED
    BY <1>1, <1>2, <1>3, <1>4 DEF Next, Done

-----------------------------------------------------------------------------
(* What a line may hold of the answer to command n, whose fragments have the *)
(* sizes s and of which the first r were read: the fragments after r in      *)
(* order, then the two packets of the probe, the second of which ends it.    *)
Of(n, p)       == p.type = "value" /\ p.id = n
Filler(p)      == p.part = 0 /\ p.size = 0 /\ ~p.term
Piece(s, r, p) == p.part \in (r + 1)..Len(s) /\ p.size = s[p.part] /\ ~p.term
Ending(p)      == p.part = 0 /\ p.term
Before(n, line, i, a, b) ==
  \A k \in a..b : \E j \in 1..(i - 1) : Of(n, line[j]) /\ line[j].part = k
ToldAt(n, s, r, line, i) ==
  /\ Filler(line[i]) \/ Piece(s, r, line[i]) \/ Ending(line[i])
  /\ Piece(s, r, line[i]) =>
       /\ Before(n, line, i, r + 1, line[i].part - 1)
       /\ \A j \in 1..(i - 1) : Of(n, line[j]) => line[j].part < line[i].part
  /\ Ending(line[i]) =>
       /\ Before(n, line, i, r + 1, Len(s))
       /\ i > 1 => Of(n, line[i - 1]) /\ line[i - 1].size = 0
Told(n, s, r, line) ==
  \A i \in 1..Len(line) : Of(n, line[i]) => ToldAt(n, s, r, line, i)
Complete(n, s, r, line) == Before(n, line, Len(line) + 1, r + 1, Len(s))

(* The positions before i are the same in two lines.                        *)
LEMMA SameBefore ==
  ASSUME NEW n, NEW one, NEW two, NEW i \in Int, NEW m \in Int, i <= m, NEW a, NEW b,
         \A j \in 1..(i - 1) : two[j] = one[j], Before(n, one, i, a, b)
  PROVE  Before(n, two, m, a, b)
  <1>1. \A j \in 1..(i - 1) : j \in 1..(m - 1)
    OBVIOUS
  <1>2. QED
    BY <1>1 DEF Before

LEMMA SameTold ==
  ASSUME NEW n, NEW s, NEW r, NEW one, NEW two, NEW i \in Nat \ {0},
         \A j \in 1..i : two[j] = one[j], ToldAt(n, s, r, one, i)
  PROVE  ToldAt(n, s, r, two, i)
  <1>1. /\ two[i] = one[i] /\ \A j \in 1..(i - 1) : two[j] = one[j]
        /\ i > 1 => two[i - 1] = one[i - 1]
    <2>1. i \in 1..i /\ \A j \in 1..(i - 1) : j \in 1..i
      OBVIOUS
    <2>2. i > 1 => i - 1 \in 1..i
      OBVIOUS
    <2>3. QED
      BY <2>1, <2>2
  <1>2. \A a, b : Before(n, one, i, a, b) => Before(n, two, i, a, b)
    BY <1>1, SameBefore
  <1>3. QED
    BY <1>1, <1>2 DEF ToldAt

(* What is cut off at the end was no condition for what stays.              *)
LEMMA ToldKept ==
  ASSUME NEW n, NEW s, NEW r, NEW old \in Seq(Packets), NEW new \in Seq(Packets),
         Shift(old, new, 0), Told(n, s, r, old)
  PROVE  Told(n, s, r, new)
  <1>1. /\ Len(old) \in Nat /\ Len(new) \in Nat /\ Len(new) <= Len(old)
        /\ \A i \in 1..Len(new) : new[i] = old[i]
    <2>1. Len(old) \in Nat /\ Len(new) \in Nat /\ \A i \in 1..Len(new) : i + 0 = i
      OBVIOUS
    <2>2. QED
      BY <2>1 DEF Shift
  <1>2. SUFFICES ASSUME NEW i \in 1..Len(new), Of(n, new[i])
                 PROVE  ToldAt(n, s, r, new, i)
    BY DEF Told
  <1>3. i \in 1..Len(old) /\ i \in Nat \ {0} /\ \A j \in 1..i : new[j] = old[j]
    BY <1>1
  <1>4. ToldAt(n, s, r, old, i)
    BY <1>2, <1>3 DEF Told
  <1>5. QED
    BY <1>3, <1>4, SameTold

(* A line whose first packet goes: what the others need stays before them.  *)
LEMMA BeforeTaken ==
  ASSUME NEW n, NEW old, NEW new, NEW i, NEW a, NEW b,
         i \in Nat, a \in Int, b \in Int,
         \A j \in 1..(i - 1) : new[j] = old[j + 1],
         Before(n, old, i + 1, a, b), ~(Of(n, old[1]) /\ old[1].part \in a..b)
  PROVE  Before(n, new, i, a, b)
  <1>1. SUFFICES ASSUME NEW k \in a..b
                 PROVE  \E j \in 1..(i - 1) : Of(n, new[j]) /\ new[j].part = k
    BY DEF Before
  <1>2. PICK j \in 1..((i + 1) - 1) : Of(n, old[j]) /\ old[j].part = k
    BY <1>1 DEF Before
  <1>3. j # 1
    BY <1>1, <1>2
  <1>4. j - 1 \in 1..(i - 1) /\ (j - 1) + 1 = j
    BY <1>2, <1>3
  <1>5. QED
    BY <1>2, <1>4

(* Reading the first packet of the line: a fragment is the next one, what    *)
(* ends the answer comes when all fragments were read, and what is left is   *)
(* again such a line.                                                        *)
LEMMA ToldTaken ==
  ASSUME NEW n, NEW s, Len(s) \in Nat, NEW r \in 0..Len(s),
         NEW old \in Seq(Packets), NEW new \in Seq(Packets),
         old # <<>>, Shift(old, new, 1), Told(n, s, r, old)
  PROVE  /\ Of(n, old[1]) =>
              \/ Filler(old[1])
              \/ Piece(s, r, old[1]) /\ old[1].part = r + 1 /\ r + 1 <= Len(s)
              \/ Ending(old[1]) /\ r = Len(s)
         /\ Of(n, old[1]) /\ Piece(s, r, old[1]) => Told(n, s, r + 1, new)
         /\ ~(Of(n, old[1]) /\ Piece(s, r, old[1])) => Told(n, s, r, new)
  <1>1. /\ Len(old) \in Nat \ {0} /\ Len(new) \in Nat /\ Len(new) <= Len(old) - 1
        /\ 1 \in 1..Len(old) /\ \A i \in 1..Len(new) : new[i] = old[i + 1] /\ i + 1 \in 1..Len(old)
    <2>1. Len(old) \in Nat \ {0} /\ Len(new) \in Nat
      BY EmptySeq
    <2>2. QED
      BY <2>1 DEF Shift
  <1>2. ASSUME Of(n, old[1])
        PROVE  \/ Filler(old[1])
               \/ Piece(s, r, old[1]) /\ old[1].part = r + 1 /\ r + 1 <= Len(s)
               \/ Ending(old[1]) /\ r = Len(s)
    <2>1. ToldAt(n, s, r, old, 1)
      BY <1>1, <1>2 DEF Told
    <2>2. \A a, b : Before(n, old, 1, a, b) => \A k \in a..b : FALSE
      BY DEF Before
    <2>3. CASE Piece(s, r, old[1])
      <3>1. \A k \in (r + 1)..(old[1].part - 1) : FALSE
        BY <2>1, <2>2, <2>3 DEF ToldAt
      <3>2. old[1].part \in (r + 1)..Len(s)
        BY <2>3 DEF Piece
      <3>3. old[1].part = r + 1
        <4> DEFINE q == old[1].part
        <4>1. q \in (r + 1)..Len(s) /\ \A k \in (r + 1)..(q - 1) : FALSE
          BY <3>1, <3>2
        <4> HIDE DEF q
        <4>2. q = r + 1
          <5>1. q # r + 1 => r + 1 \in (r + 1)..(q - 1)
            BY <4>1
          <5>2. QED
            BY <4>1, <5>1
        <4>3. QED
          BY <4>2 DEF q
      <3>4. QED
        BY <2>3, <3>2, <3>3
    <2>4. CASE Ending(old[1])
      <3>1. \A k \in (r + 1)..Len(s) : FALSE
        BY <2>1, <2>2, <2>4 DEF ToldAt
      <3>2. r # Len(s) => r + 1 \in (r + 1)..Len(s)
        OBVIOUS
      <3>3. QED
        BY <2>4, <3>1, <3>2
    <2>5. QED
      BY <2>1, <2>3, <2>4 DEF ToldAt
  <1>3. ASSUME NEW m \in {r, r + 1},
               m = r + 1 => Of(n, old[1]) /\ old[1].part = r + 1,
               m = r => ~(Of(n, old[1]) /\ Piece(s, r, old[1]))
        PROVE  Told(n, s, m, new)
    <2>1. SUFFICES ASSUME NEW i \in 1..Len(new), Of(n, new[i])
                   PROVE  ToldAt(n, s, m, new, i)
      BY DEF Told
    <2>2. /\ i \in Nat \ {0} /\ i + 1 \in 1..Len(old) /\ new[i] = old[i + 1]
          /\ \A j \in 1..(i - 1) : new[j] = old[j + 1] /\ j + 1 \in 1..((i + 1) - 1)
          /\ 1 \in 1..((i + 1) - 1)
      BY <1>1
    <2>3. ToldAt(n, s, r, old, i + 1)
      BY <2>1, <2>2 DEF Told
    <2>4. ~(Of(n, old[1]) /\ old[1].part \in (m + 1)..Len(s))
      <3>1. CASE m = r + 1
        BY <1>3, <3>1
      <3>2. CASE m = r
        <4>1. Of(n, old[1]) => Filler(old[1]) \/ Ending(old[1])
          BY <1>2, <1>3, <3>2
        <4>2. QED
          BY <3>2, <4>1 DEF Filler, Ending
      <3>3. QED
        BY <3>1, <3>2
    <2>5. \A a, b \in Int : a >= m + 1 /\ b <= Len(s) /\ Before(n, old, i + 1, a, b) => Before(n, new, i, a, b)
      <3>1. TAKE a, b \in Int
      <3>2. HAVE a >= m + 1 /\ b <= Len(s) /\ Before(n, old, i + 1, a, b)
      <3>3. a..b \subseteq (m + 1)..Len(s)
        BY <3>2
      <3>4. ~(Of(n, old[1]) /\ old[1].part \in a..b)
        BY <2>4, <3>3
      <3>5. QED
        BY <2>2, <3>2, <3>4, BeforeTaken
    <2>6. \A b : Before(n, old, i + 1, r + 1, b) => Before(n, old, i + 1, m + 1, b)
      BY DEF Before
    <2>7. CASE Piece(s, r, old[i + 1])
      <3> DEFINE q == new[i].part
      <3>1. /\ q \in (r + 1)..Len(s) /\ new[i].size = s[q] /\ ~new[i].term
            /\ Before(n, old, i + 1, r + 1, q - 1)
            /\ \A j \in 1..((i + 1) - 1) : Of(n, old[j]) => old[j].part < q
        BY <2>2, <2>3, <2>7 DEF Piece, ToldAt
      <3> HIDE DEF q
      <3>2. q \in (m + 1)..Len(s)
        <4>1. m = r + 1 => r + 1 < q
          BY <1>3, <2>2, <3>1
        <4>2. QED
          BY <3>1, <4>1
      <3>3. Before(n, new, i, m + 1, q - 1)
        BY <2>5, <2>6, <3>1, <3>2
      <3>4. \A j \in 1..(i - 1) : Of(n, new[j]) => new[j].part < q
        BY <2>2, <3>1
      <3>5. Piece(s, m, new[i]) /\ ~Ending(new[i])
        BY <3>1, <3>2 DEF Piece, Ending, q
      <3>6. QED
        BY <3>3, <3>4, <3>5 DEF ToldAt, q
    <2>8. CASE Ending(old[i + 1])
      <3>1. /\ Before(n, old, i + 1, r + 1, Len(s))
            /\ Of(n, old[(i + 1) - 1]) /\ old[(i + 1) - 1].size = 0
        BY <2>2, <2>3, <2>8 DEF ToldAt
      <3>2. Before(n, new, i, m + 1, Len(s))
        BY <2>5, <2>6, <3>1
      <3>3. i > 1 => Of(n, new[i - 1]) /\ new[i - 1].size = 0
        <4>1. (i + 1) - 1 = i /\ (i > 1 => i - 1 \in 1..(i - 1) /\ (i - 1) + 1 = i)
          BY <2>2
        <4>2. QED
          BY <2>2, <3>1, <4>1
      <3>4. Ending(new[i]) /\ ~Piece(s, m, new[i])
        BY <2>2, <2>8 DEF Ending, Piece
      <3>5. QED
        BY <3>2, <3>3, <3>4 DEF ToldAt
    <2>9. CASE Filler(old[i + 1])
      <3>1. Filler(new[i]) /\ ~Piece(s, m, new[i]) /\ ~Ending(new[i])
        BY <2>2, <2>9 DEF Filler, Piece, Ending
      <3>2. QED
        BY <3>1 DEF ToldAt
    <2>10. QED
      BY <2>3, <2>7, <2>8, <2>9 DEF ToldAt
  <1>4. Of(n, old[1]) /\ Piece(s, r, old[1]) => Told(n, s, r + 1, new)
    BY <1>2, <1>3 DEF Filler, Ending, Piece
  <1>5. QED
    BY <1>2, <1>3, <1>4

(* The line after something was added to its end.                           *)
LEMMA ConcatAt ==
  ASSUME NEW line \in Seq(Packets), NEW news \in Seq(Packets)
  PROVE  LET all == line \o news IN
         /\ all \in Seq(Packets) /\ Len(all) = Len(line) + Len(news)
         /\ Len(line) \in Nat /\ Len(news) \in Nat
         /\ \A i \in 1..Len(line) : all[i] = line[i]
         /\ \A i \in 1..Len(news) : all[Len(line) + i] = news[i]
         /\ \A i \in 1..Len(all) : \/ i \in 1..Len(line)
                                   \/ i - Len(line) \in 1..Len(news) /\ all[i] = news[i - Len(line)]
  <1> DEFINE all == line \o news
  <1>1. /\ all \in Seq(Packets) /\ Len(all) = Len(line) + Len(news)
        /\ Len(line) \in Nat /\ Len(news) \in Nat
        /\ \A i \in 1..Len(line) + Len(news) :
              all[i] = IF i <= Len(line) THEN line[i] ELSE news[i - Len(line)]
    BY ConcatProperties
  <1> HIDE DEF all
  <1>2. \A i \in 1..Len(line) : all[i] = line[i]
    BY <1>1
  <1>3. ASSUME NEW i \in 1..Len(all)
        PROVE  \/ i \in 1..Len(line)
               \/ i - Len(line) \in 1..Len(news) /\ all[i] = news[i - Len(line)]
    BY <1>1
  <1>4. ASSUME NEW i \in 1..Len(news) PROVE all[Len(line) + i] = news[i]
    <2>1. Len(line) + i \in 1..Len(line) + Len(news) /\ ~(Len(line) + i <= Len(line))
          /\ (Len(line) + i) - Len(line) = i
      BY <1>1
    <2>2. QED
      BY <1>1, <2>1
  <1>5. QED
    BY <1>1, <1>2, <1>3, <1>4 DEF all

LEMMA ToldConcat ==
  ASSUME NEW n, NEW s, NEW r, NEW line \in Seq(Packets), NEW news \in Seq(Packets),
         Told(n, s, r, line),
         \A i \in 1..Len(news) :
           Of(n, news[i]) => ToldAt(n, s, r, line \o news, Len(line) + i)
  PROVE  Told(n, s, r, line \o news)
  <1> DEFINE all == line \o news
  <1>1. /\ all \in Seq(Packets) /\ Len(line) \in Nat
        /\ \A i \in 1..Len(line) : all[i] = line[i]
        /\ \A i \in 1..Len(all) : \/ i \in 1..Len(line)
                                  \/ i - Len(line) \in 1..Len(news) /\ all[i] = news[i - Len(line)]
    BY ConcatAt
  <1>a. \A i \in 1..Len(news) :
           Of(n, news[i]) => ToldAt(n, s, r, all, Len(line) + i)
    OBVIOUS
  <1> HIDE DEF all
  <1>2. SUFFICES ASSUME NEW i \in 1..Len(all), Of(n, all[i]) PROVE ToldAt(n, s, r, all, i)
    BY DEF Told, all
  <1>3. CASE i \in 1..Len(line)
    <2>1. i \in Nat \ {0} /\ \A j \in 1..i : all[j] = line[j] /\ j \in 1..Len(line)
      BY <1>1, <1>3
    <2>2. ToldAt(n, s, r, line, i)
      BY <1>1, <1>2, <1>3 DEF Told
    <2>3. QED
      BY <2>1, <2>2, SameTold
  <1>4. CASE i - Len(line) \in 1..Len(news) /\ all[i] = news[i - Len(line)]
    <2>1. ToldAt(n, s, r, all, Len(line) + (i - Len(line)))
      BY <1>a, <1>2, <1>4
    <2>2. Len(line) + (i - Len(line)) = i
      BY <1>1
    <2>3. QED
      BY <2>1, <2>2
  <1>5. QED
    BY <1>1, <1>3, <1>4

LEMMA CompleteConcat ==
  ASSUME NEW n, NEW s, NEW r, NEW line \in Seq(Packets), NEW news \in Seq(Packets),
         Complete(n, s, r, line)
  PROVE  Complete(n, s, r, line \o news)
  <1> DEFINE all == line \o news
             a == Len(line) + 1
             b == Len(all) + 1
  <1>1. /\ Len(all) = Len(line) + Len(news) /\ Len(line) \in Nat /\ Len(news) \in Nat
        /\ \A i \in 1..Len(line) : all[i] = line[i]
    BY ConcatAt
  <1> HIDE DEF all
  <1>2. a \in Int /\ b \in Int /\ a <= b /\ \A j \in 1..(a - 1) : all[j] = line[j]
    BY <1>1
  <1>3. Before(n, line, a, r + 1, Len(s))
    BY DEF Complete
  <1> HIDE DEF a, b
  <1>4. Before(n, all, b, r + 1, Len(s))
    BY <1>2, <1>3, SameBefore
  <1>5. QED
    BY <1>4 DEF Complete, all, b

(* The probe of a command is answered after all its fragments.              *)
LEMMA ToldProbe ==
  ASSUME NEW n \in Nat, NEW s, NEW r \in Nat, NEW line \in Seq(Packets),
         Told(n, s, r, line), Complete(n, s, r, line)
  PROVE  Told(n, s, r, line \o <<Empty(n), Terminator(n)>>)
  <1> DEFINE news == <<Empty(n), Terminator(n)>>
             all == line \o news
  <1>1. Empty(n) \in Packets /\ Terminator(n) \in Packets
    BY PacketFacts
  <1>2. news \in Seq(Packets) /\ Len(news) = 2 /\ news[1] = Empty(n) /\ news[2] = Terminator(n)
    BY <1>1
  <1>3. Of(n, Empty(n)) /\ Filler(Empty(n)) /\ Ending(Terminator(n)) /\ Empty(n).size = 0
    BY DEF Of, Filler, Ending, Empty, Terminator, Packet
  <1> HIDE DEF news
  <1>4. /\ Len(line) \in Nat /\ \A i \in 1..Len(news) : all[Len(line) + i] = news[i]
        /\ \A i \in 1..Len(line) : all[i] = line[i]
    BY <1>2, ConcatAt
  <1>5. all[Len(line) + 1] = Empty(n) /\ all[Len(line) + 2] = Terminator(n)
    <2>1. 1 \in 1..Len(news) /\ 2 \in 1..Len(news)
      BY <1>2
    <2> HIDE DEF all
    <2>2. QED
      BY <1>2, <1>4, <2>1
  <1> DEFINE a == Len(line) + 1
             b == Len(line) + 2
  <1>6. a \in Int /\ b \in Int /\ a <= b /\ b - 1 = a /\ \A j \in 1..(a - 1) : all[j] = line[j]
    BY <1>4
  <1>7. all[a] = Empty(n) /\ all[b] = Terminator(n) /\ Before(n, line, a, r + 1, Len(s))
    BY <1>5 DEF Complete
  <1> HIDE DEF all, a, b
  <1>8. ToldAt(n, s, r, all, a)
    BY <1>3, <1>7 DEF ToldAt, Filler, Piece, Ending
  <1>9. Before(n, all, b, r + 1, Len(s))
    BY <1>6, <1>7, SameBefore
  <1>10. ToldAt(n, s, r, all, b)
    BY <1>3, <1>6, <1>7, <1>9 DEF ToldAt, Filler, Piece, Ending
  <1>11. \A i \in 1..Len(news) : ToldAt(n, s, r, all, Len(line) + i)
    <2>1. \A i \in 1..Len(news) : i = 1 \/ i = 2
      BY <1>2
    <2>2. QED
      BY <1>8, <1>10, <2>1 DEF a, b
  <1>12. QED
    BY <1>2, <1>11, ToldConcat DEF all, news

(* The fragments of a command nothing of which was sent before.             *)
LEMMA ToldFragments ==
  ASSUME NEW n, NEW count, NEW sizes, NEW line, NEW news,
         n \in Nat, count \in Nat, sizes \in [1..count -> Nat],
         line \in Seq(Packets), news \in [1..count -> Packets],
         \A k \in 1..count : news[k] = Fragment(n, sizes[k], k),
         \A i \in 1..Len(line) : Of(n, line[i]) => Filler(line[i])
  PROVE  /\ news \in Seq(Packets) /\ Len(news) = count
         /\ \A k \in 1..Len(news) : news[k].id = n /\ news[k].part = k
         /\ Told(n, sizes, 0, line \o news)
         /\ Complete(n, sizes, 0, line \o news)
  <1> DEFINE all == line \o news
  <1>1. \A k \in 1..count : /\ Fragment(n, sizes[k], k) \in Packets
                            /\ Of(n, Fragment(n, sizes[k], k))
                            /\ Fragment(n, sizes[k], k).part = k
                            /\ Fragment(n, sizes[k], k).size = sizes[k]
                            /\ ~Fragment(n, sizes[k], k).term
    BY DEF Fragment, Packet, Packets, Of
  <1>2. /\ news \in [1..count -> Packets] /\ Len(sizes) = count
        /\ \A k \in 1..count : /\ Of(n, news[k]) /\ news[k].part = k
                               /\ news[k].size = sizes[k] /\ ~news[k].term
    <2>1. sizes \in Seq(Nat) /\ Len(sizes) = count
      OBVIOUS
    <2>2. QED
      BY <1>1, <2>1
  <1>3. news \in Seq(Packets) /\ Len(news) = count
    BY <1>2
  <1>4. /\ all \in Seq(Packets) /\ Len(all) = Len(line) + count /\ Len(line) \in Nat
        /\ \A i \in 1..Len(line) : all[i] = line[i]
        /\ \A k \in 1..count : all[Len(line) + k] = news[k]
        /\ \A i \in 1..Len(all) : \/ i \in 1..Len(line)
                                  \/ i - Len(line) \in 1..count /\ all[i] = news[i - Len(line)]
    BY <1>3, ConcatAt
  <1> HIDE DEF all
  <1>5. Told(n, sizes, 0, line)
    <2>1. ASSUME NEW p, Filler(p) PROVE ~Piece(sizes, 0, p) /\ ~Ending(p)
      BY <2>1 DEF Filler, Piece, Ending
    <2>2. QED
      BY <2>1 DEF Told, ToldAt
  <1>6. ASSUME NEW i \in 1..count PROVE ToldAt(n, sizes, 0, all, Len(line) + i)
    <2> DEFINE at == Len(line) + i
    <2>0. all[at] = news[i]
      BY <1>4
    <2>1. all[at] = news[i] /\ Piece(sizes, 0, all[at]) /\ ~Ending(all[at]) /\ all[at].part = i
      <3>1. all[at].part = i /\ all[at].size = sizes[i] /\ ~all[at].term
        BY <1>2, <2>0
      <3>2. i \in (0 + 1)..Len(sizes) /\ i # 0
        BY <1>2
      <3>3. QED
        BY <2>0, <3>1, <3>2 DEF Piece, Ending
    <2>2. Before(n, all, at, 0 + 1, i - 1)
      <3>1. SUFFICES ASSUME NEW k \in (0 + 1)..(i - 1)
                     PROVE  \E j \in 1..(at - 1) : Of(n, all[j]) /\ all[j].part = k
        BY DEF Before
      <3>2. Len(line) + k \in 1..(at - 1) /\ k \in 1..count
        BY <1>4
      <3>3. Of(n, all[Len(line) + k]) /\ all[Len(line) + k].part = k
        BY <1>2, <1>4, <3>2
      <3>4. QED
        BY <3>2, <3>3
    <2>3. ASSUME NEW j \in 1..(at - 1), Of(n, all[j]) PROVE all[j].part < i
      <3>1. j \in 1..Len(all)
        BY <1>4
      <3>2. CASE j \in 1..Len(line)
        <4>1. all[j].part = 0
          BY <1>4, <2>3, <3>2 DEF Filler
        <4>2. QED
          BY <4>1
      <3>3. CASE j - Len(line) \in 1..count /\ all[j] = news[j - Len(line)]
        <4>1. all[j].part = j - Len(line)
          BY <1>2, <3>3
        <4>2. QED
          BY <1>4, <4>1
      <3>4. QED
        BY <1>4, <3>1, <3>2, <3>3
    <2> HIDE DEF at
    <2>4. ToldAt(n, sizes, 0, all, at)
      BY <2>1, <2>2, <2>3 DEF ToldAt
    <2>5. QED
      BY <2>4 DEF at
  <1>7. Told(n, sizes, 0, all)
    <2>1. \A i \in 1..Len(news) : Of(n, news[i]) => ToldAt(n, sizes, 0, all, Len(line) + i)
      BY <1>3, <1>6
    <2>2. QED
      BY <1>3, <1>5, <2>1, ToldConcat DEF all
  <1>8. Complete(n, sizes, 0, all)
    <2>1. SUFFICES ASSUME NEW k \in (0 + 1)..count
                   PROVE  \E j \in 1..((Len(all) + 1) - 1) : Of(n, all[j]) /\ all[j].part = k
      BY <1>2 DEF Complete, Before
    <2>2. Len(line) + k \in 1..((Len(all) + 1) - 1) /\ k \in 1..count
      BY <1>4
    <2>3. Of(n, all[Len(line) + k]) /\ all[Len(line) + k].part = k
      BY <1>2, <1>4, <2>2
    <2>4. QED
      BY <2>2, <2>3
  <1>9. \A k \in 1..Len(news) : news[k].id = n /\ news[k].part = k
    BY <1>2, <1>3 DEF Of
  <1>10. QED
    BY <1>3, <1>7, <1>8, <1>9 DEF all

(* What is complete stays so while packets are only read.                   *)
LEMMA CompleteKept ==
  ASSUME NEW n, NEW s, NEW r, NEW old \in Seq(Packets), NEW new \in Seq(Packets),
         Shift(old, new, 0), Len(new) = Len(old), Complete(n, s, r, old)
  PROVE  Complete(n, s, r, new)
  <1>1. \A i \in 1..Len(new) : new[i] = old[i]
    <2>1. \A i \in 1..Len(new) : i + 0 = i
      OBVIOUS
    <2>2. QED
      BY <2>1 DEF Shift
  <1>2. new = old
    BY <1>1, SeqEqual
  <1>3. QED
    BY <1>2

LEMMA CompleteTaken ==
  ASSUME NEW n, NEW s, Len(s) \in Nat, NEW r \in 0..Len(s), NEW m \in {r, r + 1},
         NEW old \in Seq(Packets), NEW new \in Seq(Packets),
         old # <<>>, Shift(old, new, 1), Len(new) = Len(old) - 1, Complete(n, s, r, old),
         ~(Of(n, old[1]) /\ old[1].part \in (m + 1)..Len(s))
  PROVE  Complete(n, s, m, new)
  <1> DEFINE i == Len(new) + 1
  <1>1. /\ i \in Nat /\ i + 1 = Len(old) + 1 /\ \A j \in 1..(i - 1) : new[j] = old[j + 1]
    <2>1. Len(new) \in Nat /\ Len(old) \in Nat
      OBVIOUS
    <2>2. QED
      BY <2>1 DEF Shift
  <1>2. Before(n, old, i + 1, m + 1, Len(s))
    <2>1. (m + 1)..Len(s) \subseteq (r + 1)..Len(s)
      OBVIOUS
    <2>2. QED
      BY <1>1, <2>1 DEF Complete, Before
  <1> HIDE DEF i
  <1>3. Before(n, new, i, m + 1, Len(s))
    <2>1. m + 1 \in Int /\ Len(s) \in Int
      OBVIOUS
    <2>2. QED
      BY <1>1, <1>2, <2>1, BeforeTaken
  <1>4. QED
    BY <1>3 DEF Complete, i

-----------------------------------------------------------------------------
(* The text of command n, if its fragments have the sizes s.                *)
PrefixOf(n, s, chunks) ==
  \A i \in 1..Len(chunks) :
    /\ chunks[i].id = n
    /\ chunks[i].part \in 1..Len(s)
    /\ chunks[i].take \in 1..s[chunks[i].part]
    /\ \A j \in 1..(i - 1) :
         /\ chunks[j].part < chunks[i].part
         /\ chunks[j].take = s[chunks[j].part]
    /\ \A k \in 1..(chunks[i].part - 1) :
         s[k] > 0 => \E j \in 1..(i - 1) : chunks[j].part = k
WholeOf(s, chunks) ==
  \A k \in 1..Len(s) :
    s[k] > 0 => \E i \in 1..Len(chunks) : chunks[i].part = k /\ chunks[i].take = s[k]

(* What execute() made of the first r fragments of command n: a beginning of *)
(* them, all of it unless the limit cut it, and then the limit is reached.   *)
Taken(n, s, r, re) ==
  /\ PrefixOf(n, s, re.chunks)
  /\ \A i \in 1..Len(re.chunks) : re.chunks[i].part <= r
  /\ ~re.truncated =>
       /\ \A i \in 1..Len(re.chunks) : re.chunks[i].take = s[re.chunks[i].part]
       /\ \A k \in 1..r :
            s[k] > 0 => \E i \in 1..Len(re.chunks) : re.chunks[i].part = k
  /\ re.truncated =>
       /\ re.bytes = ResponseLimit
       /\ \E k \in 1..r :
            /\ s[k] > 0
            /\ \A i \in 1..Len(re.chunks) :
                 ~(re.chunks[i].part = k /\ re.chunks[i].take = s[k])

(* An empty packet changes nothing of the text.                             *)
LEMMA TakenFiller ==
  ASSUME NEW n, NEW s, NEW r, NEW re \in Replies, NEW p, p.size = 0, Taken(n, s, r, re)
  PROVE  Taken(n, s, r, Accumulate(re, p))
  <1>1. re.bytes \in 0..ResponseLimit /\ re.truncated \in BOOLEAN
    BY DEF Replies
  <1>2. Room(re, p) = 0
    BY <1>1, ResponseAssumption DEF Room
  <1>3. /\ Accumulate(re, p).chunks = re.chunks
        /\ Accumulate(re, p).bytes = re.bytes
        /\ Accumulate(re, p).truncated = re.truncated
    BY <1>1, <1>2, ResponseAssumption DEF Accumulate
  <1>4. QED
    BY <1>3 DEF Taken

(* The next fragment is added, whole or as far as the limit allows.         *)
LEMMA TakenPiece ==
  ASSUME NEW n, NEW s, NEW r \in Nat, NEW re \in Replies, NEW p \in Packets,
         p.id = n, p.part = r + 1, r + 1 \in 1..Len(s), p.size = s[r + 1],
         Taken(n, s, r, re)
  PROVE  Taken(n, s, r + 1, Accumulate(re, p))
  <1> DEFINE room == Room(re, p)
             chunk == [id |-> p.id, part |-> p.part, take |-> room]
             next == Accumulate(re, p)
             old == re.chunks
             new == next.chunks
  <1>1. /\ re.bytes \in 0..ResponseLimit /\ re.truncated \in BOOLEAN /\ old \in Seq(Chunks)
        /\ Len(old) \in Nat
    BY DEF Replies
  <1>2. p.size \in Nat /\ p.id \in Int /\ p.part \in Nat
    BY DEF Packets
  <1>3. /\ room = IF p.size < ResponseLimit - re.bytes THEN p.size ELSE ResponseLimit - re.bytes
        /\ room \in Nat /\ room <= p.size
    BY <1>1, <1>2, ResponseAssumption DEF Room
  <1>4. /\ new = IF room = 0 THEN old ELSE Append(old, chunk)
        /\ next.bytes = re.bytes + room
        /\ next.truncated = (re.truncated \/ p.size > ResponseLimit - re.bytes)
    BY DEF Accumulate
  <1>5. chunk \in Chunks /\ chunk.id = n /\ chunk.part = r + 1 /\ chunk.take = room
    BY <1>2, <1>3 DEF Chunks
  <1> HIDE DEF room, next, chunk, old, new
  <1>6. /\ PrefixOf(n, s, old)
        /\ \A i \in 1..Len(old) : old[i].part <= r
        /\ ~re.truncated =>
             /\ \A i \in 1..Len(old) : old[i].take = s[old[i].part]
             /\ \A k \in 1..r : s[k] > 0 => \E i \in 1..Len(old) : old[i].part = k
        /\ re.truncated =>
             /\ re.bytes = ResponseLimit
             /\ \E k \in 1..r : /\ s[k] > 0
                                /\ \A i \in 1..Len(old) : ~(old[i].part = k /\ old[i].take = s[k])
    BY DEF Taken, old
  <1> DEFINE SameText ==
               /\ PrefixOf(n, s, old)
               /\ \A i \in 1..Len(old) : old[i].part <= r + 1
             LongerText ==
               /\ Len(new) = Len(old) + 1 /\ new[Len(old) + 1] = chunk
               /\ \A i \in 1..Len(old) : new[i] = old[i]
  <1>7. SameText /\ \A i \in 1..Len(old) : old[i].part \in Nat
    <2>1. \A i \in 1..Len(old) : old[i] \in Chunks
      BY <1>1, ElementOfSeq
    <2>2. \A i \in 1..Len(old) : old[i].part \in Nat
      BY <2>1 DEF Chunks
    <2>3. QED
      BY <1>6, <2>2
  <1>8. room # 0 => LongerText
    BY <1>1, <1>4, <1>5
  <1>9. PrefixOf(n, s, new) /\ \A i \in 1..Len(new) : new[i].part <= r + 1
    <2>1. CASE room = 0
      BY <1>4, <1>7, <2>1
    <2>2. CASE room # 0
      <3>1. ~re.truncated
        BY <1>1, <1>3, <1>6, <2>2
      <3> DEFINE At(chunks, i) ==
                   /\ chunks[i].id = n
                   /\ chunks[i].part \in 1..Len(s)
                   /\ chunks[i].take \in 1..s[chunks[i].part]
                   /\ \A j \in 1..(i - 1) :
                        /\ chunks[j].part < chunks[i].part
                        /\ chunks[j].take = s[chunks[j].part]
                   /\ \A k \in 1..(chunks[i].part - 1) :
                        s[k] > 0 => \E j \in 1..(i - 1) : chunks[j].part = k
      <3>2. \A i \in 1..Len(old) : At(old, i)
        BY <1>6 DEF PrefixOf
      <3>3. ASSUME NEW i \in 1..Len(old) PROVE At(new, i) /\ new[i].part <= r + 1
        <4>1. new[i] = old[i] /\ \A j \in 1..(i - 1) : new[j] = old[j]
          BY <1>1, <1>8, <2>2
        <4>2. At(old, i)
          BY <3>2
        <4>3. QED
          BY <1>7, <4>1, <4>2
      <3>4. At(new, Len(old) + 1) /\ new[Len(old) + 1].part <= r + 1
        <4> DEFINE i == Len(old) + 1
        <4>1. new[i] = chunk /\ \A j \in 1..(i - 1) : new[j] = old[j] /\ j \in 1..Len(old)
          BY <1>1, <1>8, <2>2
        <4>2. new[i].part = r + 1 /\ new[i].id = n /\ new[i].take = room
          BY <1>5, <4>1
        <4>3. new[i].take \in 1..s[new[i].part]
          BY <1>2, <1>3, <2>2, <4>2
        <4>4. \A j \in 1..(i - 1) : new[j].part < r + 1 /\ new[j].take = s[new[j].part]
          <5>1. QED
            BY <1>6, <1>7, <3>1, <4>1
        <4>5. \A k \in 1..((r + 1) - 1) : s[k] > 0 => \E j \in 1..(i - 1) : new[j].part = k
          <5>1. SUFFICES ASSUME NEW k \in 1..((r + 1) - 1), s[k] > 0
                         PROVE  \E j \in 1..(i - 1) : new[j].part = k
            OBVIOUS
          <5>2. PICK j \in 1..Len(old) : old[j].part = k
            <6>1. k \in 1..r
              BY <5>1
            <6>2. QED
              BY <1>6, <3>1, <5>1, <6>1
          <5>3. j \in 1..(i - 1)
            BY <1>1
          <5>4. QED
            BY <4>1, <5>2, <5>3
        <4> HIDE DEF i
        <4>6. At(new, i)
          BY <4>2, <4>3, <4>4, <4>5
        <4>7. QED
          BY <4>2, <4>6 DEF i
      <3>5. \A i \in 1..Len(new) : i \in 1..Len(old) \/ i = Len(old) + 1
        BY <1>1, <1>8, <2>2
      <3> HIDE DEF At
      <3>6. \A i \in 1..Len(new) : At(new, i) /\ new[i].part <= r + 1
        BY <3>3, <3>4, <3>5
      <3>7. QED
        BY <3>6 DEF PrefixOf, At
    <2>3. QED
      BY <2>1, <2>2
  <1>10. ASSUME ~next.truncated
         PROVE  /\ \A i \in 1..Len(new) : new[i].take = s[new[i].part]
                /\ \A k \in 1..(r + 1) : s[k] > 0 => \E i \in 1..Len(new) : new[i].part = k
    <2>1. ~re.truncated /\ room = p.size /\ p.size = s[r + 1]
      <3>1. ~re.truncated /\ ~(p.size > ResponseLimit - re.bytes)
        BY <1>4, <1>10
      <3>2. QED
        BY <1>1, <1>2, <1>3, <3>1, ResponseAssumption
    <2>2. CASE room = 0
      <3>1. new = old /\ ~(s[r + 1] > 0)
        BY <1>4, <2>1, <2>2
      <3>2. \A k \in 1..(r + 1) : k \in 1..r \/ k = r + 1
        OBVIOUS
      <3>3. QED
        BY <1>6, <2>1, <3>1, <3>2
    <2>3. CASE room # 0
      <3>1. \A i \in 1..Len(new) : (i \in 1..Len(old) /\ new[i] = old[i])
                              \/ (i = Len(old) + 1 /\ new[i] = chunk)
        BY <1>1, <1>8, <2>3
      <3>2. chunk.take = s[chunk.part]
        BY <1>5, <2>1
      <3>3. \A i \in 1..Len(new) : new[i].take = s[new[i].part]
        BY <1>6, <2>1, <3>1, <3>2
      <3>4. ASSUME NEW k \in 1..(r + 1), s[k] > 0 PROVE \E i \in 1..Len(new) : new[i].part = k
        <4>1. CASE k = r + 1
          <5>1. Len(old) + 1 \in 1..Len(new) /\ new[Len(old) + 1].part = k
            BY <1>1, <1>5, <1>8, <2>3, <4>1
          <5>2. QED
            BY <5>1
        <4>2. CASE k \in 1..r
          <5>1. PICK i \in 1..Len(old) : old[i].part = k
            BY <1>6, <2>1, <3>4, <4>2
          <5>2. i \in 1..Len(new) /\ new[i] = old[i]
            BY <1>1, <1>8, <2>3
          <5>3. QED
            BY <5>1, <5>2
        <4>3. QED
          BY <4>1, <4>2
      <3>5. QED
        BY <3>3, <3>4
    <2>4. QED
      BY <2>2, <2>3
  <1>11. ASSUME next.truncated
         PROVE  /\ next.bytes = ResponseLimit
                /\ \E k \in 1..(r + 1) :
                     /\ s[k] > 0
                     /\ \A i \in 1..Len(new) : ~(new[i].part = k /\ new[i].take = s[k])
    <2>1. CASE re.truncated
      <3>1. re.bytes = ResponseLimit /\ room = 0
        BY <1>1, <1>2, <1>3, <1>6, <2>1, ResponseAssumption
      <3>2. new = old /\ next.bytes = ResponseLimit
        BY <1>1, <1>4, <3>1, ResponseAssumption
      <3>3. \A k \in 1..r : k \in 1..(r + 1)
        OBVIOUS
      <3>4. QED
        BY <1>6, <2>1, <3>2, <3>3
    <2>2. CASE ~re.truncated
      <3>1. p.size > ResponseLimit - re.bytes
        BY <1>4, <1>11, <2>2
      <3>2. room = ResponseLimit - re.bytes /\ room < s[r + 1] /\ next.bytes = ResponseLimit
        BY <1>1, <1>2, <1>3, <1>4, <3>1, ResponseAssumption
      <3>3. \A i \in 1..Len(old) : old[i].part # r + 1
        <4>1. QED
          BY <1>6, <1>7
      <3>4. \A i \in 1..Len(new) : ~(new[i].part = r + 1 /\ new[i].take = s[r + 1])
        <4>1. CASE room = 0
          BY <1>4, <3>3, <4>1
        <4>2. CASE room # 0
          <5>1. \A i \in 1..Len(new) : (i \in 1..Len(old) /\ new[i] = old[i])
                              \/ (i = Len(old) + 1 /\ new[i] = chunk)
            BY <1>1, <1>8, <4>2
          <5>2. chunk.take # s[r + 1]
            BY <1>2, <1>3, <1>5, <3>2
          <5>3. QED
            BY <3>3, <5>1, <5>2
        <4>3. QED
          BY <4>1, <4>2
      <3>5. r + 1 \in 1..(r + 1) /\ s[r + 1] > 0
        BY <1>2, <1>3, <3>2
      <3>6. QED
        BY <3>2, <3>4, <3>5
    <2>3. QED
      BY <2>1, <2>2
  <1>12. QED
    BY <1>9, <1>10, <1>11 DEF Taken, new, next

-----------------------------------------------------------------------------
(* Why no packet is taken for another command's: what is on its way, in both *)
(* directions, belongs to commands already sent; while a command waits for   *)
(* the server nothing answers it; what answers the current one follows on    *)
(* what was read; and the results are what was read.                         *)
FutureInv ==
  /\ \A i \in 1..Len(toServer) : toServer[i].id <= current
  /\ \A i \in 1..Len(Line) : Line[i].id <= current
  /\ \A n \in (current + 1)..Len(Commands) : served[n] = <<>>
OrderInv ==
  \A j \in 1..Len(toServer) :
    toServer[j].what = "command" => \A i \in 1..(j - 1) : toServer[i].id < toServer[j].id
Unanswered(n) ==
  /\ served[n] = <<>>
  /\ \A i \in 1..Len(Line) : Of(n, Line[i]) => Filler(Line[i])
  /\ n \in 1..Len(results) => results[n].by # "terminator"
UnansweredInv ==
  \A j \in 1..Len(toServer) :
    toServer[j].what = "command" => toServer[j].id >= 1 /\ Unanswered(toServer[j].id)
HeadInv ==
  Line # <<>> /\ current > 0 /\ Of(current, Line[1]) /\ Ending(Line[1]) => reply.previousWasEmpty
Follows(n, r) ==
  /\ Told(n, served[n], r, Line)
  /\ Uncut => Complete(n, served[n], r, Line)
  /\ Taken(n, served[n], r, reply)
AnswerInv == current > 0 => \E r \in 0..Len(served[current]) : Follows(current, r)
ResultsInv ==
  /\ Len(results) <= current
  /\ \A n \in 1..Len(results) :
       /\ PrefixOf(n, served[n], results[n].chunks)
       /\ results[n].by = "terminator" =>
            (results[n].truncated <=> ~WholeOf(served[n], results[n].chunks))
TextInv == FutureInv /\ OrderInv /\ UnansweredInv /\ HeadInv /\ AnswerInv /\ ResultsInv

(* The types the steps need, in one place.                                  *)
LEMMA TextTypes ==
  ASSUME TypeOK
  PROVE  /\ toServer \in Seq(Requests) /\ Len(toServer) \in Nat
         /\ \A i \in 1..Len(toServer) : toServer[i] \in Requests /\ toServer[i].id \in Nat
         /\ results \in Seq(Results) /\ Len(results) \in Nat
         /\ \A i \in 1..Len(results) : results[i] \in Results
         /\ current \in 0..Len(Commands) /\ current \in Nat /\ Len(Commands) \in Nat
         /\ served \in [1..Len(Commands) -> Seq(FragmentSizes)]
         /\ \A n \in 1..Len(Commands) : Len(served[n]) \in Nat
         /\ reply \in Replies
  <1>1. toServer \in Seq(Requests) /\ results \in Seq(Results)
    BY DEF TypeOK, WireTypeOK
  <1>2. \A i \in 1..Len(toServer) : toServer[i] \in Requests /\ toServer[i].id \in Nat
    <2>1. \A i \in 1..Len(toServer) : toServer[i] \in Requests
      BY <1>1, ElementOfSeq
    <2>2. QED
      BY <2>1 DEF Requests
  <1>3. \A i \in 1..Len(results) : results[i] \in Results
    BY <1>1, ElementOfSeq
  <1>4. /\ current \in 0..Len(Commands) /\ reply \in Replies
        /\ served \in [1..Len(Commands) -> Seq(FragmentSizes)]
    BY DEF TypeOK, WireTypeOK
  <1>5. Len(Commands) \in Nat
    BY BatchAssumption
  <1>6. \A n \in 1..Len(Commands) : Len(served[n]) \in Nat
    <2>1. \A n \in 1..Len(Commands) : served[n] \in Seq(FragmentSizes)
      BY <1>4
    <2>2. QED
      BY <2>1, LenProperties
  <1>7. Len(toServer) \in Nat /\ Len(results) \in Nat
    BY <1>1
  <1>8. QED
    BY <1>1, <1>2, <1>3, <1>4, <1>5, <1>6, <1>7

(* What remains of a line says of every packet what the line said.          *)
LEMMA ShiftAll ==
  ASSUME NEW old \in Seq(Packets), NEW new \in Seq(Packets), NEW d \in {0, 1},
         Shift(old, new, d)
  PROVE  \A i \in 1..Len(new) : i + d \in 1..Len(old) /\ new[i] = old[i + d]
  <1>1. Len(old) \in Nat /\ Len(new) \in Nat
    OBVIOUS
  <1>2. QED
    BY <1>1 DEF Shift

(* A request is added behind the others.                                    *)
LEMMA AppendRequest ==
  ASSUME TypeOK, NEW q \in Requests, toServer' = Append(toServer, q)
  PROVE  /\ Len(toServer') = Len(toServer) + 1 /\ toServer'[Len(toServer) + 1] = q
         /\ \A i \in 1..Len(toServer) : toServer'[i] = toServer[i]
         /\ \A i \in 1..Len(toServer') : (i \in 1..Len(toServer) /\ toServer'[i] = toServer[i])
                                         \/ (i = Len(toServer) + 1 /\ toServer'[i] = q)
  BY TextTypes

-----------------------------------------------------------------------------
(* A step that neither reads a packet nor starts a command: the line may be  *)
(* cut, the probe may be written, a result that is not delimited returned.   *)
QuietStep ==
  /\ LineKept
  /\ UNCHANGED <<current, reply, served>>
  /\ \/ toServer' = toServer
     \/ \E q \in Requests : /\ q.what # "command" /\ q.id <= current
                            /\ toServer' = Append(toServer, q)
  /\ \/ results' = results
     \/ /\ Len(results) + 1 = current
        /\ \E by \in {"quiet", "closed", "deadline", "probe"} :
             results' = Append(results, Answer(by, reply)) \/ results' = Append(results, Dispatched(by))

LEMMA QuietSteps ==
  ASSUME TypeOK, TypeOK', TextInv, QuietStep
  PROVE  TextInv'
  <1>1. /\ Line \in Seq(Packets) /\ Line' \in Seq(Packets) /\ Shift(Line, Line', 0)
        /\ UNCHANGED <<current, reply, served>>
    BY LineType, LineTypeNext DEF QuietStep, LineKept
  <1>2. \A i \in 1..Len(Line') : i \in 1..Len(Line) /\ Line'[i] = Line[i]
    <2>1. \A i \in 1..Len(Line') : i + 0 \in 1..Len(Line) /\ Line'[i] = Line[i + 0] /\ i + 0 = i
      BY <1>1, ShiftAll
    <2>2. QED
      BY <2>1
  <1>3. \/ toServer' = toServer
        \/ \E q \in Requests : /\ q.what # "command" /\ q.id <= current
                               /\ \A i \in 1..Len(toServer') :
                                    (i \in 1..Len(toServer) /\ toServer'[i] = toServer[i])
                                    \/ (i = Len(toServer) + 1 /\ toServer'[i] = q)
    BY AppendRequest DEF QuietStep
  <1>4. FutureInv'
    BY <1>1, <1>2, <1>3 DEF TextInv, FutureInv
  <1>5. OrderInv'
    <2>1. SUFFICES ASSUME NEW j \in 1..Len(toServer'), toServer'[j].what = "command",
                          NEW i \in 1..(j - 1)
                   PROVE  toServer'[i].id < toServer'[j].id
      BY DEF OrderInv
    <2>2. j \in 1..Len(toServer) /\ toServer'[j] = toServer[j]
      BY <1>3, <2>1
    <2>3. i \in 1..Len(toServer) /\ i \in 1..Len(toServer')
      BY <2>2, TextTypes
    <2>4. toServer'[i] = toServer[i]
      BY <1>3, <2>3, TextTypes
    <2>5. QED
      BY <2>1, <2>2, <2>4 DEF TextInv, OrderInv
  <1>6. /\ \A n \in 1..Len(results) : n \in 1..Len(results') /\ results'[n] = results[n]
        /\ Len(results') <= current
        /\ \A n \in 1..Len(results') :
             \/ n \in 1..Len(results) /\ results'[n] = results[n]
             \/ /\ n = current /\ current > 0 /\ results'[n].by # "terminator"
                /\ results'[n].chunks \in {<<>>, reply.chunks}
    <2>1. CASE results' = results
      BY <2>1 DEF TextInv, ResultsInv
    <2>2. ASSUME NEW r \in Results, results' = Append(results, r), Len(results) + 1 = current,
                 r.by # "terminator", r.chunks \in {<<>>, reply.chunks}
          PROVE  /\ \A n \in 1..Len(results) : n \in 1..Len(results') /\ results'[n] = results[n]
                 /\ Len(results') <= current
                 /\ \A n \in 1..Len(results') :
                      \/ n \in 1..Len(results) /\ results'[n] = results[n]
                      \/ /\ n = current /\ current > 0 /\ results'[n].by # "terminator"
                         /\ results'[n].chunks \in {<<>>, reply.chunks}
      <3>1. /\ Len(results') = Len(results) + 1 /\ results'[Len(results) + 1] = r
            /\ \A n \in 1..Len(results) : results'[n] = results[n]
            /\ Len(results) \in Nat
        BY <2>2, TextTypes
      <3>2. QED
        BY <2>2, <3>1
    <2>3. ASSUME NEW by \in {"quiet", "closed", "deadline", "probe"}
          PROVE  /\ Answer(by, reply) \in Results /\ Dispatched(by) \in Results
                 /\ Answer(by, reply).by # "terminator" /\ Dispatched(by).by # "terminator"
                 /\ Answer(by, reply).chunks = reply.chunks /\ Dispatched(by).chunks = <<>>
      <3>1. Answer(by, reply) \in Results /\ Dispatched(by) \in Results
        BY ReplyKindType, TextTypes
      <3>2. QED
        BY <3>1 DEF Answer, Dispatched
    <2>4. QED
      BY <2>1, <2>2, <2>3 DEF QuietStep
  <1>7. UnansweredInv'
    <2>1. ASSUME NEW n, Unanswered(n), n >= 1 PROVE Unanswered(n)'
      <3>1. n \in 1..Len(results') => results'[n].by # "terminator"
        BY <1>6, <2>1 DEF Unanswered
      <3>2. QED
        BY <1>1, <1>2, <2>1, <3>1 DEF Unanswered
    <2>2. QED
      BY <1>3, <2>1 DEF TextInv, UnansweredInv
  <1>8. HeadInv'
    <2>1. Line' # <<>> => 1 \in 1..Len(Line') /\ Line # <<>>
      BY <1>1, <1>2, EmptySeq
    <2>2. QED
      BY <1>1, <1>2, <2>1 DEF TextInv, HeadInv
  <1>9. AnswerInv'
    <2>1. SUFFICES ASSUME current > 0 PROVE \E r \in 0..Len(served[current]) : Follows(current, r)'
      BY <1>1 DEF AnswerInv
    <2>2. PICK r \in 0..Len(served[current]) : Follows(current, r)
      BY <2>1 DEF TextInv, AnswerInv
    <2>3. Told(current, served[current], r, Line')
      BY <1>1, <2>2, ToldKept DEF Follows
    <2>4. Uncut' => Complete(current, served[current], r, Line')
      <3>1. Uncut' => Uncut /\ Len(Line') = Len(Line)
        BY DEF QuietStep, LineKept
      <3>2. QED
        BY <1>1, <2>2, <3>1, CompleteKept DEF Follows
    <2>5. Taken(current, served[current], r, reply)'
      BY <1>1, <2>2 DEF Follows
    <2>6. Follows(current, r)'
      BY <1>1, <2>3, <2>4, <2>5 DEF Follows
    <2>7. QED
      BY <2>6
  <1>10. ResultsInv'
    <2>1. \A n \in 1..Len(results') : PrefixOf(n, served[n], results'[n].chunks)
      <3>1. PrefixOf(current, served[current], <<>>)
        BY DEF PrefixOf
      <3>2. current > 0 => PrefixOf(current, served[current], reply.chunks)
        BY DEF TextInv, AnswerInv, Follows, Taken
      <3>3. QED
        BY <1>6, <3>1, <3>2 DEF TextInv, ResultsInv
    <2>2. QED
      BY <1>1, <1>6, <2>1 DEF TextInv, ResultsInv
  <1>11. QED
    BY <1>4, <1>5, <1>7, <1>8, <1>9, <1>10 DEF TextInv

-----------------------------------------------------------------------------
(* The server takes the oldest request, or none.                            *)
LEMMA ServerTakes ==
  ASSUME TypeOK, ServerNext
  PROVE  \/ toServer' = toServer
         \/ /\ 1 \in 1..Len(toServer)
            /\ \A i \in 1..Len(toServer') : /\ i + 1 \in 1..Len(toServer)
                                            /\ toServer'[i] = toServer[i + 1]
  <1>1. CASE toServer # <<>> /\ toServer' = Tail(toServer)
    <2>1. Len(toServer) \in Nat \ {0} /\ toServer \in Seq(Requests)
      BY <1>1, TextTypes, EmptySeq
    <2>2. /\ Len(toServer') = Len(toServer) - 1
          /\ \A i \in 1..Len(toServer') : toServer'[i] = toServer[i + 1]
      BY <1>1, <2>1, HeadTailProperties
    <2>3. QED
      BY <2>1, <2>2
  <1>2. QED
    BY <1>1 DEF ServerNext, ServerAuth, ServerCommand, ServerProbe, ServerIgnores, ServerFault, Takes

(* Packets the server adds for a request: they answer an old command, none   *)
(* of them a command that still waits, and the current one as it must be.    *)
NewsStep(news) ==
  /\ ServerStep
  /\ stream' = stream \o news
  /\ \A n \in 1..Len(Commands) : served'[n] # served[n] => n <= current
  /\ \A i \in 1..Len(news) : news[i].id <= current
  /\ news # <<>> => ~Ending(news[1]) \/ news[1].id # current \/ current = 0
  /\ \A j \in 1..Len(toServer') : toServer'[j].what = "command" =>
       /\ served'[toServer'[j].id] = served[toServer'[j].id]
       /\ \A i \in 1..Len(news) : Of(toServer'[j].id, news[i]) => Filler(news[i])
  /\ \A n \in 1..Len(Commands) :
       served'[n] # served[n] => served[n] = <<>> /\ (n \in 1..Len(results) => results[n].by # "terminator")
  /\ current > 0 =>
       \E r \in 0..Len(served'[current]) :
         /\ Told(current, served'[current], r, Line')
         /\ Complete(current, served'[current], r, Line')
         /\ Taken(current, served'[current], r, reply)

LEMMA NewsSteps ==
  ASSUME TypeOK, TypeOK', TextInv, NEW news \in Seq(Packets), NewsStep(news)
  PROVE  TextInv'
  <1>1. Line' = Line \o news /\ Line \in Seq(Packets)
    BY ServerLine, LineType DEF NewsStep
  <1>2. /\ UNCHANGED <<current, reply, results>> /\ ServerNext
        /\ current \in Nat /\ Len(Commands) \in Nat
        /\ Len(results) \in Nat
    BY TextTypes DEF NewsStep, ServerStep, session
  <1>3. /\ Len(Line) \in Nat /\ Len(news) \in Nat
        /\ \A i \in 1..Len(Line') : \/ i \in 1..Len(Line) /\ Line'[i] = Line[i]
                                    \/ i - Len(Line) \in 1..Len(news) /\ Line'[i] = news[i - Len(Line)]
    <2>1. /\ Len(Line) \in Nat /\ Len(news) \in Nat
          /\ \A i \in 1..Len(Line) : (Line \o news)[i] = Line[i]
          /\ \A i \in 1..Len(Line \o news) :
               \/ i \in 1..Len(Line)
               \/ i - Len(Line) \in 1..Len(news) /\ (Line \o news)[i] = news[i - Len(Line)]
      BY <1>1, ConcatAt
    <2>2. QED
      BY <1>1, <2>1
  <1>4. \/ toServer' = toServer
        \/ \A i \in 1..Len(toServer') : /\ i + 1 \in 1..Len(toServer)
                                        /\ toServer'[i] = toServer[i + 1]
    BY <1>2, ServerTakes
  <1>5. FutureInv'
    <2>1. \A i \in 1..Len(toServer') : toServer'[i].id <= current
      BY <1>4 DEF TextInv, FutureInv
    <2>2. \A i \in 1..Len(Line') : Line'[i].id <= current
      BY <1>3 DEF TextInv, FutureInv, NewsStep
    <2>3. \A n \in (current + 1)..Len(Commands) : served'[n] = <<>>
      <3>1. \A n \in (current + 1)..Len(Commands) : n \in 1..Len(Commands) /\ ~(n <= current)
        BY <1>2
      <3>2. QED
        BY <3>1 DEF TextInv, FutureInv, NewsStep
    <2>4. QED
      BY <1>2, <2>1, <2>2, <2>3 DEF FutureInv
  <1>6. OrderInv'
    <2>1. CASE toServer' = toServer
      BY <2>1 DEF TextInv, OrderInv
    <2>2. CASE \A i \in 1..Len(toServer') : /\ i + 1 \in 1..Len(toServer)
                                            /\ toServer'[i] = toServer[i + 1]
      <3>1. SUFFICES ASSUME NEW j \in 1..Len(toServer'), toServer'[j].what = "command",
                            NEW i \in 1..(j - 1)
                     PROVE  toServer'[i].id < toServer'[j].id
        BY DEF OrderInv
      <3>2. i \in 1..Len(toServer') /\ i + 1 \in 1..((j + 1) - 1)
        <4>1. Len(toServer') \in Nat
          BY DEF TypeOK, WireTypeOK
        <4>2. QED
          BY <4>1
      <3>3. QED
        BY <2>2, <3>1, <3>2 DEF TextInv, OrderInv
    <2>3. QED
      BY <1>4, <2>1, <2>2
  <1>7. UnansweredInv'
    <2>1. SUFFICES ASSUME NEW j \in 1..Len(toServer'), toServer'[j].what = "command",
                          NEW n, n = toServer'[j].id
                   PROVE  n >= 1 /\ Unanswered(n)'
      BY DEF UnansweredInv, Unanswered
    <2>2. n >= 1 /\ Unanswered(n)
      BY <1>4, <2>1 DEF TextInv, UnansweredInv
    <2>3. /\ served'[n] = served[n]
          /\ \A i \in 1..Len(news) : Of(n, news[i]) => Filler(news[i])
      BY <2>1 DEF NewsStep
    <2>4. /\ served'[n] = <<>>
          /\ \A i \in 1..Len(Line') : Of(n, Line'[i]) => Filler(Line'[i])
          /\ n \in 1..Len(results) => results[n].by # "terminator"
      BY <1>3, <2>2, <2>3 DEF Unanswered
    <2>5. QED
      BY <1>2, <2>2, <2>4 DEF Unanswered
  <1>8. HeadInv'
    <2>1. SUFFICES ASSUME Line' # <<>>, current > 0, Of(current, Line'[1]), Ending(Line'[1])
                   PROVE  reply.previousWasEmpty
      BY <1>2 DEF HeadInv
    <2>2. CASE Line = <<>>
      <3>1. Line' = news
        BY <1>1, <2>2, ConcatEmptySeq
      <3>2. QED
        BY <2>1, <3>1 DEF NewsStep, Of
    <2>3. CASE Line # <<>>
      <3>1. Line'[1] = Line[1]
        <4>1. 1 \in 1..Len(Line)
          BY <1>1, <2>3, EmptySeq
        <4>2. \A i \in 1..Len(Line) : (Line \o news)[i] = Line[i]
          BY <1>1, ConcatAt
        <4>3. QED
          BY <1>1, <4>1, <4>2
      <3>2. QED
        BY <2>1, <2>3, <3>1 DEF TextInv, HeadInv
    <2>4. QED
      BY <2>2, <2>3
  <1>9. AnswerInv'
    <2>1. SUFFICES ASSUME current > 0
                   PROVE  \E r \in 0..Len(served'[current]) : Follows(current, r)'
      BY <1>2 DEF AnswerInv
    <2>2. PICK r \in 0..Len(served'[current]) :
            /\ Told(current, served'[current], r, Line')
            /\ Complete(current, served'[current], r, Line')
            /\ Taken(current, served'[current], r, reply)
      BY <2>1 DEF NewsStep
    <2>3. Follows(current, r)'
      BY <1>2, <2>2 DEF Follows
    <2>4. QED
      BY <2>3
  <1>10. ResultsInv'
    <2>1. SUFFICES ASSUME NEW n \in 1..Len(results)
                   PROVE  /\ PrefixOf(n, served'[n], results[n].chunks)
                          /\ results[n].by = "terminator" =>
                               (results[n].truncated <=> ~WholeOf(served'[n], results[n].chunks))
      BY <1>2 DEF TextInv, ResultsInv
    <2>2. CASE served'[n] = served[n]
      BY <2>2 DEF TextInv, ResultsInv
    <2>3. CASE served'[n] # served[n]
      <3>1. n \in 1..Len(Commands)
        BY TextTypes DEF TextInv, ResultsInv
      <3>2. served[n] = <<>> /\ results[n].by # "terminator"
        BY <2>3, <3>1 DEF NewsStep
      <3>3. PrefixOf(n, <<>>, results[n].chunks)
        BY <3>2 DEF TextInv, ResultsInv
      <3>4. \A i \in 1..Len(results[n].chunks) : FALSE
        <4>1. Len(<<>>) = 0
          OBVIOUS
        <4>2. QED
          BY <3>3, <4>1 DEF PrefixOf
      <3>5. PrefixOf(n, served'[n], results[n].chunks)
        BY <3>4 DEF PrefixOf
      <3>6. QED
        BY <3>2, <3>5
    <2>4. QED
      BY <2>2, <2>3
  <1>11. QED
    BY <1>5, <1>6, <1>7, <1>8, <1>9, <1>10 DEF TextInv

-----------------------------------------------------------------------------
(* While the connection is open, the current command is told of completely. *)
LEMMA ToldWhileOpen ==
  ASSUME TypeOK, TextInv, socket = "open", current > 0
  PROVE  \E r \in 0..Len(served[current]) :
           /\ Told(current, served[current], r, Line)
           /\ Complete(current, served[current], r, Line)
           /\ Taken(current, served[current], r, reply)
  BY DEF TextInv, AnswerInv, Follows, Uncut

(* Packets that do not belong to the current command leave it as it is.     *)
LEMMA NewsOfOthers ==
  ASSUME TypeOK, TextInv, ServerStep, NEW news \in Seq(Packets), stream' = stream \o news,
         current > 0, served'[current] = served[current],
         \A i \in 1..Len(news) : ~Of(current, news[i])
  PROVE  \E r \in 0..Len(served'[current]) :
           /\ Told(current, served'[current], r, Line')
           /\ Complete(current, served'[current], r, Line')
           /\ Taken(current, served'[current], r, reply)
  <1>1. Line' = Line \o news /\ Line \in Seq(Packets)
    BY ServerLine, LineType
  <1> DEFINE s == served[current]
  <1>2. PICK r \in 0..Len(s) : /\ Told(current, s, r, Line) /\ Complete(current, s, r, Line)
                               /\ Taken(current, s, r, reply)
    BY ToldWhileOpen DEF ServerStep
  <1>3. Told(current, s, r, Line')
    BY <1>1, <1>2, ToldConcat
  <1>4. Complete(current, s, r, Line')
    BY <1>1, <1>2, CompleteConcat
  <1>5. QED
    BY <1>2, <1>3, <1>4

(* The commands that stay behind a request belong to later ids.             *)
LEMMA LaterCommands ==
  ASSUME TypeOK, TextInv, toServer # <<>>, toServer' = Tail(toServer),
         NEW j \in 1..Len(toServer'), toServer'[j].what = "command"
  PROVE  /\ Head(toServer) \in Requests /\ Head(toServer).id \in Nat
         /\ Head(toServer).id <= current
         /\ Head(toServer).id < toServer'[j].id
         /\ toServer'[j].id \in 1..Len(Commands)
  <1>1. Len(toServer) \in Nat \ {0} /\ toServer \in Seq(Requests) /\ 1 \in 1..Len(toServer)
    BY TextTypes, EmptySeq
  <1>2. /\ Head(toServer) = toServer[1] /\ Len(toServer') = Len(toServer) - 1
        /\ \A i \in 1..Len(toServer') : toServer'[i] = toServer[i + 1]
    BY <1>1, HeadTailProperties
  <1>3. /\ toServer'[j] = toServer[j + 1] /\ j + 1 \in 1..Len(toServer)
        /\ 1 \in 1..((j + 1) - 1)
    BY <1>1, <1>2
  <1>4. toServer[1].id < toServer[j + 1].id
    BY <1>3 DEF TextInv, OrderInv
  <1>5. toServer[j + 1].id \in 1..Len(Commands)
    <2>1. toServer[j + 1].id >= 1
      BY <1>3 DEF TextInv, UnansweredInv
    <2>2. toServer[j + 1].id <= current /\ toServer[j + 1].id \in Nat
      BY <1>3, TextTypes DEF TextInv, FutureInv
    <2>3. QED
      BY <2>1, <2>2, TextTypes
  <1>6. toServer[1] \in Requests /\ toServer[1].id \in Nat /\ toServer[1].id <= current
    BY <1>1, TextTypes DEF TextInv, FutureInv
  <1>7. QED
    BY <1>2, <1>3, <1>4, <1>5, <1>6

(* What is sent without an answer to a command: the reply to the password,   *)
(* a foreign packet, nothing.                                               *)
LEMMA UnrelatedNews ==
  ASSUME TypeOK, TypeOK', TextInv, ServerStep, UNCHANGED served,
         NEW news \in Seq(Packets), stream' = stream \o news,
         \A i \in 1..Len(news) : news[i].id <= 0,
         news # <<>> => ~Ending(news[1]) \/ news[1].id < 0
  PROVE  TextInv'
  <1>1. current \in Nat
    BY TextTypes
  <1>2. \A j \in 1..Len(toServer') : toServer'[j].what = "command" => toServer'[j].id >= 1
    BY ServerTakes DEF ServerStep, TextInv, UnansweredInv
  <1>0. \A i \in 1..Len(news) : news[i].id \in Int
    <2>1. \A i \in 1..Len(news) : news[i] \in Packets
      BY ElementOfSeq
    <2>2. QED
      BY <2>1 DEF Packets
  <1>3. \A n : \A i \in 1..Len(news) : n >= 1 => ~Of(n, news[i])
    BY <1>0 DEF Of
  <1>4. current > 0 =>
          \E r \in 0..Len(served'[current]) :
            /\ Told(current, served'[current], r, Line')
            /\ Complete(current, served'[current], r, Line')
            /\ Taken(current, served'[current], r, reply)
    <2>1. SUFFICES ASSUME current > 0
                   PROVE  \E r \in 0..Len(served'[current]) :
                            /\ Told(current, served'[current], r, Line')
                            /\ Complete(current, served'[current], r, Line')
                            /\ Taken(current, served'[current], r, reply)
      OBVIOUS
    <2>2. \A i \in 1..Len(news) : ~Of(current, news[i])
      BY <1>0, <1>1, <2>1 DEF Of
    <2>3. served'[current] = served[current]
      OBVIOUS
    <2>4. QED
      BY <2>1, <2>2, <2>3, NewsOfOthers
  <1>5. NewsStep(news)
    <2>1. \A i \in 1..Len(news) : news[i].id <= current
      BY <1>0, <1>1
    <2>2. news # <<>> => ~Ending(news[1]) \/ news[1].id # current \/ current = 0
      BY <1>1
    <2>3. QED
      BY <1>2, <1>3, <1>4, <2>1, <2>2 DEF NewsStep
  <1>6. QED
    BY <1>5, NewsSteps

-----------------------------------------------------------------------------
(* The answer to a command: it waited, so nothing was said of it.           *)
LEMMA CommandNews ==
  ASSUME TypeOK, TypeOK', TextInv, ServerStep, ServerCommand
  PROVE  TextInv'
  <1>a. PICK id : id = Head(toServer).id
    OBVIOUS
  <1>0. PICK count \in 0..MaxFragments :
          \E sizes \in [1..count -> FragmentSizes] :
            /\ served' = [served EXCEPT ![id] = sizes]
            /\ stream' = stream \o [k \in 1..count |-> Fragment(id, sizes[k], k)]
    BY <1>a DEF ServerCommand
  <1>1. PICK sizes \in [1..count -> FragmentSizes] :
          /\ served' = [served EXCEPT ![id] = sizes]
          /\ stream' = stream \o [k \in 1..count |-> Fragment(id, sizes[k], k)]
    BY <1>0
  <1>b. PICK news : news = [k \in 1..count |-> Fragment(id, sizes[k], k)]
    OBVIOUS
  <1>2. toServer # <<>> /\ Head(toServer).what = "command" /\ toServer' = Tail(toServer)
    BY DEF ServerCommand, Takes
  <1>3. /\ id >= 1 /\ Unanswered(id) /\ id <= current /\ id \in Nat
        /\ id \in 1..Len(Commands) /\ current \in Nat
    <2>1. id = toServer[1].id /\ Head(toServer) = toServer[1] /\ 1 \in 1..Len(toServer)
      BY <1>2, <1>a, TextTypes, EmptySeq
    <2>2. id >= 1 /\ Unanswered(id) /\ id <= current /\ id \in Nat
      BY <1>2, <2>1, TextTypes DEF TextInv, FutureInv, UnansweredInv
    <2>3. QED
      BY <2>2, TextTypes
  <1>4. count \in Nat /\ sizes \in [1..count -> Nat]
    <2>1. FragmentSizes \subseteq Nat /\ MaxFragments \in Nat
      BY BatchAssumption
    <2>2. count \in Nat
      BY <2>1
    <2>3. \A k \in 1..count : sizes[k] \in Nat
      BY <2>1
    <2>4. QED
      BY <2>2, <2>3
  <1>5. /\ Line' = Line \o news /\ Line \in Seq(Packets) /\ news \in Seq(Packets)
        /\ Len(news) = count
        /\ \A k \in 1..Len(news) : news[k].id = id /\ news[k].part = k
        /\ Told(id, sizes, 0, Line \o news) /\ Complete(id, sizes, 0, Line \o news)
    <2>1. Line \in Seq(Packets) /\ \A i \in 1..Len(Line) : Of(id, Line[i]) => Filler(Line[i])
      BY <1>3, LineType DEF Unanswered
    <2>a. /\ id \in Nat /\ news \in [1..count -> Packets]
          /\ \A k \in 1..count : news[k] = Fragment(id, sizes[k], k)
      <3>1. \A k \in 1..count : Fragment(id, sizes[k], k) \in Packets
        BY <1>3, <1>4, PacketFacts
      <3>2. QED
        BY <1>3, <1>b, <3>1
    <2>b. ASSUME NEW line \in Seq(Packets), \A i \in 1..Len(line) : Of(id, line[i]) => Filler(line[i])
          PROVE  /\ news \in Seq(Packets) /\ Len(news) = count
                 /\ \A k \in 1..Len(news) : news[k].id = id /\ news[k].part = k
                 /\ Told(id, sizes, 0, line \o news) /\ Complete(id, sizes, 0, line \o news)
      BY <1>4, <2>a, <2>b, ToldFragments
    <2>2. /\ news \in Seq(Packets) /\ Len(news) = count
          /\ \A k \in 1..Len(news) : news[k].id = id /\ news[k].part = k
          /\ Told(id, sizes, 0, Line \o news) /\ Complete(id, sizes, 0, Line \o news)
      BY <2>1, <2>b
    <2>4. Line' = Line \o news
      BY <1>1, <2>2, <1>b, ServerLine
    <2>5. QED
      BY <2>1, <2>2, <2>4
  <1>6. /\ served'[id] = sizes
        /\ \A n \in 1..Len(Commands) : n # id => served'[n] = served[n]
        /\ Len(sizes) \in Nat
    <2>1. served \in [1..Len(Commands) -> Seq(FragmentSizes)]
      BY TextTypes
    <2>2. served'[id] = sizes /\ \A n \in 1..Len(Commands) : n # id => served'[n] = served[n]
      BY <1>1, <1>3, <2>1
    <2>3. served' \in [1..Len(Commands) -> Seq(FragmentSizes)]
      BY DEF TypeOK, WireTypeOK
    <2>4. QED
      BY <1>3, <2>2, <2>3, LenProperties
  <1>7. current > 0 =>
          \E r \in 0..Len(served'[current]) :
            /\ Told(current, served'[current], r, Line')
            /\ Complete(current, served'[current], r, Line')
            /\ Taken(current, served'[current], r, reply)
    <2>1. CASE id = current
      <3>1. served[current] = <<>> /\ Len(<<>>) = 0
        BY <1>3, <2>1 DEF Unanswered
      <3>2. \E r \in 0..Len(served[current]) : Taken(current, served[current], r, reply)
        BY <1>3, <2>1 DEF TextInv, AnswerInv, Follows
      <3>3. Taken(current, <<>>, 0, reply)
        BY <3>1, <3>2
      <3>4. Taken(current, sizes, 0, reply)
        <4>1. \A i \in 1..Len(reply.chunks) : FALSE
          BY <3>1, <3>3 DEF Taken, PrefixOf
        <4>2. ~reply.truncated
          BY <3>3 DEF Taken
        <4>3. QED
          BY <4>1, <4>2 DEF Taken, PrefixOf
      <3>5. 0 \in 0..Len(served'[current])
        BY <1>6, <2>1
      <3>6. Told(current, sizes, 0, Line') /\ Complete(current, sizes, 0, Line')
        BY <1>5, <2>1
      <3>7. served'[current] = sizes
        BY <1>6, <2>1
      <3>8. QED
        BY <3>4, <3>5, <3>6, <3>7
    <2>2. CASE id # current
      <3>1. SUFFICES ASSUME current > 0
                     PROVE  \E r \in 0..Len(served'[current]) :
                              /\ Told(current, served'[current], r, Line')
                              /\ Complete(current, served'[current], r, Line')
                              /\ Taken(current, served'[current], r, reply)
        OBVIOUS
      <3>2. current \in 1..Len(Commands)
        BY <1>3, <3>1, TextTypes
      <3>3. served'[current] = served[current]
        BY <1>6, <2>2, <3>2
      <3>4. \A i \in 1..Len(news) : ~Of(current, news[i])
        BY <1>5, <2>2 DEF Of
      <3>5. stream' = stream \o news
        BY <1>1, <1>b
      <3>6. QED
        BY <1>5, <3>1, <3>3, <3>4, <3>5, NewsOfOthers
    <2>3. QED
      BY <2>1, <2>2
  <1>8. \A j \in 1..Len(toServer') : toServer'[j].what = "command" =>
          /\ served'[toServer'[j].id] = served[toServer'[j].id]
          /\ \A i \in 1..Len(news) : Of(toServer'[j].id, news[i]) => Filler(news[i])
    <2>1. SUFFICES ASSUME NEW j \in 1..Len(toServer'), toServer'[j].what = "command"
                   PROVE  /\ served'[toServer'[j].id] = served[toServer'[j].id]
                          /\ \A i \in 1..Len(news) : Of(toServer'[j].id, news[i]) => Filler(news[i])
      OBVIOUS
    <2>2. id < toServer'[j].id /\ toServer'[j].id \in 1..Len(Commands)
      BY <1>2, <2>1, <1>a, LaterCommands
    <2>3. toServer'[j].id # id
      BY <1>3, <2>2
    <2>4. QED
      BY <1>5, <1>6, <2>2, <2>3 DEF Of
  <1>9. NewsStep(news)
    <2>1. \A i \in 1..Len(news) : news[i].id <= current
      BY <1>3, <1>5
    <2>2. news # <<>> => ~Ending(news[1])
      <3>1. news # <<>> => 1 \in 1..Len(news)
        BY <1>5, EmptySeq
      <3>2. QED
        BY <1>5, <3>1 DEF Ending
    <2>3. \A n \in 1..Len(Commands) : served'[n] # served[n] => n <= current /\ n = id
      BY <1>3, <1>6
    <2>4. \A n \in 1..Len(Commands) :
            served'[n] # served[n] =>
              served[n] = <<>> /\ (n \in 1..Len(results) => results[n].by # "terminator")
      BY <1>3, <2>3 DEF Unanswered
    <2>5. stream' = stream \o news
      BY <1>1, <1>b
    <2>6. QED
      BY <1>7, <1>8, <2>1, <2>2, <2>3, <2>4, <2>5 DEF NewsStep
  <1>10. QED
    BY <1>5, <1>9, NewsSteps

-----------------------------------------------------------------------------
(* The answer to a probe closes what is told of its command.                *)
LEMMA ProbeNews ==
  ASSUME TypeOK, TypeOK', TextInv, ServerStep, ServerProbe
  PROVE  TextInv'
  <1>1. PICK id : id = Head(toServer).id
    OBVIOUS
  <1>2. PICK news : news = <<Empty(id), Terminator(id)>>
    OBVIOUS
  <1>3. /\ toServer # <<>> /\ toServer' = Tail(toServer)
        /\ stream' = stream \o news /\ UNCHANGED served
    BY <1>1, <1>2 DEF ServerProbe, Takes
  <1>4. id \in Nat /\ id <= current /\ current \in Nat
    <2>1. id = toServer[1].id /\ 1 \in 1..Len(toServer)
      BY <1>1, <1>3, TextTypes, EmptySeq
    <2>2. QED
      BY <2>1, TextTypes DEF TextInv, FutureInv
  <1>5. Empty(id) \in Packets /\ Terminator(id) \in Packets
    BY <1>4, PacketFacts
  <1>6. /\ news \in Seq(Packets) /\ Len(news) = 2
        /\ news[1] = Empty(id) /\ news[2] = Terminator(id)
    BY <1>2, <1>5
  <1>7. /\ \A i \in 1..Len(news) : news[i].id = id
        /\ ~Ending(news[1])
    <2>1. Empty(id).id = id /\ Terminator(id).id = id /\ ~Ending(Empty(id))
      BY DEF Empty, Terminator, Packet, Ending
    <2>2. \A i \in 1..Len(news) : i = 1 \/ i = 2
      BY <1>6
    <2>3. QED
      BY <1>6, <2>1, <2>2
  <1>8. Line' = Line \o news /\ Line \in Seq(Packets)
    BY <1>3, <1>6, ServerLine, LineType
  <1>9. current > 0 =>
          \E r \in 0..Len(served'[current]) :
            /\ Told(current, served'[current], r, Line')
            /\ Complete(current, served'[current], r, Line')
            /\ Taken(current, served'[current], r, reply)
    <2>1. SUFFICES ASSUME current > 0
                   PROVE  \E r \in 0..Len(served'[current]) :
                            /\ Told(current, served'[current], r, Line')
                            /\ Complete(current, served'[current], r, Line')
                            /\ Taken(current, served'[current], r, reply)
      OBVIOUS
    <2>2. served'[current] = served[current]
      BY <1>3
    <2>3. CASE id # current
      <3>1. \A i \in 1..Len(news) : ~Of(current, news[i])
        BY <1>7, <2>3 DEF Of
      <3>2. QED
        BY <1>3, <1>6, <2>1, <2>2, <3>1, NewsOfOthers
    <2>4. CASE id = current
      <3>1. PICK s : s = served[current]
        OBVIOUS
      <3>2. PICK r \in 0..Len(s) : /\ Told(current, s, r, Line) /\ Complete(current, s, r, Line)
                                   /\ Taken(current, s, r, reply)
        BY <2>1, <3>1, ToldWhileOpen DEF ServerStep
      <3>3. r \in Nat
        OBVIOUS
      <3>4. Told(id, s, r, Line) /\ Complete(id, s, r, Line)
        BY <2>4, <3>2
      <3>5. Told(id, s, r, Line \o news)
        BY <1>2, <1>4, <1>8, <3>3, <3>4, ToldProbe
      <3>6. Complete(id, s, r, Line \o news)
        BY <1>6, <1>8, <3>4, CompleteConcat
      <3>7. Told(current, s, r, Line') /\ Complete(current, s, r, Line')
        BY <1>8, <2>4, <3>5, <3>6
      <3>8. QED
        BY <2>2, <3>1, <3>2, <3>7
    <2>5. QED
      BY <2>3, <2>4
  <1>10. NewsStep(news)
    <2>1. \A j \in 1..Len(toServer') : toServer'[j].what = "command" =>
            \A i \in 1..Len(news) : ~Of(toServer'[j].id, news[i])
      <3>1. SUFFICES ASSUME NEW j \in 1..Len(toServer'), toServer'[j].what = "command",
                            NEW i \in 1..Len(news)
                     PROVE  ~Of(toServer'[j].id, news[i])
        OBVIOUS
      <3>2. id < toServer'[j].id /\ toServer'[j].id \in 1..Len(Commands)
        BY <1>1, <1>3, <3>1, LaterCommands
      <3>3. toServer'[j].id # id
        BY <1>4, <3>2
      <3>4. QED
        BY <1>7, <3>3 DEF Of
    <2>2. \A i \in 1..Len(news) : news[i].id <= current
      BY <1>4, <1>7
    <2>3. QED
      BY <1>3, <1>7, <1>9, <2>1, <2>2 DEF NewsStep
  <1>11. QED
    BY <1>6, <1>10, NewsSteps

(* No step of the server disturbs what is told of the text.                 *)
LEMMA ServerText ==
  ASSUME TypeOK, TypeOK', TextInv, ServerStep
  PROVE  TextInv'
  <1>1. CASE ServerAuth
    <2>1. PICK accept \in BOOLEAN :
            stream' = stream \o <<Empty(0), AuthReply(IF accept THEN 0 ELSE Rejection)>>
      BY <1>1 DEF ServerAuth
    <2>2. PICK p : p = AuthReply(IF accept THEN 0 ELSE Rejection)
      OBVIOUS
    <2>3. PICK news : news = <<Empty(0), p>>
      OBVIOUS
    <2>4. Empty(0) \in Packets /\ p \in Packets /\ p.id <= 0 /\ Empty(0).id = 0 /\ ~Ending(Empty(0))
      <3>1. Empty(0) \in Packets /\ p \in Packets
        BY <2>2, PacketFacts
      <3>2. p.id <= 0
        BY <2>2 DEF AuthReply, Packet, Rejection
      <3>3. Empty(0).id = 0 /\ ~Ending(Empty(0))
        BY DEF Empty, Packet, Ending
      <3>4. QED
        BY <3>1, <3>2, <3>3
    <2>5. news \in Seq(Packets) /\ Len(news) = 2 /\ news[1] = Empty(0) /\ news[2] = p
      BY <2>3, <2>4
    <2>6. \A i \in 1..Len(news) : news[i].id <= 0
      <3>1. \A i \in 1..Len(news) : i = 1 \/ i = 2
        BY <2>5
      <3>2. QED
        BY <2>4, <2>5, <3>1
    <2>7. stream' = stream \o news /\ UNCHANGED served
      BY <1>1, <2>1, <2>2, <2>3 DEF ServerAuth
    <2>8. QED
      BY <2>4, <2>5, <2>6, <2>7, UnrelatedNews
  <1>2. CASE ServerCommand
    BY <1>2, CommandNews
  <1>3. CASE ServerProbe
    BY <1>3, ProbeNews
  <1>4. CASE ServerIgnores
    <2>1. stream \in Seq(Packets)
      BY LineType
    <2>2. PICK news : news = <<>>
      OBVIOUS
    <2>3. news \in Seq(Packets) /\ Len(news) = 0 /\ stream' = stream \o news /\ UNCHANGED served
      BY <1>4, <2>1, <2>2 DEF ServerIgnores
    <2>4. ~(news # <<>>) /\ \A i \in 1..Len(news) : news[i].id <= 0
      <3>1. 1..Len(news) = {}
        BY <2>3
      <3>2. QED
        BY <2>2, <3>1
    <2>5. QED
      BY <2>3, <2>4, UnrelatedNews
  <1>5. CASE ServerFault
    <2>1. PICK p \in {Malformed, Empty(Foreign), Terminator(Foreign)} : stream' = Append(stream, p)
      BY <1>5 DEF ServerFault
    <2>2. PICK news : news = <<p>>
      OBVIOUS
    <2>3. p \in Packets /\ p.id < 0 /\ p.id <= 0
      <3>1. p \in Packets
        BY PacketFacts
      <3>2. p.id = -2
        BY DEF Malformed, Empty, Terminator, Packet, Foreign
      <3>3. QED
        BY <3>1, <3>2
    <2>4. news \in Seq(Packets) /\ Len(news) = 1 /\ news[1] = p
      BY <2>2, <2>3
    <2>5. \A i \in 1..Len(news) : news[i].id <= 0
      <3>1. \A i \in 1..Len(news) : i = 1
        BY <2>4
      <3>2. QED
        BY <2>3, <2>4, <3>1
    <2>6. stream' = stream \o news /\ UNCHANGED served
      <3>1. stream \in Seq(Packets)
        BY LineType
      <3>2. Append(stream, p) = stream \o <<p>>
        BY <2>3, <3>1
      <3>3. QED
        BY <1>5, <2>1, <2>2, <3>2 DEF ServerFault
    <2>7. QED
      BY <2>3, <2>4, <2>5, <2>6, UnrelatedNews
  <1>6. QED
    BY <1>1, <1>2, <1>3, <1>4, <1>5 DEF ServerStep, ServerNext

-----------------------------------------------------------------------------
(* The continuations that neither read a packet nor start a command.        *)
LEMMA QuietContinuations ==
  ASSUME TypeOK, TypeOK', ReaderInv, StageInv, TextInv, SessionStep,
         ~(AuthPacket \/ ResponsePacket), ~NextCommand
  PROVE  TextInv'
  <1>1. LineKept
    BY ContinuationLine
  <1>2. UNCHANGED <<current, reply, served>>
    BY DEF SessionStep, Connect, AuthSend, AuthRead, AuthRejected, AuthLoop, BatchEnd, ProbeSend,
       ResponseRead, ResponseRejected, ResponseLoop, ReadPacket
  <1>3. /\ current \in Nat /\ Request("auth", 0) \in Requests /\ Request("probe", current) \in Requests
        /\ Request("auth", 0).what = "auth" /\ Request("auth", 0).id = 0
        /\ Request("probe", current).what = "probe" /\ Request("probe", current).id = current
    BY TextTypes DEF Request, Requests
  <1>4. \/ toServer' = toServer
        \/ \E q \in Requests : /\ q.what # "command" /\ q.id <= current
                               /\ toServer' = Append(toServer, q)
    <2>1. CASE AuthSend
      <3>1. toServer' = toServer \/ toServer' = Append(toServer, Request("auth", 0))
        BY <2>1 DEF AuthSend, StartWrite
      <3>2. QED
        BY <1>3, <3>1
    <2>2. CASE ProbeSend
      <3>1. toServer' = toServer \/ toServer' = Append(toServer, Request("probe", current))
        BY <2>2 DEF ProbeSend, StartWrite
      <3>2. QED
        BY <1>3, <3>1
    <2>3. CASE Connect \/ AuthRead \/ AuthRejected \/ AuthLoop \/ BatchEnd
               \/ ResponseRead \/ ResponseRejected \/ ResponseLoop
      BY <2>3 DEF Connect, AuthRead, AuthRejected, AuthLoop, BatchEnd, ResponseRead,
         ResponseRejected, ResponseLoop, ReadPacket, noIO
    <2>4. QED
      BY <2>1, <2>2, <2>3 DEF SessionStep
  <1>5. \/ results' = results
        \/ /\ Len(results) + 1 = current
           /\ \E by \in {"quiet", "closed", "deadline", "probe"} :
                results' = Append(results, Answer(by, reply)) \/ results' = Append(results, Dispatched(by))
    <2>1. CASE Connect \/ AuthSend \/ AuthRead \/ AuthRejected \/ AuthLoop \/ BatchEnd \/ ResponseRead
      BY <2>1 DEF Connect, AuthSend, AuthRead, AuthRejected, AuthLoop, BatchEnd, ResponseRead,
         ReadPacket, StartWrite, GoTo, Throw
    <2>2. CASE ProbeSend \/ ResponseRejected \/ ResponseLoop
      <3>1. pc \in Answering
        BY <2>2 DEF ProbeSend, ResponseRejected, ResponseLoop, Answering
      <3>2. Len(results) + 1 = current
        BY <3>1 DEF StageInv
      <3>3. CASE ProbeSend
        BY <3>2, <3>3 DEF ProbeSend, StartWrite, GoTo, Throw, Return
      <3>4. CASE ResponseRejected
        BY <3>2, <3>4 DEF ResponseRejected, Throw, Return
      <3>5. CASE ResponseLoop
        BY <3>2, <3>5 DEF ResponseLoop, GoTo, Throw, Return
      <3>6. QED
        BY <2>2, <3>3, <3>4, <3>5
    <2>3. QED
      BY <2>1, <2>2 DEF SessionStep
  <1>6. QuietStep
    BY <1>1, <1>2, <1>4, <1>5 DEF QuietStep
  <1>7. QED
    BY <1>6, QuietSteps

(* The callbacks.                                                           *)
LEMMA EventText ==
  ASSUME TypeOK, TypeOK', ParkedReader, ReaderInv, StageInv, TextInv, SessionEvent
  PROVE  TextInv'
  <1>1. LineKept
    BY EventLine
  <1>2. UNCHANGED <<current, reply, served, toServer>>
    BY DEF SessionEvent
  <1>3. \/ results' = results
        \/ Len(results) + 1 = current /\ results' = Append(results, Dispatched("probe"))
    <2>1. CASE WriteFails
      <3>1. TransitionProbe => pc \in Answering
        BY DEF TransitionProbe, Answering
      <3>2. TransitionProbe => Len(results) + 1 = current
        BY <3>1 DEF StageInv
      <3>3. QED
        BY <2>1, <3>2 DEF WriteFails, Throw
    <2>2. CASE SocketConnect \/ ConnectTimer \/ ConnectError \/ ConnectClose \/ WriteOk \/ PeerEnd
      BY <2>2 DEF SocketConnect, ConnectTimer, ConnectError, ConnectClose, WriteOk, PeerEnd, Throw, GoTo
    <2>3. CASE SocketClose \/ ReadTimer \/ Abort \/ \E n \in 1..Len(stream) : OnData(n)
      BY <2>3 DEF SocketClose, ReadTimer, Abort, OnData
    <2>4. QED
      BY <2>1, <2>2, <2>3 DEF SessionEvent
  <1>4. QuietStep
    BY <1>1, <1>2, <1>3 DEF QuietStep
  <1>5. QED
    BY <1>4, QuietSteps

(* A packet of the authentication: no command was sent yet.                 *)
LEMMA AuthPacketText ==
  ASSUME TypeOK, TypeOK', ReaderInv, TextInv, SessionStep, AuthPacket
  PROVE  TextInv'
  <1>1. /\ UNCHANGED <<current, reply, served, toServer, results>> /\ current = 0
    BY DEF SessionStep, AuthPacket, ReaderInv, Opening, Throw, GoTo
  <1>2. Line \in Seq(Packets) /\ Line' \in Seq(Packets) /\ Shift(Line, Line', 1)
    BY ContinuationLine, LineType, LineTypeNext DEF LineTaken
  <1>3. \A i \in 1..Len(Line') : i + 1 \in 1..Len(Line) /\ Line'[i] = Line[i + 1]
    BY <1>2, ShiftAll
  <1>4. FutureInv'
    BY <1>1, <1>3 DEF TextInv, FutureInv
  <1>5. OrderInv'
    BY <1>1 DEF TextInv, OrderInv
  <1>6. UnansweredInv'
    <2>1. ASSUME NEW n, Unanswered(n) PROVE Unanswered(n)'
      BY <1>1, <1>3, <2>1 DEF Unanswered
    <2>2. QED
      BY <1>1, <2>1 DEF TextInv, UnansweredInv
  <1>7. HeadInv' /\ AnswerInv'
    BY <1>1 DEF HeadInv, AnswerInv
  <1>8. ResultsInv'
    BY <1>1 DEF TextInv, ResultsInv
  <1>9. QED
    BY <1>4, <1>5, <1>6, <1>7, <1>8 DEF TextInv

(* The next command: nothing on its way can be taken for its answer.        *)
LEMMA NextCommandText ==
  ASSUME TypeOK, TypeOK', ReaderInv, StageInv, TextInv, SessionStep, NextCommand
  PROVE  TextInv'
  <1>1. PICK c : c = current + 1
    OBVIOUS
  <1>2. /\ current' = c /\ reply' = NoReply /\ UNCHANGED <<served, results>>
        /\ Len(results) = current /\ current \in Nat /\ c \in 1..Len(Commands)
    BY <1>1, TextTypes DEF SessionStep, NextCommand, StageInv, StartWrite, GoTo, Throw
  <1>3. Line \in Seq(Packets) /\ Line' \in Seq(Packets) /\ Shift(Line, Line', 0)
    <2>1. ~(AuthPacket \/ ResponsePacket)
      BY DEF NextCommand, AuthPacket, ResponsePacket
    <2>2. QED
      BY <2>1, ContinuationLine, LineType, LineTypeNext DEF LineKept
  <1>4. \A i \in 1..Len(Line') : i \in 1..Len(Line) /\ Line'[i] = Line[i] /\ Line'[i].id # c
    <2>1. \A i \in 1..Len(Line') : i + 0 \in 1..Len(Line) /\ Line'[i] = Line[i + 0] /\ i + 0 = i
      BY <1>3, ShiftAll
    <2>2. \A i \in 1..Len(Line) : Line[i].id <= current /\ Line[i].id \in Int
      <3>1. \A i \in 1..Len(Line) : Line[i] \in Packets
        BY <1>3, ElementOfSeq
      <3>2. QED
        BY <3>1 DEF TextInv, FutureInv, Packets
    <2>3. QED
      BY <1>1, <1>2, <2>1, <2>2
  <1>5. PICK q : q = Request("command", c)
    OBVIOUS
  <1>6. q \in Requests /\ q.id = c
    BY <1>2, <1>5 DEF Request, Requests
  <1>7. \/ toServer' = toServer
        \/ \A i \in 1..Len(toServer') : (i \in 1..Len(toServer) /\ toServer'[i] = toServer[i])
                                        \/ (i = Len(toServer) + 1 /\ toServer'[i] = q)
    <2>1. toServer' = toServer \/ toServer' = Append(toServer, q)
      BY <1>1, <1>5 DEF NextCommand, StartWrite
    <2>2. QED
      BY <1>6, <2>1, AppendRequest
  <1>8. FutureInv'
    <2>1. \A i \in 1..Len(toServer') : toServer'[i].id <= c
      <3>1. \A i \in 1..Len(toServer) : toServer[i].id <= c
        BY <1>1, <1>2, TextTypes DEF TextInv, FutureInv
      <3>2. QED
        BY <1>2, <1>6, <1>7, <3>1
    <2>2. \A i \in 1..Len(Line') : Line'[i].id <= c
      <3>1. \A i \in 1..Len(Line) : Line[i].id <= current /\ Line[i].id \in Int
        <4>1. \A i \in 1..Len(Line) : Line[i] \in Packets
          BY <1>3, ElementOfSeq
        <4>2. QED
          BY <4>1 DEF TextInv, FutureInv, Packets
      <3>2. \A i \in 1..Len(Line) : Line[i].id <= c
        BY <1>1, <1>2, <3>1
      <3>3. QED
        BY <1>4, <3>2
    <2>3. \A n \in (c + 1)..Len(Commands) : served[n] = <<>>
      <3>1. \A n \in (c + 1)..Len(Commands) : n \in (current + 1)..Len(Commands)
        BY <1>1, <1>2
      <3>2. QED
        BY <3>1 DEF TextInv, FutureInv
    <2>4. QED
      BY <1>2, <2>1, <2>2, <2>3 DEF FutureInv
  <1>9. OrderInv'
    <2>1. SUFFICES ASSUME NEW j \in 1..Len(toServer'), toServer'[j].what = "command",
                          NEW i \in 1..(j - 1)
                   PROVE  toServer'[i].id < toServer'[j].id
      BY DEF OrderInv
    <2>2. CASE toServer' = toServer
      BY <2>1, <2>2 DEF TextInv, OrderInv
    <2>3. CASE \A k \in 1..Len(toServer') : (k \in 1..Len(toServer) /\ toServer'[k] = toServer[k])
                                            \/ (k = Len(toServer) + 1 /\ toServer'[k] = q)
      <3>1. i \in 1..Len(toServer') /\ j \in Nat /\ i < j
        <4>1. Len(toServer') \in Nat
          BY DEF TypeOK, WireTypeOK
        <4>2. QED
          BY <4>1
      <3>2. i \in 1..Len(toServer) /\ toServer'[i] = toServer[i]
        BY <2>3, <3>1, TextTypes
      <3>3. CASE j \in 1..Len(toServer) /\ toServer'[j] = toServer[j]
        BY <2>1, <3>2, <3>3 DEF TextInv, OrderInv
      <3>4. CASE toServer'[j] = q
        BY <1>1, <1>2, <1>6, <3>2, <3>4, TextTypes DEF TextInv, FutureInv
      <3>5. QED
        BY <2>3, <3>3, <3>4
    <2>4. QED
      BY <1>7, <2>2, <2>3
  <1>10. UnansweredInv'
    <2>1. ASSUME NEW n, Unanswered(n) PROVE Unanswered(n)'
      BY <1>2, <1>4, <2>1 DEF Unanswered
    <2>2. Unanswered(c)'
      <3>1. c \in (current + 1)..Len(Commands) /\ c \notin 1..Len(results)
        BY <1>1, <1>2
      <3>2. served[c] = <<>>
        BY <3>1 DEF TextInv, FutureInv
      <3>3. QED
        BY <1>2, <1>4, <3>1, <3>2 DEF Unanswered, Of
    <2>3. c >= 1
      BY <1>2
    <2>4. QED
      BY <1>6, <1>7, <2>1, <2>2, <2>3 DEF TextInv, UnansweredInv
  <1>11. HeadInv'
    <2>1. Line' # <<>> => 1 \in 1..Len(Line')
      BY <1>3, EmptySeq
    <2>2. QED
      BY <1>2, <1>4, <2>1 DEF HeadInv, Of
  <1>12. AnswerInv'
    <2>1. served[c] = <<>> /\ Len(served[c]) = 0
      <3>1. c \in (current + 1)..Len(Commands)
        BY <1>1, <1>2
      <3>2. QED
        BY <3>1 DEF TextInv, FutureInv
    <2>2. Told(c, served[c], 0, Line')
      BY <1>4 DEF Told, Of
    <2>3. Complete(c, served[c], 0, Line')
      BY <2>1 DEF Complete, Before
    <2>4. Taken(c, served[c], 0, NoReply)
      <3>1. NoReply.chunks = <<>> /\ ~NoReply.truncated
        BY DEF NoReply
      <3>2. \A i \in 1..Len(NoReply.chunks) : FALSE
        BY <3>1
      <3>3. QED
        BY <3>1, <3>2 DEF Taken, PrefixOf
    <2>5. Follows(c, 0)'
      BY <1>2, <2>2, <2>3, <2>4 DEF Follows
    <2>6. 0 \in 0..Len(served'[c])
      BY <1>2, <2>1
    <2>7. QED
      BY <1>2, <2>5, <2>6 DEF AnswerInv
  <1>13. ResultsInv'
    BY <1>1, <1>2 DEF TextInv, ResultsInv
  <1>14. QED
    BY <1>8, <1>9, <1>10, <1>11, <1>12, <1>13 DEF TextInv

-----------------------------------------------------------------------------
(* A packet of the response.  The head of the line is a filler, the next     *)
(* fragment, the end, or no packet of this command.                          *)
LEMMA ResponsePacketText ==
  ASSUME TypeOK, TypeOK', ReaderInv, StageInv, TextInv, SessionStep, ResponsePacket
  PROVE  TextInv'
  <1>1. /\ UNCHANGED <<current, served, toServer>> /\ Len(results) + 1 = current
        /\ current \in Nat /\ current > 0 /\ current \in 1..Len(Commands)
    <2>1. UNCHANGED <<current, served, toServer>> /\ pc \in Answering
      BY DEF SessionStep, ResponsePacket, Answering
    <2>2. Len(results) + 1 = current
      BY <2>1 DEF StageInv
    <2>3. QED
      BY <2>1, <2>2, TextTypes
  <1>2. PICK p : p = settled.packet
    OBVIOUS
  <1>3. /\ Line \in Seq(Packets) /\ Line' \in Seq(Packets) /\ Shift(Line, Line', 1)
        /\ Line # <<>> /\ Line[1] = p /\ (Uncut' => Uncut /\ Len(Line') = Len(Line) - 1)
    BY <1>2, ContinuationLine, LineType, LineTypeNext DEF LineTaken
  <1>4. /\ \A i \in 1..Len(Line') : i + 1 \in 1..Len(Line) /\ Line'[i] = Line[i + 1]
        /\ 1 \in 1..Len(Line) /\ p \in Packets
    <2>1. 1 \in 1..Len(Line)
      BY <1>3, EmptySeq
    <2>2. QED
      BY <1>3, <2>1, ShiftAll
  <1>5. PICK s : s = served[current]
    OBVIOUS
  <1>6. Len(s) \in Nat
    BY <1>1, <1>5, TextTypes
  <1>7. PICK r \in 0..Len(s) : Follows(current, r)
    BY <1>1, <1>5 DEF TextInv, AnswerInv
  <1>8. /\ r \in Nat /\ Told(current, s, r, Line) /\ Taken(current, s, r, reply)
        /\ Uncut => Complete(current, s, r, Line)
    BY <1>5, <1>6, <1>7 DEF Follows
  <1>9. /\ Of(current, p) =>
             \/ Filler(p)
             \/ Piece(s, r, p) /\ p.part = r + 1 /\ r + 1 <= Len(s)
             \/ Ending(p) /\ r = Len(s)
        /\ Of(current, p) /\ Piece(s, r, p) => Told(current, s, r + 1, Line')
        /\ ~(Of(current, p) /\ Piece(s, r, p)) => Told(current, s, r, Line')
    BY <1>3, <1>6, <1>8, ToldTaken
  <1>10. FutureInv'
    BY <1>1, <1>4 DEF TextInv, FutureInv
  <1>11. OrderInv'
    BY <1>1 DEF TextInv, OrderInv
  <1>12. Own(p) <=> Of(current, p)
    BY DEF Own, Of
  <1>13. /\ Line' # <<>> /\ Of(current, Line'[1]) /\ Ending(Line'[1]) => Own(p) /\ p.size = 0
    <2>1. SUFFICES ASSUME Line' # <<>>, Of(current, Line'[1]), Ending(Line'[1])
                   PROVE  Own(p) /\ p.size = 0
      OBVIOUS
    <2>2. 1 \in 1..Len(Line')
      BY <1>3, <2>1, EmptySeq
    <2>3. 2 \in 1..Len(Line) /\ Line'[1] = Line[2]
      <3>1. 1 + 1 \in 1..Len(Line) /\ Line'[1] = Line[1 + 1]
        BY <1>4, <2>2
      <3>2. QED
        BY <3>1
    <2>4. ToldAt(current, s, r, Line, 2)
      BY <1>8, <2>1, <2>3 DEF Told
    <2>5. Of(current, Line[2 - 1]) /\ Line[2 - 1].size = 0
      BY <2>1, <2>3, <2>4 DEF ToldAt
    <2>6. Of(current, Line[1]) /\ Line[1].size = 0
      BY <2>5
    <2>7. QED
      BY <1>3, <1>12, <2>6
  <1>14. ~Of(current, p) \/ p.part = 0 => (Uncut' => Complete(current, s, r, Line'))
    <2>1. ~Of(current, p) \/ p.part = 0 => ~(Of(current, p) /\ p.part \in (r + 1)..Len(s))
      BY <1>8
    <2>2. QED
      BY <1>3, <1>6, <1>8, <2>1, CompleteTaken
  <1>15. ASSUME NEW m \in 0..Len(s), Told(current, s, m, Line'), Taken(current, s, m, reply'),
                Uncut' => Complete(current, s, m, Line')
         PROVE  AnswerInv'
    <2>1. Follows(current, m)'
      BY <1>1, <1>5, <1>15 DEF Follows
    <2>2. m \in 0..Len(served'[current])
      BY <1>1, <1>5
    <2>3. QED
      BY <1>1, <2>1, <2>2 DEF AnswerInv
  <1>16. p.part = r + 1 => (Uncut' => Complete(current, s, r + 1, Line'))
    <2>1. p.part = r + 1 => ~(Of(current, p) /\ p.part \in ((r + 1) + 1)..Len(s))
      BY <1>8
    <2>2. r + 1 \in {r, r + 1}
      OBVIOUS
    <2>3. QED
      BY <1>3, <1>6, <1>8, <2>1, <2>2, CompleteTaken
  <1>17. CASE ~(Own(p) /\ Last(p))
    <2>1. UNCHANGED results /\ reply' = IF Own(p) THEN Accumulate(reply, p) ELSE reply
      BY <1>2, <1>17 DEF ResponsePacket, GoTo
    <2>2. UnansweredInv'
      <3>1. ASSUME NEW n, Unanswered(n) PROVE Unanswered(n)'
        BY <1>1, <1>4, <2>1, <3>1 DEF Unanswered
      <3>2. QED
        BY <1>1, <3>1 DEF TextInv, UnansweredInv
    <2>3. ResultsInv'
      BY <1>1, <2>1 DEF TextInv, ResultsInv
    <2>4. reply \in Replies
      BY TextTypes
    <2>5. ~(Own(p) /\ Ending(p))
      <3>1. Own(p) /\ Ending(p) => reply.previousWasEmpty /\ p.term
        BY <1>1, <1>3, <1>12 DEF TextInv, HeadInv, Ending
      <3>2. QED
        BY <1>17, <3>1 DEF Last
    <2>6. HeadInv'
      <3>1. Own(p) /\ p.size = 0 => reply'.previousWasEmpty
        BY <2>1 DEF Accumulate
      <3>2. QED
        BY <1>1, <1>13, <3>1 DEF HeadInv
    <2>7. AnswerInv'
      <3>1. CASE ~Own(p)
        <4>1. Told(current, s, r, Line') /\ Taken(current, s, r, reply')
          BY <1>8, <1>9, <1>12, <2>1, <3>1
        <4>2. Uncut' => Complete(current, s, r, Line')
          BY <1>12, <1>14, <3>1
        <4>3. QED
          BY <1>15, <4>1, <4>2
      <3>2. CASE Own(p) /\ Filler(p)
        <4>1. p.size = 0 /\ p.part = 0
          BY <3>2 DEF Filler
        <4>2. ~Piece(s, r, p)
          BY <1>8, <4>1 DEF Piece
        <4>3. Told(current, s, r, Line')
          BY <1>9, <4>2
        <4>4. Taken(current, s, r, reply')
          BY <1>8, <2>1, <2>4, <3>2, <4>1, TakenFiller
        <4>5. Uncut' => Complete(current, s, r, Line')
          BY <1>14, <4>1
        <4>6. QED
          BY <1>15, <4>3, <4>4, <4>5
      <3>3. CASE Own(p) /\ Piece(s, r, p)
        <4>1. p.part = r + 1 /\ r + 1 \in 0..Len(s) /\ r + 1 \in 1..Len(s)
          <5>1. ~Filler(p) /\ ~Ending(p)
            <6>1. p.part # 0
              BY <1>8, <3>3 DEF Piece
            <6>2. QED
              BY <6>1 DEF Filler, Ending
          <5>2. QED
            BY <1>6, <1>8, <1>9, <1>12, <3>3, <5>1
        <4>2. Told(current, s, r + 1, Line')
          BY <1>9, <1>12, <3>3
        <4>3. p.id = current /\ p.size = s[r + 1]
          BY <1>12, <3>3, <4>1 DEF Of, Piece
        <4>4. Taken(current, s, r + 1, reply')
          BY <1>4, <1>8, <2>1, <2>4, <3>3, <4>1, <4>3, TakenPiece
        <4>5. Uncut' => Complete(current, s, r + 1, Line')
          BY <1>16, <4>1
        <4>6. QED
          BY <1>15, <4>1, <4>2, <4>4, <4>5
      <3>4. QED
        BY <1>9, <1>12, <2>5, <3>1, <3>2, <3>3
    <2>8. QED
      BY <1>10, <1>11, <2>2, <2>3, <2>6, <2>7 DEF TextInv
  <1>18. CASE Own(p) /\ Last(p)
    <2>1. UNCHANGED reply /\ results' = Append(results, Answer("terminator", reply))
      BY <1>2, <1>18 DEF ResponsePacket, Return
    <2>2. Ending(p) /\ r = Len(s) /\ p.part = 0 /\ p.term /\ reply.previousWasEmpty
      <3>1. p.term /\ reply.previousWasEmpty
        BY <1>18 DEF Last
      <3>2. ~Filler(p) /\ ~Piece(s, r, p)
        BY <3>1 DEF Filler, Piece
      <3>3. QED
        BY <1>9, <1>12, <1>18, <3>1, <3>2 DEF Ending
    <2>3. ~Piece(s, r, p)
      BY <2>2 DEF Piece
    <2>4. HeadInv'
      BY <2>1, <2>2 DEF HeadInv
    <2>5. AnswerInv'
      <3>1. Told(current, s, r, Line')
        BY <1>9, <2>3
      <3>2. Uncut' => Complete(current, s, r, Line')
        BY <1>14, <2>2
      <3>3. QED
        BY <1>8, <1>15, <2>1, <3>1, <3>2
    <2>6. Answer("terminator", reply) \in Results
      BY ReplyKindType, TextTypes
    <2>7. PICK a \in Results : a = Answer("terminator", reply)
      BY <2>6
    <2>8. /\ Len(results') = Len(results) + 1 /\ results'[current] = a
          /\ \A n \in 1..Len(results) : results'[n] = results[n]
          /\ \A n \in 1..Len(results') : n \in 1..Len(results) \/ n = current
      <3>1. results \in Seq(Results) /\ Len(results) \in Nat
        BY TextTypes
      <3>2. QED
        BY <1>1, <2>1, <2>7, <3>1
    <2>9. UnansweredInv'
      <3>1. ASSUME NEW n, Unanswered(n) PROVE Unanswered(n)'
        <4>1. n # current
          BY <1>3, <1>4, <1>12, <1>18, <2>2, <3>1 DEF Unanswered, Filler
        <4>2. n \in 1..Len(results') => results'[n].by # "terminator"
          BY <2>8, <3>1, <4>1 DEF Unanswered
        <4>3. QED
          BY <1>1, <1>4, <3>1, <4>2 DEF Unanswered
      <3>2. QED
        BY <1>1, <3>1 DEF TextInv, UnansweredInv
    <2>10. ResultsInv'
      <3>1. /\ PrefixOf(current, s, a.chunks)
            /\ a.truncated <=> ~WholeOf(s, a.chunks)
        <4>1. a.chunks = reply.chunks /\ a.truncated = reply.truncated
          BY <2>7 DEF Answer
        <4>2. PrefixOf(current, s, reply.chunks)
          BY <1>8 DEF Taken
        <4>3. ASSUME reply.truncated PROVE ~WholeOf(s, reply.chunks)
          BY <1>8, <2>2, <4>3 DEF Taken, WholeOf
        <4>4. ASSUME ~reply.truncated PROVE WholeOf(s, reply.chunks)
          BY <1>8, <2>2, <4>4 DEF Taken, WholeOf
        <4>5. reply.truncated \in BOOLEAN
          BY TextTypes DEF Replies
        <4>6. QED
          BY <4>1, <4>2, <4>3, <4>4
      <3>2. Len(results') <= current
        BY <1>1, <2>8
      <3>3. QED
        BY <1>1, <1>5, <2>8, <3>1, <3>2 DEF TextInv, ResultsInv
    <2>11. QED
      BY <1>10, <1>11, <2>4, <2>5, <2>9, <2>10 DEF TextInv
  <1>19. QED
    BY <1>17, <1>18

-----------------------------------------------------------------------------
(* At first nothing was asked, sent or read.                                *)
LEMMA InitText == Init => ReaderInv /\ TextInv
  <1>1. SUFFICES ASSUME Init PROVE ReaderInv /\ TextInv
    OBVIOUS
  <1>2. /\ settled.tag = "none" /\ socket = "none" /\ pc = "start" /\ current = 0
        /\ stream = <<>> /\ toServer = <<>> /\ results = <<>> /\ queue = <<>>
        /\ \A n \in 1..Len(Commands) : served[n] = <<>>
    BY <1>1 DEF Init, WireInit, Unsettled
  <1>3. ReaderInv
    BY <1>2 DEF ReaderInv
  <1>4. Line = <<>>
    <2>1. InHand = <<>> /\ Arriving = <<>>
      BY <1>2 DEF InHand, Arriving
    <2>2. Held = <<>>
      BY <1>2, <2>1, EmptySeq, ConcatEmptySeq DEF Held
    <2>3. QED
      BY <2>1, <2>2, EmptySeq, ConcatEmptySeq DEF Line
  <1>5. 1..Len(toServer) = {} /\ 1..Len(Line) = {} /\ 1..Len(results) = {} /\ Len(results) = 0
    BY <1>2, <1>4
  <1>6. FutureInv
    <2>1. \A n \in (current + 1)..Len(Commands) : n \in 1..Len(Commands)
      BY <1>2
    <2>2. QED
      BY <1>2, <1>5, <2>1 DEF FutureInv
  <1>7. OrderInv /\ UnansweredInv
    BY <1>5 DEF OrderInv, UnansweredInv
  <1>8. HeadInv /\ AnswerInv
    BY <1>2 DEF HeadInv, AnswerInv
  <1>9. ResultsInv
    BY <1>2, <1>5 DEF ResultsInv
  <1>10. QED
    BY <1>3, <1>6, <1>7, <1>8, <1>9 DEF TextInv

(* A step of the session, of the callbacks, of the server, or none.         *)
LEMMA StepText ==
  ASSUME TypeOK, TypeOK', ParkedReader, StageInv, ReaderInv, TextInv, [Next]_vars
  PROVE  TextInv'
  <1>1. CASE SessionStep
    <2>1. CASE NextCommand
      BY <1>1, <2>1, NextCommandText
    <2>2. CASE AuthPacket
      BY <1>1, <2>2, AuthPacketText
    <2>3. CASE ResponsePacket
      BY <1>1, <2>3, ResponsePacketText
    <2>4. CASE ~(AuthPacket \/ ResponsePacket) /\ ~NextCommand
      BY <1>1, <2>4, QuietContinuations
    <2>5. QED
      BY <2>1, <2>2, <2>3, <2>4
  <1>2. CASE SessionEvent
    BY <1>2, EventText
  <1>3. CASE ServerStep
    BY <1>3, ServerText
  <1>4. CASE Done \/ UNCHANGED vars
    <2>1. UNCHANGED vars
      BY <1>4 DEF Done
    <2>2. LineKept
      <3>1. Line' = Line /\ Uncut' = Uncut
        BY <2>1 DEF vars, session, wireVars, Line, Held, InHand, Arriving, Uncut
      <3>2. QED
        BY <3>1, LineType, ShiftSame DEF LineKept
    <2>3. QuietStep
      BY <2>1, <2>2 DEF vars, session, wireVars, QuietStep
    <2>4. QED
      BY <2>3, QuietSteps
  <1>5. QED
    BY <1>1, <1>2, <1>3, <1>4 DEF Next

LEMMA AlwaysText == Spec => [](ReaderInv /\ TextInv)
  <1>1. Init => ReaderInv /\ TextInv
    BY InitText
  <1>2. TypeOK /\ TypeOK' /\ ParkedReader /\ BatchInv /\ ReaderInv /\ TextInv /\ [Next]_vars
          => (ReaderInv /\ TextInv)'
    BY ReaderSteps, StepText DEF BatchInv
  <1>3. QED
    BY <1>1, <1>2, TypeCorrect, NoLostWakeup, AlwaysBatchInv, PTL DEF Spec

(* The position of the async functions says that a command is under way.    *)
LEMMA TextMatches ==
  ASSUME TypeOK, StageInv, TextInv
  PROVE  ResponsesMatchServer /\ DelimitedIsWhole
  <1>1. \A n, chunks : PrefixOf(n, served[n], chunks) <=> PrefixOfServed(n, chunks)
    BY DEF PrefixOf, PrefixOfServed
  <1>2. \A n, chunks : WholeOf(served[n], chunks) <=> WholeOfServed(n, chunks)
    BY DEF WholeOf, WholeOfServed
  <1>3. pc \in {"responseRead", "responseReading", "responseLoop"} => current > 0
    <2>1. pc \in {"responseRead", "responseReading", "responseLoop"} => Len(results) + 1 = current
      BY DEF StageInv, Answering
    <2>2. QED
      BY <2>1, TextTypes
  <1>4. current > 0 => PrefixOf(current, served[current], reply.chunks)
    BY DEF TextInv, AnswerInv, Follows, Taken
  <1>5. ResponsesMatchServer
    BY <1>1, <1>3, <1>4 DEF ResponsesMatchServer, TextInv, ResultsInv
  <1>6. DelimitedIsWhole
    BY <1>2 DEF DelimitedIsWhole, TextInv, ResultsInv
  <1>7. QED
    BY <1>5, <1>6

(* Whatever was late, foreign, buffered or cut off, the text returned for a  *)
(* command is the beginning of what the server answered to that command      *)
(* (execute, lines 208-240).                                                 *)
THEOREM ResponsesAlwaysMatch == Spec => []ResponsesMatchServer
  <1>1. TypeOK /\ BatchInv /\ ReaderInv /\ TextInv => ResponsesMatchServer
    BY TextMatches DEF BatchInv
  <1>2. QED
    BY <1>1, TypeCorrect, AlwaysBatchInv, AlwaysText, PTL

(* A response that ended with the probe's terminator is the whole response,  *)
(* and says "truncated" exactly when the size limit cut it (lines 197-199,   *)
(* 226-239).                                                                 *)
THEOREM DelimitedAlwaysWhole == Spec => []DelimitedIsWhole
  <1>1. TypeOK /\ BatchInv /\ ReaderInv /\ TextInv => DelimitedIsWhole
    BY TextMatches DEF BatchInv
  <1>2. QED
    BY <1>1, TypeCorrect, AlwaysBatchInv, AlwaysText, PTL
=============================================================================
