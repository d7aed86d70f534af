------------------------ MODULE HelperSession_proofs ------------------------
(* Proofs about HelperSession, for every batch and every limit: the helper   *)
(* keeps the promises of CommandBatch, although a deadline may leave its     *)
(* connection in the middle of a packet.  The argument is that of            *)
(* RconSession_proofs, with blocking calls for awaits and no queue.          *)
EXTENDS HelperSession, TLAPS, SequenceTheorems, FiniteSetTheorems

Opening == {"dial", "auth", "authRead", "authFailed"}
Answering == {"probe", "probeFailed", "read", "readFailed"}
Positions == Opening \cup Answering \cup {"next", "commandFailed", "done"}

TypeInv ==
  /\ pc \in Positions /\ current \in 0..Len(Commands) /\ reply \in Replies
  /\ results \in Seq(Results) /\ granted \in BOOLEAN
  /\ written \in Seq(Requests) /\ flushed \in Seq(Requests)
  /\ toServer \in Seq(Requests) /\ stream \in Seq(Packets)

(* Only the oldest request can be the authentication, and while it waits    *)
(* access is not granted yet.                                               *)
WireInv ==
  /\ \A i \in 2..Len(toServer) : toServer[i].what # "auth"
  /\ toServer # <<>> /\ toServer[1].what = "auth" => ~granted
  /\ pc \in {"dial", "auth"} => toServer = <<>> /\ ~granted

(* Whatever says that access was granted is right.                          *)
GrantInv ==
  /\ \A i \in 1..Len(stream) : Accepts(stream[i]) => granted
  /\ pc \in Answering \cup {"next", "commandFailed"} => granted

StageInv ==
  /\ pc # "done" => outcome = "pending" /\ CommandsIn(written) = current
  /\ pc \in Opening \cup {"next"} => Len(results) = current
  /\ pc \in Answering \cup {"commandFailed"} => Len(results) + 1 = current
  /\ pc \in Answering =>
       \E i \in 1..Len(flushed) : flushed[i] = Request("command", current)
  /\ DispatchedMeansWritten

Inv == TypeInv /\ WireInv /\ GrantInv /\ StageInv

-----------------------------------------------------------------------------
(* Facts about requests, results and packets.                                *)

(* The records execute() returns are results.                               *)
LEMMA ReplyKindType ==
  ASSUME NEW r \in Replies, NEW by \in {"terminator", "quiet", "closed", "deadline", "probe"}
  PROVE  /\ Answer(by, r) \in Results
         /\ Dispatched(by) \in Results
  BY DEF Replies, Results, Answer, Dispatched

(* A response packet leaves the locals of execute() within the size limit.  *)
LEMMA AccumulateType ==
  ASSUME NEW r \in Replies, NEW p \in Packets
  PROVE  Accumulate(r, p) \in Replies
  <1> DEFINE available == ResponseLimit - r.bytes
             take == IF p.size < available THEN p.size ELSE available
             chunk == [id |-> p.id, part |-> p.part, take |-> take]
  <1>1. /\ r.bytes \in 0..ResponseLimit /\ r.chunks \in Seq(Chunks)
        /\ r.truncated \in BOOLEAN
    BY DEF Replies
  <1>2. p.size \in Nat /\ p.id \in Int /\ p.part \in Nat
    BY DEF Packets
  <1>3. take \in Nat /\ r.bytes + take \in 0..ResponseLimit
    BY <1>1, <1>2, ResponseAssumption
  <1>4. chunk \in Chunks
    BY <1>2, <1>3 DEF Chunks
  <1>5. (IF take = 0 THEN r.chunks ELSE Append(r.chunks, chunk)) \in Seq(Chunks)
    <2> HIDE DEF chunk, take
    <2> QED
      BY <1>1, <1>4
  <1> QED
    BY <1>1, <1>3, <1>5 DEF Accumulate, Room, Replies

(* A command adds one to the commands of a sequence of requests.            *)
LEMMA CommandsInFacts ==
  ASSUME NEW requests \in Seq(Requests), NEW r \in Requests
  PROVE  /\ CommandsIn(requests) \in Nat
         /\ r.what = "command" => CommandsIn(Append(requests, r)) = CommandsIn(requests) + 1
         /\ r.what # "command" => CommandsIn(Append(requests, r)) = CommandsIn(requests)
  <1> DEFINE longer == Append(requests, r)
             old == {i \in 1..Len(requests) : requests[i].what = "command"}
             new == {i \in 1..Len(longer) : longer[i].what = "command"}
  <1>1. /\ Len(longer) = Len(requests) + 1 /\ longer[Len(requests) + 1] = r
        /\ \A i \in 1..Len(requests) : longer[i] = requests[i]
        /\ Len(requests) \in Nat
    OBVIOUS
  <1>2. IsFiniteSet(old) /\ Cardinality(old) \in Nat
    <2>1. IsFiniteSet(1..Len(requests))
      BY <1>1, FS_Interval
    <2>2. QED
      BY <2>1, FS_Subset, FS_CardinalityType
  <1>3. /\ new = IF r.what = "command" THEN old \cup {Len(requests) + 1} ELSE old
        /\ Len(requests) + 1 \notin old
    <2> HIDE DEF longer
    <2>1. QED
      BY <1>1
  <1>4. Cardinality(old \cup {Len(requests) + 1}) = Cardinality(old) + 1
    BY <1>2, <1>3, FS_AddElement
  <1>5. CommandsIn(requests) = Cardinality(old) /\ CommandsIn(longer) = Cardinality(new)
    BY DEF CommandsIn
  <1> HIDE DEF old, new, longer
  <1>6. QED
    <2>1. CommandsIn(longer) = IF r.what = "command" THEN Cardinality(old) + 1
                                                      ELSE Cardinality(old)
      BY <1>3, <1>4, <1>5
    <2>2. QED
      BY <1>2, <1>5, <2>1 DEF longer

(* Adding a result adds its kind.                                           *)
LEMMA KindsFacts ==
  ASSUME NEW list \in Seq(Results), NEW result \in Results
  PROVE  /\ KindsOf(Append(list, result)) = Append(KindsOf(list), result.kind)
         /\ Len(KindsOf(list)) = Len(list) /\ Len(list) \in Nat
  <1> DEFINE longer == Append(list, result)
  <1>1. /\ Len(longer) = Len(list) + 1 /\ longer[Len(list) + 1] = result
        /\ \A n \in 1..Len(list) : longer[n] = list[n]
        /\ Len(list) \in Nat
    OBVIOUS
  <1>2. /\ KindsOf(list) \in Seq({"answer", "dispatched"}) /\ Len(KindsOf(list)) = Len(list)
        /\ \A n \in 1..Len(list) : KindsOf(list)[n] = list[n].kind
    <2>10. \A n \in 1..Len(list) : list[n].kind \in {"answer", "dispatched"}
      <3>1. \A n \in 1..Len(list) : list[n] \in Results
        BY ElementOfSeq
      <3>2. \A one \in Results : one.kind \in {"answer", "dispatched"}
        BY DEF Results
      <3>3. QED
        BY <3>1, <3>2
    <2>1. KindsOf(list) \in [1..Len(list) -> {"answer", "dispatched"}]
      BY <2>10 DEF KindsOf
    <2>2. KindsOf(list) \in Seq({"answer", "dispatched"})
      BY <1>1, <2>1, SeqDef
    <2>3. DOMAIN KindsOf(list) = 1..Len(list)
      BY <2>1
    <2>4. Len(KindsOf(list)) = Len(list)
      BY <1>1, <2>2, <2>3, LenProperties
    <2>5. QED
      BY <2>2, <2>4 DEF KindsOf
  <1> HIDE DEF longer
  <1>3. KindsOf(longer) = Append(KindsOf(list), result.kind)
    <2>1. KindsOf(longer) = [n \in 1..(Len(list) + 1) |-> longer[n].kind]
      BY <1>1 DEF KindsOf
    <2>2. Append(KindsOf(list), result.kind) =
            [n \in 1..(Len(list) + 1) |->
               IF n = Len(list) + 1 THEN result.kind ELSE list[n].kind]
      BY <1>1, <1>2
    <2>3. QED
      BY <1>1, <2>1, <2>2
  <1>4. QED
    BY <1>1, <1>2, <1>3 DEF longer

(* Of the server's packets only its own acceptance grants access.            *)
LEMMA PacketFacts ==
  /\ \A p \in {Malformed, Empty(Foreign), Terminator(Foreign)} : p \in Packets /\ ~Accepts(p)
  /\ \A id \in Nat : /\ Empty(id) \in Packets /\ ~Accepts(Empty(id))
                     /\ Terminator(id) \in Packets /\ ~Accepts(Terminator(id))
  /\ \A id, size, part \in Nat : /\ Fragment(id, size, part) \in Packets
                                 /\ ~Accepts(Fragment(id, size, part))
  /\ \A accept \in BOOLEAN :
       /\ AuthReply(IF accept THEN 0 ELSE Rejection) \in Packets
       /\ Accepts(AuthReply(IF accept THEN 0 ELSE Rejection)) => accept
  <1> USE DEF Packet, Packets, Foreign, Rejection, Accepts
  <1>1. Malformed \in Packets /\ ~Accepts(Malformed)
    BY DEF Malformed
  <1>2. \A id \in Int : /\ Empty(id) \in Packets /\ ~Accepts(Empty(id))
                       /\ Terminator(id) \in Packets /\ ~Accepts(Terminator(id))
    BY DEF Empty, Terminator
  <1>3. \A id, size, part \in Nat : /\ Fragment(id, size, part) \in Packets
                                   /\ ~Accepts(Fragment(id, size, part))
    BY DEF Fragment
  <1>4. \A accept \in BOOLEAN :
          /\ AuthReply(IF accept THEN 0 ELSE Rejection) \in Packets
          /\ Accepts(AuthReply(IF accept THEN 0 ELSE Rejection)) => accept
    BY DEF AuthReply
  <1>5. Foreign \in Int
    OBVIOUS
  <1> HIDE DEF Packet, Packets, Foreign, Rejection, Accepts
  <1>6. QED
    BY <1>1, <1>2, <1>3, <1>4, <1>5

LEMMA RequestFacts ==
  \A n \in Nat : /\ \A what \in {"auth", "command", "probe"} : Request(what, n) \in Requests
                 /\ \A what \in {"auth", "command", "probe"} : Request(what, n).what = what
  BY DEF Request, Requests

(* What is left of a stream tells no more than the stream.                  *)
LEMMA RestFacts ==
  ASSUME NEW list \in Seq(Packets), NEW n \in 0..Len(list)
  PROVE  LET rest == SubSeq(list, n + 1, Len(list)) IN
         /\ rest \in Seq(Packets)
         /\ \A i \in 1..Len(rest) : i + n \in 1..Len(list) /\ rest[i] = list[i + n]
  <1> DEFINE rest == SubSeq(list, n + 1, Len(list))
  <1>1. Len(list) \in Nat /\ n \in Nat /\ \A i \in (n + 1)..Len(list) : list[i] \in Packets
    BY ElementOfSeq
  <1>2. /\ rest \in Seq(Packets)
        /\ Len(rest) = IF n + 1 <= Len(list) THEN Len(list) - (n + 1) + 1 ELSE 0
        /\ \A i \in 1..(Len(list) - (n + 1) + 1) : rest[i] = list[(n + 1) + i - 1]
    BY <1>1, SubSeqProperties
  <1> HIDE DEF rest
  <1>3. \A i \in 1..Len(rest) : i + n \in 1..Len(list) /\ rest[i] = list[i + n]
    BY <1>1, <1>2
  <1>4. QED
    BY <1>2, <1>3 DEF rest

-----------------------------------------------------------------------------
(* What the kinds of steps do to the stage and to the abstract batch.       *)

(* A step that only moves on.                                               *)
LEMMA Moved ==
  ASSUME TypeInv, StageInv, UNCHANGED <<results, outcome, current, granted>>,
         \/ flushed' = flushed
         \/ \E r \in Requests : flushed' = Append(flushed, r),
         CommandsIn(written') = CommandsIn(written), pc # "done",
         \/ pc' = pc
         \/ pc \in Opening /\ pc' \in Opening \cup {"next"}
         \/ pc \in Answering /\ pc' \in Answering
  PROVE  StageInv' /\ UNCHANGED Batch!vars
  <1>1. \A i \in 1..Len(flushed) : i \in 1..Len(flushed') /\ flushed'[i] = flushed[i]
    BY DEF TypeInv
  <1>2. DispatchedMeansWritten'
    BY <1>1 DEF StageInv, DispatchedMeansWritten, IsTransition
  <1>3. QED
    BY <1>1, <1>2 DEF TypeInv, StageInv, Opening, Answering, Batch!vars

(* A failure of the batch.                                                  *)
LEMMA Thrown ==
  ASSUME StageInv, NEW code, code \notin {"pending", "ok"}, Throw(code), pc # "done",
         UNCHANGED <<written, granted, flushed>>
  PROVE  StageInv' /\ Batch!Next
  <1>1. outcome = "pending" /\ Verdict(outcome') = "failed"
    BY DEF StageInv, Throw, Finish, Verdict
  <1>2. Batch!Abandon
    BY <1>1 DEF Batch!Abandon, Verdict, Throw
  <1>3. StageInv'
    BY DEF StageInv, Throw, Finish, DispatchedMeansWritten, Opening, Answering
  <1>4. QED
    BY <1>2, <1>3 DEF Batch!Next

(* The reply of a command.                                                  *)
LEMMA Replied ==
  ASSUME TypeInv, StageInv, NEW result \in Results, pc \in Answering, Return(result),
         result.kind = "dispatched" => IsTransition(current),
         UNCHANGED <<current, written, granted, flushed>>
  PROVE  StageInv' /\ Batch!Next
  <1>1. /\ results \in Seq(Results) /\ current \in 0..Len(Commands)
        /\ outcome = "pending" /\ Len(results) + 1 = current
        /\ CommandsIn(written) = current
        /\ results' = Append(results, result) /\ pc' = "next" /\ outcome' = outcome
    BY DEF TypeInv, StageInv, Answering, Return
  <1>2. /\ KindsOf(results') = Append(KindsOf(results), result.kind)
        /\ Len(KindsOf(results)) = Len(results)
    BY <1>1, KindsFacts
  <1>3. result.kind \in {"answer", "dispatched"}
    BY DEF Results
  <1>4. Batch!Reply(result.kind)
    BY <1>1, <1>2 DEF Batch!Reply, Verdict, IsTransition
  <1>5. Batch!Next
    BY <1>3, <1>4 DEF Batch!Next, Batch!ReplyKinds
  <1>6. /\ Len(results') = Len(results) + 1 /\ results'[Len(results) + 1] = result
        /\ \A n \in 1..Len(results) : results'[n] = results[n]
    BY <1>1
  <1>7. DispatchedMeansWritten'
    BY <1>1, <1>6 DEF DispatchedMeansWritten, StageInv, IsTransition
  <1>8. StageInv'
    BY <1>1, <1>6, <1>7 DEF StageInv, Opening, Answering
  <1>9. QED
    BY <1>5, <1>8

-----------------------------------------------------------------------------
(* A write is counted when it begins and reaches the server if it ends.      *)
LEMMA WriteFacts ==
  ASSUME TypeInv, NEW request \in Requests, NEW next, NEW failed, Write(request, next, failed)
  PROVE  /\ written' = Append(written, request)
         /\ UNCHANGED <<outcome, results>>
         /\ \/ /\ pc' = next /\ flushed' = Append(flushed, request)
               /\ toServer' = Append(toServer, request)
            \/ pc' = failed /\ UNCHANGED <<flushed, toServer>>
         /\ written' \in Seq(Requests) /\ flushed' \in Seq(Requests)
         /\ toServer' \in Seq(Requests)
  <1>1. /\ written' = Append(written, request) /\ UNCHANGED <<outcome, results>>
        /\ \/ /\ pc' = next /\ flushed' = Append(flushed, request)
              /\ toServer' = Append(toServer, request)
           \/ pc' = failed /\ UNCHANGED <<flushed, toServer>>
    BY DEF Write, GoTo
  <1>2. /\ Append(written, request) \in Seq(Requests) /\ Append(flushed, request) \in Seq(Requests)
        /\ Append(toServer, request) \in Seq(Requests)
    BY DEF TypeInv
  <1>3. QED
    BY <1>1, <1>2 DEF TypeInv

LEMMA ReadFacts ==
  ASSUME TypeInv, NEW error, ReadFails(error), pc \in Reading
  PROVE  /\ UNCHANGED <<outcome, results, reply, current, written, flushed, toServer>>
         /\ \/ pc = "authRead" /\ pc' = "authFailed"
            \/ pc = "read" /\ pc' = "readFailed"
  BY DEF ReadFails, GoTo, noWrites, Reading

LEMMA ResultTypes ==
  ASSUME TypeInv
  PROVE  \A by \in {"terminator", "quiet", "closed", "deadline", "probe"} :
           /\ Answer(by, reply) \in Results /\ Answer(by, reply).kind = "answer"
           /\ Dispatched(by) \in Results
  BY ReplyKindType DEF TypeInv, Answer

LEMMA FailureCodes ==
  \A stage \in {"AUTH_TIMEOUT", "RESPONSE_TIMEOUT"} : SocketFailure(stage) \notin {"pending", "ok"}
  BY DEF SocketFailure

(* The goroutine's steps, one kind at a time.                                *)
LEMMA DialStep ==
  ASSUME TypeInv, StageInv, Dial, granted' = granted
  PROVE  StageInv' /\ [Batch!Next]_(Batch!vars)
  <1>1. UNCHANGED <<current, written, flushed>> /\ pc = "dial"
    BY DEF Dial
  <1>2. CASE \E code \in {"REQUEST_TIMEOUT", "CONNECT_FAILED", "CONNECT_TIMEOUT"} : Throw(code)
    BY <1>1, <1>2, Thrown
  <1>3. CASE pc' = "auth" /\ UNCHANGED <<outcome, results>>
    BY <1>1, <1>3, Moved DEF Opening
  <1>4. QED
    BY <1>2, <1>3 DEF Dial

LEMMA OtherWriteStep ==
  ASSUME TypeInv, StageInv, SendAuth \/ SendProbe, granted' = granted
  PROVE  StageInv' /\ [Batch!Next]_(Batch!vars)
  <1>1. PICK request \in Requests :
          /\ request.what # "command" /\ current' = current
          /\ \/ pc = "auth" /\ Write(request, "authRead", "authFailed")
             \/ pc = "probe" /\ Write(request, "read", "probeFailed")
    <2>1. Request("auth", 0) \in Requests /\ Request("auth", 0).what # "command"
      BY RequestFacts
    <2>2. Request("probe", current) \in Requests /\ Request("probe", current).what # "command"
      BY RequestFacts, BatchAssumption DEF TypeInv
    <2>3. QED
      BY <2>1, <2>2 DEF SendAuth, SendProbe
  <1>2. /\ written' = Append(written, request) /\ UNCHANGED <<outcome, results>>
        /\ flushed' = flushed \/ flushed' = Append(flushed, request)
        /\ \/ pc = "auth" /\ pc' \in {"authRead", "authFailed"}
           \/ pc = "probe" /\ pc' \in {"read", "probeFailed"}
    BY <1>1, WriteFacts
  <1>3. CommandsIn(written') = CommandsIn(written)
    BY <1>1, <1>2, CommandsInFacts DEF TypeInv
  <1>4. QED
    BY <1>1, <1>2, <1>3, Moved DEF Opening, Answering

LEMMA NextCommandStep ==
  ASSUME TypeInv, StageInv, GrantInv, NextCommand, granted' = granted
  PROVE  StageInv' /\ [Batch!Next]_(Batch!vars)
  <1>1. granted /\ pc = "next" /\ current' = current + 1 /\ current < Len(Commands)
    BY DEF NextCommand, GrantInv
  <1>2. CASE UNCHANGED <<written, flushed>> /\ Throw("COMMAND_TOO_LONG")
    BY <1>1, <1>2, Thrown
  <1>3. CASE /\ Commands[current + 1] # "oversized"
             /\ Write(Request("command", current + 1), "probe", "commandFailed")
    <2> DEFINE request == Request("command", current + 1)
    <2>1. request \in Requests /\ request.what = "command"
      BY RequestFacts DEF TypeInv
    <2>2. /\ written' = Append(written, request) /\ UNCHANGED <<outcome, results>>
          /\ \/ pc' = "probe" /\ flushed' = Append(flushed, request)
             \/ pc' = "commandFailed" /\ UNCHANGED flushed
      BY <1>3, <2>1, WriteFacts
    <2>3. CommandsIn(written') = CommandsIn(written) + 1
      BY <2>1, <2>2, CommandsInFacts DEF TypeInv
    <2>4. /\ outcome = "pending" /\ CommandsIn(written) = current /\ Len(results) = current
          /\ Len(KindsOf(results)) = Len(results)
      BY <1>1, KindsFacts DEF StageInv, KindsOf
    <2>5. Batch!Issue
      BY <1>1, <1>3, <2>2, <2>3, <2>4 DEF Batch!Issue, Verdict
    <2>6. /\ Len(flushed) \in Nat
          /\ \A i \in 1..Len(flushed) : i \in 1..Len(flushed') /\ flushed'[i] = flushed[i]
          /\ pc' = "probe" => /\ Len(flushed) + 1 \in 1..Len(flushed')
                              /\ flushed'[Len(flushed) + 1] = request
      <3>1. flushed \in Seq(Requests)
        BY DEF TypeInv
      <3>2. /\ Len(Append(flushed, request)) = Len(flushed) + 1 /\ Len(flushed) \in Nat
            /\ Append(flushed, request)[Len(flushed) + 1] = request
            /\ \A i \in 1..Len(flushed) : Append(flushed, request)[i] = flushed[i]
        BY <2>1, <3>1, AppendProperties
      <3> HIDE DEF request
      <3>3. QED
        BY <2>2, <3>2
    <2>7. DispatchedMeansWritten'
      BY <2>2, <2>6 DEF StageInv, DispatchedMeansWritten, IsTransition
    <2>8. pc' \in {"probe", "commandFailed"}
      BY <2>2
    <2>9. StageInv'
      BY <1>1, <2>2, <2>3, <2>4, <2>6, <2>7, <2>8 DEF StageInv, Opening, Answering
    <2>10. QED
      BY <2>5, <2>9 DEF Batch!Next
  <1>4. QED
    BY <1>2, <1>3 DEF NextCommand

LEMMA BatchEndStep ==
  ASSUME TypeInv, StageInv, GrantInv, BatchEnd, granted' = granted
  PROVE  StageInv' /\ [Batch!Next]_(Batch!vars)
  <1>1. /\ granted /\ outcome = "pending" /\ Len(results) = Len(Commands)
        /\ Len(KindsOf(results)) = Len(results)
    BY KindsFacts DEF BatchEnd, GrantInv, StageInv, KindsOf
  <1>2. pc' = "done" /\ outcome' = "ok" /\ UNCHANGED <<results, written, flushed>>
    BY DEF BatchEnd, Throw, Finish
  <1>3. Batch!Complete
    BY <1>1, <1>2 DEF Batch!Complete, Verdict
  <1>4. StageInv'
    BY <1>2 DEF StageInv, Opening, Answering, DispatchedMeansWritten
  <1>5. QED
    BY <1>3, <1>4 DEF Batch!Next

LEMMA HandleStep ==
  ASSUME TypeInv, StageInv, pc \in Reading, NEW p \in Packets, Handle(p), granted' = granted
  PROVE  StageInv' /\ [Batch!Next]_(Batch!vars)
  <1>1. UNCHANGED <<current, written, flushed>> /\ pc # "done"
    BY DEF Handle, noWrites, Reading
  <1>2. CASE Throw("AUTH_FAILED")
    BY <1>1, <1>2, Thrown
  <1>3. CASE GoTo(pc) \/ (pc = "authRead" /\ GoTo("next"))
    BY <1>1, <1>3, Moved DEF GoTo, Opening
  <1>4. CASE pc = "read" /\ Return(Answer("terminator", reply))
    BY <1>1, <1>4, ResultTypes, Replied DEF Answering
  <1>5. \/ Throw("AUTH_FAILED") \/ GoTo(pc)
        \/ pc = "authRead" /\ GoTo("next")
        \/ pc = "read" /\ Return(Answer("terminator", reply))
    BY DEF Handle, Reading
  <1>6. QED
    BY <1>2, <1>3, <1>4, <1>5

LEMMA ReadSteps ==
  ASSUME TypeInv, StageInv, ReadPacket \/ ReadRest \/ ReadExpires \/ ReadEnds,
         granted' = granted
  PROVE  StageInv' /\ [Batch!Next]_(Batch!vars)
  <1>1. pc \in Reading /\ pc # "done"
    BY DEF ReadPacket, ReadRest, ReadExpires, ReadEnds, Reading
  <1>2. ASSUME NEW error, ReadFails(error)
        PROVE  StageInv' /\ [Batch!Next]_(Batch!vars)
    <2>1. /\ UNCHANGED <<outcome, results, current, written, flushed>>
          /\ \/ pc = "authRead" /\ pc' = "authFailed"
             \/ pc = "read" /\ pc' = "readFailed"
      BY <1>1, <1>2, ReadFacts
    <2>2. QED
      BY <1>1, <2>1, Moved DEF Opening, Answering
  <1>3. ASSUME GoTo(pc), UNCHANGED noWrites
        PROVE  StageInv' /\ [Batch!Next]_(Batch!vars)
    BY <1>1, <1>3, Moved DEF GoTo, noWrites
  <1>4. CASE ReadPacket
    <2>1. Head(stream) \in Packets
      BY <1>4, HeadTailProperties DEF ReadPacket, TypeInv
    <2>2. QED
      BY <1>1, <1>2, <1>4, <2>1, HandleStep DEF ReadPacket
  <1>5. CASE ReadRest
    BY <1>2, <1>3, <1>5 DEF ReadRest
  <1>6. CASE ReadExpires \/ ReadEnds
    BY <1>2, <1>6 DEF ReadExpires, ReadEnds
  <1>7. QED
    BY <1>4, <1>5, <1>6

LEMMA FailureSteps ==
  ASSUME TypeInv, StageInv, WriteFailed \/ ReadFailed, granted' = granted
  PROVE  StageInv' /\ [Batch!Next]_(Batch!vars)
  <1>1. UNCHANGED <<current, written, flushed>> /\ pc # "done"
    BY DEF WriteFailed, ReadFailed, noWrites
  <1>2. ASSUME NEW stage \in {"AUTH_TIMEOUT", "RESPONSE_TIMEOUT"}, Throw(SocketFailure(stage))
        PROVE  StageInv' /\ [Batch!Next]_(Batch!vars)
    BY <1>1, <1>2, FailureCodes, Thrown
  <1>3. CASE WriteFailed
    <2>1. CASE Dispatches /\ Return(Dispatched("probe"))
      BY <1>1, <2>1, ResultTypes, Replied DEF Dispatches, Answering
    <2>2. QED
      BY <1>2, <1>3, <2>1 DEF WriteFailed
  <1>4. CASE ReadFailed
    <2>1. pc \in Answering
      BY <1>4 DEF ReadFailed, Answering
    <2>2. \/ \E by \in {"quiet", "closed"} : Return(Answer(by, reply))
          \/ IsTransition(current) /\ \E by \in {"quiet", "closed"} : Return(Dispatched(by))
          \/ Throw(SocketFailure("RESPONSE_TIMEOUT"))
      BY <1>4 DEF ReadFailed
    <2>3. QED
      BY <1>1, <1>2, <2>1, <2>2, ResultTypes, Replied
  <1>5. QED
    BY <1>3, <1>4

-----------------------------------------------------------------------------
(* What ends a response.                                                    *)
Ends(p) == p.type = "value" /\ p.term /\ p.id >= 0

(* Fragments of one command come in order and after nothing else of it, what *)
(* ends a response follows the empty packet of its probe, and what has text  *)
(* is a fragment or an end.                                                  *)
Ordered(line) ==
  \A i, j \in 1..Len(line) :
    i < j /\ line[i].id = line[j].id /\ line[j].part > 0 => line[i].part < line[j].part
Preceded(line) ==
  \A i \in 2..Len(line) :
    Ends(line[i]) => /\ line[i - 1].type = "value" /\ line[i - 1].id = line[i].id
                     /\ line[i - 1].size = 0 /\ ~line[i - 1].term
Shaped(line) ==
  \A i \in 1..Len(line) :
    line[i].type = "value" /\ line[i].size > 0 /\ line[i].part = 0 => line[i].term
Coherent(line) == Ordered(line) /\ Preceded(line) /\ Shaped(line)

(* What is left of a coherent stream is coherent.                           *)
LEMMA CoherentRest ==
  ASSUME NEW line \in Seq(Packets), NEW rest \in Seq(Packets), NEW n \in 0..Len(line),
         Len(rest) = Len(line) - n, \A i \in 1..Len(rest) : rest[i] = line[i + n],
         Coherent(line)
  PROVE  Coherent(rest)
  <1>1. Len(line) \in Nat /\ n \in Nat /\ \A i \in 1..Len(rest) : i + n \in 1..Len(line)
    OBVIOUS
  <1>2. Ordered(rest)
    <2>1. SUFFICES ASSUME NEW i \in 1..Len(rest), NEW j \in 1..Len(rest),
                          i < j, rest[i].id = rest[j].id, rest[j].part > 0
                   PROVE  rest[i].part < rest[j].part
      BY DEF Ordered
    <2>2. /\ rest[i] = line[i + n] /\ i + n \in 1..Len(line)
          /\ rest[j] = line[j + n] /\ j + n \in 1..Len(line)
      BY <1>1
    <2>3. i + n < j + n
      BY <1>1, <2>1
    <2>4. QED
      BY <2>1, <2>2, <2>3 DEF Coherent, Ordered
  <1>3. Preceded(rest)
    <2>1. SUFFICES ASSUME NEW i \in 2..Len(rest), Ends(rest[i])
                   PROVE  /\ rest[i - 1].type = "value" /\ rest[i - 1].id = rest[i].id
                          /\ rest[i - 1].size = 0 /\ ~rest[i - 1].term
      BY DEF Preceded
    <2>2. /\ i \in 1..Len(rest) /\ i - 1 \in 1..Len(rest) /\ i + n \in 2..Len(line)
          /\ (i - 1) + n = (i + n) - 1
      BY <1>1
    <2>3. rest[i] = line[i + n] /\ rest[i - 1] = line[(i + n) - 1]
      BY <2>2
    <2>4. QED
      BY <2>1, <2>2, <2>3 DEF Coherent, Preceded
  <1>4. Shaped(rest)
    BY <1>1 DEF Coherent, Shaped
  <1>5. QED
    BY <1>2, <1>3, <1>4 DEF Coherent

(* Packets that continue a coherent stream.                                 *)
LEMMA CoherentConcat ==
  ASSUME NEW line \in Seq(Packets), NEW news \in Seq(Packets),
         Coherent(line), Coherent(news), news # <<>> => ~Ends(news[1]),
         \A i \in 1..Len(line), j \in 1..Len(news) :
           line[i].id = news[j].id /\ news[j].part > 0 => line[i].part < news[j].part
  PROVE  Coherent(line \o news)
  <1> DEFINE all == line \o news
  <1>1. /\ all \in Seq(Packets) /\ Len(all) = Len(line) + Len(news)
        /\ Len(line) \in Nat /\ Len(news) \in Nat
        /\ \A i \in 1..Len(line) + Len(news) :
              all[i] = IF i <= Len(line) THEN line[i] ELSE news[i - Len(line)]
    BY ConcatProperties
  <1> HIDE DEF all
  <1>2. /\ \A i \in 1..Len(line) : i \in 1..Len(all) /\ all[i] = line[i]
        /\ \A i \in (Len(line) + 1)..Len(all) :
             i - Len(line) \in 1..Len(news) /\ all[i] = news[i - Len(line)]
    BY <1>1
  <1>3. Ordered(all)
    <2>1. SUFFICES ASSUME NEW i \in 1..Len(all), NEW j \in 1..Len(all),
                          i < j, all[i].id = all[j].id, all[j].part > 0
                   PROVE  all[i].part < all[j].part
      BY DEF Ordered
    <2>2. CASE j <= Len(line)
      <3>1. i \in 1..Len(line) /\ j \in 1..Len(line)
        BY <1>1, <2>1, <2>2
      <3>2. QED
        BY <1>2, <2>1, <3>1 DEF Coherent, Ordered
    <2>3. CASE i <= Len(line) /\ Len(line) < j
      <3>1. i \in 1..Len(line) /\ j \in (Len(line) + 1)..Len(all)
        BY <1>1, <2>3
      <3>2. all[i] = line[i] /\ all[j] = news[j - Len(line)] /\ j - Len(line) \in 1..Len(news)
        BY <1>2, <3>1
      <3>3. QED
        BY <2>1, <3>1, <3>2
    <2>4. CASE Len(line) < i
      <3>1. /\ i \in (Len(line) + 1)..Len(all) /\ j \in (Len(line) + 1)..Len(all)
            /\ i - Len(line) < j - Len(line)
        BY <1>1, <2>1, <2>4
      <3>2. /\ all[i] = news[i - Len(line)] /\ i - Len(line) \in 1..Len(news)
            /\ all[j] = news[j - Len(line)] /\ j - Len(line) \in 1..Len(news)
        BY <1>2, <3>1
      <3>3. QED
        BY <2>1, <3>1, <3>2 DEF Coherent, Ordered
    <2>5. QED
      BY <1>1, <2>2, <2>3, <2>4
  <1>4. Preceded(all)
    <2>1. SUFFICES ASSUME NEW i \in 2..Len(all), Ends(all[i])
                   PROVE  /\ all[i - 1].type = "value" /\ all[i - 1].id = all[i].id
                          /\ all[i - 1].size = 0 /\ ~all[i - 1].term
      BY DEF Preceded
    <2>2. CASE i <= Len(line)
      <3>1. i \in 2..Len(line) /\ i \in 1..Len(line) /\ i - 1 \in 1..Len(line)
        BY <1>1, <2>2
      <3>2. all[i] = line[i] /\ all[i - 1] = line[i - 1]
        BY <1>2, <3>1
      <3>3. QED
        BY <2>1, <3>1, <3>2 DEF Coherent, Preceded
    <2>3. CASE i = Len(line) + 1
      <3>1. i \in (Len(line) + 1)..Len(all) /\ i - Len(line) = 1
        BY <1>1, <2>3
      <3>2. all[i] = news[1] /\ 1 \in 1..Len(news)
        BY <1>2, <3>1
      <3>3. news # <<>>
        BY <3>2
      <3>4. QED
        BY <2>1, <3>2, <3>3
    <2>4. CASE Len(line) + 1 < i
      <3>1. /\ i \in (Len(line) + 1)..Len(all) /\ i - 1 \in (Len(line) + 1)..Len(all)
            /\ (i - 1) - Len(line) = (i - Len(line)) - 1
            /\ i - Len(line) \in 2..Len(news)
        BY <1>1, <2>1, <2>4
      <3>2. all[i] = news[i - Len(line)] /\ all[i - 1] = news[(i - Len(line)) - 1]
        BY <1>2, <3>1
      <3>3. QED
        BY <2>1, <3>1, <3>2 DEF Coherent, Preceded
    <2>5. QED
      BY <1>1, <2>2, <2>3, <2>4
  <1>5. Shaped(all)
    <2>1. \A i \in 1..Len(all) : i \in 1..Len(line) \/ i \in (Len(line) + 1)..Len(all)
      BY <1>1
    <2>2. QED
      BY <1>2, <2>1 DEF Coherent, Shaped
  <1>6. QED
    BY <1>3, <1>4, <1>5 DEF Coherent, all

(* What the server sends answers the oldest request, and only a command with *)
(* text.                                                                     *)
Answers(news) ==
  /\ Coherent(news)
  /\ news # <<>> => ~Ends(news[1])
  /\ \A i \in 1..Len(news) :
       /\ Accepts(news[i]) => granted'
       /\ news[i].part > 0 => /\ toServer # <<>> /\ toServer' = Tail(toServer)
                              /\ Head(toServer).what = "command"
                              /\ news[i].id = Head(toServer).id

LEMMA ServerNews ==
  ASSUME Inv, ServerStep
  PROVE  \E news \in Seq(Packets) : stream' = stream \o news /\ Answers(news)
  <1>1. toServer # <<>> => Head(toServer).id \in Nat
    <2>1. toServer # <<>> => Head(toServer) \in Requests
      BY HeadTailProperties DEF Inv, TypeInv
    <2>2. QED
      BY <2>1 DEF Requests
  <1>2. stream \in Seq(Packets)
    BY DEF Inv, TypeInv
  <1>3. ASSUME NEW p \in Packets, NEW q \in Packets, p.part = 0, q.part = 0, ~Ends(p),
               p.size = 0, Accepts(p) => granted', Accepts(q) => granted',
               \/ ~Ends(q) /\ q.size = 0
               \/ q.term /\ p.type = "value" /\ p.id = q.id /\ ~p.term
        PROVE  <<p, q>> \in Seq(Packets) /\ Answers(<<p, q>>)
    <2> DEFINE news == <<p, q>>
    <2>1. news \in Seq(Packets) /\ Len(news) = 2 /\ news[1] = p /\ news[2] = q
      OBVIOUS
    <2> HIDE DEF news
    <2>2. \A i \in 1..Len(news) : (i = 1 /\ news[i] = p) \/ (i = 2 /\ news[i] = q)
      BY <2>1
    <2>3. Ordered(news) /\ Shaped(news)
      BY <1>3, <2>2 DEF Ordered, Shaped
    <2>4. Preceded(news)
      <3>1. \A i \in 2..Len(news) : i = 2
        BY <2>1
      <3>2. Ends(news[2]) => /\ news[2 - 1].type = "value" /\ news[2 - 1].id = news[2].id
                             /\ news[2 - 1].size = 0 /\ ~news[2 - 1].term
        BY <1>3, <2>1
      <3>3. QED
        BY <3>1, <3>2 DEF Preceded
    <2>5. Answers(news)
      BY <1>3, <2>1, <2>2, <2>3, <2>4 DEF Answers, Coherent
    <2>6. QED
      BY <2>1, <2>5 DEF news
  <1>4. CASE ServerAuth
    <2>1. PICK accept \in BOOLEAN :
            /\ granted' = accept
            /\ stream' = stream \o <<Empty(0), AuthReply(IF accept THEN 0 ELSE Rejection)>>
      BY <1>4 DEF ServerAuth
    <2> DEFINE verdict == AuthReply(IF accept THEN 0 ELSE Rejection)
    <2>2. /\ Empty(0) \in Packets /\ verdict \in Packets
          /\ ~Accepts(Empty(0)) /\ (Accepts(verdict) => granted')
      BY <2>1, PacketFacts
    <2>3. /\ Empty(0).part = 0 /\ ~Ends(Empty(0)) /\ Empty(0).size = 0
          /\ verdict.part = 0 /\ ~Ends(verdict) /\ verdict.size = 0
      BY DEF Empty, AuthReply, Packet, Ends
    <2> HIDE DEF verdict
    <2>4. <<Empty(0), verdict>> \in Seq(Packets) /\ Answers(<<Empty(0), verdict>>)
      BY <1>3, <2>2, <2>3
    <2>5. QED
      BY <2>1, <2>4 DEF verdict
  <1>5. CASE ServerCommand
    <2> DEFINE id == Head(toServer).id
    <2>1. PICK count \in 0..MaxFragments : \E sizes \in [1..count -> FragmentSizes] :
            stream' = stream \o [n \in 1..count |-> Fragment(id, sizes[n], n)]
      BY <1>5 DEF ServerCommand
    <2>2. PICK sizes \in [1..count -> FragmentSizes] :
            stream' = stream \o [n \in 1..count |-> Fragment(id, sizes[n], n)]
      BY <2>1
    <2> DEFINE news == [n \in 1..count |-> Fragment(id, sizes[n], n)]
    <2>3. /\ id \in Nat /\ count \in Nat /\ toServer # <<>>
          /\ Head(toServer).what = "command" /\ toServer' = Tail(toServer)
      BY <1>1, <1>5, BatchAssumption DEF ServerCommand, Takes
    <2>4. \A n \in 1..count : /\ Fragment(id, sizes[n], n) \in Packets
                              /\ ~Accepts(Fragment(id, sizes[n], n))
      <3> HIDE DEF id
      <3>1. FragmentSizes \subseteq Nat /\ \A n \in 1..count : n \in Nat
        BY <2>3, BatchAssumption
      <3>2. \A n \in 1..count : sizes[n] \in Nat
        BY <2>2, <3>1
      <3>3. QED
        BY <2>3, <3>1, <3>2, PacketFacts
    <2>5. \A n \in 1..count : /\ Fragment(id, sizes[n], n).part = n
                              /\ Fragment(id, sizes[n], n).id = id
                              /\ ~Ends(Fragment(id, sizes[n], n))
      <3> HIDE DEF id
      <3>1. QED
        BY DEF Fragment, Packet, Ends
    <2>6. /\ news \in [1..count -> Packets]
          /\ \A n \in 1..count : /\ ~Accepts(news[n]) /\ ~Ends(news[n])
                                 /\ news[n].part = n /\ news[n].id = id
      BY <2>4, <2>5
    <2>7. stream' = stream \o news
      BY <2>2
    <2> HIDE DEF news, id
    <2>8. news \in Seq(Packets) /\ Len(news) = count
      BY <2>3, <2>6
    <2>9. Coherent(news)
      <3>1. Ordered(news)
        BY <2>3, <2>6, <2>8 DEF Ordered
      <3>2. \A n \in 2..Len(news) : n \in 1..count
        BY <2>3, <2>8
      <3>3. Preceded(news)
        BY <2>6, <3>2 DEF Preceded
      <3>4. \A n \in 1..Len(news) : news[n].part # 0
        BY <2>3, <2>6, <2>8
      <3>5. QED
        BY <3>1, <3>3, <3>4 DEF Coherent, Shaped
    <2>10. news # <<>> => ~Ends(news[1])
      <3>1. news # <<>> => 1 \in 1..count
        BY <2>3, <2>8
      <3>2. QED
        BY <2>6, <3>1
    <2>11. Answers(news)
      BY <2>3, <2>6, <2>8, <2>9, <2>10 DEF Answers, id
    <2>12. QED
      BY <2>7, <2>8, <2>11
  <1>6. CASE ServerProbe
    <2> DEFINE id == Head(toServer).id
    <2>1. id \in Nat
      BY <1>1, <1>6 DEF ServerProbe, Takes
    <2>2. stream' = stream \o <<Empty(id), Terminator(id)>>
      BY <1>6 DEF ServerProbe
    <2> HIDE DEF id
    <2>3. /\ Empty(id) \in Packets /\ Terminator(id) \in Packets
          /\ ~Accepts(Empty(id)) /\ ~Accepts(Terminator(id))
      BY <2>1, PacketFacts
    <2>4. /\ Empty(id).part = 0 /\ ~Ends(Empty(id)) /\ Empty(id).size = 0
          /\ Empty(id).type = "value" /\ Empty(id).id = id /\ ~Empty(id).term
          /\ Terminator(id).part = 0 /\ Terminator(id).term /\ Terminator(id).id = id
      BY DEF Empty, Terminator, Packet, Ends
    <2>5. <<Empty(id), Terminator(id)>> \in Seq(Packets) /\ Answers(<<Empty(id), Terminator(id)>>)
      BY <1>3, <2>3, <2>4
    <2>6. QED
      BY <2>2, <2>5
  <1>7. CASE ServerIgnores
    <2> DEFINE news == <<>>
    <2>1. stream' = stream \o news /\ news \in Seq(Packets) /\ Len(news) = 0
      BY <1>2, <1>7, ConcatEmptySeq, EmptySeq DEF ServerIgnores
    <2>2. news = <<>>
      OBVIOUS
    <2> HIDE DEF news
    <2>3. Answers(news)
      BY <2>1, <2>2 DEF Answers, Coherent, Ordered, Preceded, Shaped
    <2>4. QED
      BY <2>1, <2>3
  <1>8. CASE ServerFault
    <2>1. PICK p : p \in {Malformed, Empty(Foreign), Terminator(Foreign)} /\ stream' = Append(stream, p)
      BY <1>8 DEF ServerFault
    <2>2. p \in Packets /\ ~Accepts(p)
      BY <2>1, PacketFacts
    <2>3. p.part = 0 /\ ~Ends(p) /\ (p.size > 0 => p.term)
      BY <2>1 DEF Malformed, Empty, Terminator, Packet, Ends, Foreign
    <2> DEFINE news == <<p>>
    <2>4. stream' = stream \o news
      BY <1>2, <2>1, <2>2, AppendIsConcat
    <2>5. /\ news \in Seq(Packets) /\ Len(news) = 1
          /\ \A i \in 1..Len(news) : i = 1 /\ news[i] = p
      BY <2>2
    <2> HIDE DEF news
    <2>6. Coherent(news)
      BY <2>3, <2>5 DEF Coherent, Ordered, Preceded, Shaped
    <2>7. Answers(news)
      BY <2>2, <2>3, <2>5, <2>6 DEF Answers
    <2>8. QED
      BY <2>4, <2>5, <2>7
  <1>9. QED
    BY <1>4, <1>5, <1>6, <1>7, <1>8 DEF ServerStep, ServerNext

-----------------------------------------------------------------------------
(* The game server's steps are steps of nobody, save that it grants access.  *)
LEMMA ServerSteps ==
  ASSUME Inv, ServerStep
  PROVE  Inv' /\ [Batch!Next]_(Batch!vars)
  <1>1. UNCHANGED <<pc, current, reply, results, outcome, written, flushed>>
    BY DEF ServerStep, session
  <1>2. /\ granted' \in BOOLEAN /\ (granted => granted')
        /\ [Batch!Next]_(Batch!vars)
    <2>1. CASE granted' = granted
      BY <1>1, <2>1 DEF Batch!vars, Inv, TypeInv
    <2>2. CASE granted' # granted
      <3>1. ServerAuth /\ granted' \in BOOLEAN
        BY <2>2 DEF ServerStep, ServerNext, ServerAuth, ServerCommand, ServerProbe, ServerIgnores,
           ServerFault
      <3>2. toServer # <<>> /\ toServer[1].what = "auth"
        BY <3>1 DEF ServerAuth, Takes, Inv, TypeInv
      <3>3. ~granted /\ granted'
        BY <2>2, <3>1, <3>2 DEF Inv, WireInv, TypeInv
      <3>4. Batch!Grant
        BY <1>1, <3>3 DEF Batch!Grant
      <3>5. QED
        BY <3>3, <3>4 DEF Batch!Next
    <2>3. QED
      BY <2>1, <2>2
  <1>3. stream \in Seq(Packets)
    BY DEF Inv, TypeInv
  <1>4. PICK news \in Seq(Packets) :
          /\ stream' = stream \o news
          /\ \A i \in 1..Len(news) : Accepts(news[i]) => granted'
    BY ServerNews DEF Answers
  <1>6. /\ stream' \in Seq(Packets) /\ Len(stream') = Len(stream) + Len(news)
        /\ Len(stream) \in Nat /\ Len(news) \in Nat
        /\ \A i \in 1..Len(stream) + Len(news) :
              stream'[i] = IF i <= Len(stream) THEN stream[i] ELSE news[i - Len(stream)]
    BY <1>3, <1>4, ConcatProperties
  <1>7. \A i \in 1..Len(stream') : Accepts(stream'[i]) => granted'
    <2>1. SUFFICES ASSUME NEW i \in 1..Len(stream'), Accepts(stream'[i]) PROVE granted'
      OBVIOUS
    <2>2. CASE i <= Len(stream)
      BY <1>2, <1>6, <2>1, <2>2 DEF Inv, GrantInv
    <2>3. CASE i > Len(stream)
      <3>1. i - Len(stream) \in 1..Len(news)
        BY <1>6, <2>3
      <3>2. QED
        BY <1>4, <1>6, <2>1, <2>3, <3>1
    <2>4. QED
      BY <1>6, <2>2, <2>3
  <1>8. GrantInv'
    BY <1>1, <1>2, <1>7 DEF Inv, GrantInv, Accepts
  <1>9. toServer' \in Seq(Requests) /\ WireInv'
    <2>1. CASE UNCHANGED <<toServer, granted>>
      BY <1>1, <2>1 DEF Inv, TypeInv, WireInv
    <2>2. CASE toServer # <<>> /\ toServer' = Tail(toServer)
      <3>1. /\ toServer' \in Seq(Requests) /\ Len(toServer') = Len(toServer) - 1
            /\ \A i \in 1..Len(toServer') : toServer'[i] = toServer[i + 1]
        BY <2>2 DEF Inv, TypeInv
      <3>2. \A i \in 1..Len(toServer') : toServer'[i].what # "auth"
        <4>1. Len(toServer) \in Nat
          BY DEF Inv, TypeInv
        <4>2. \A i \in 1..Len(toServer') : i + 1 \in 2..Len(toServer)
          BY <3>1, <4>1
        <4>3. QED
          BY <3>1, <4>2 DEF Inv, WireInv
      <3>3. toServer' # <<>> => toServer'[1].what # "auth"
        BY <3>1, <3>2
      <3>4. QED
        BY <1>1, <2>2, <3>1, <3>2, <3>3 DEF Inv, WireInv
    <2>3. QED
      BY <2>1, <2>2 DEF ServerStep, ServerNext, ServerAuth, ServerCommand, ServerProbe,
         ServerIgnores, ServerFault, Takes
  <1>10. StageInv'
    BY <1>1 DEF Inv, StageInv, DispatchedMeansWritten
  <1>11. QED
    BY <1>1, <1>2, <1>6, <1>8, <1>9, <1>10 DEF Inv, TypeInv

(* The network and the context change what only the goroutine looks at.      *)
LEMMA EnvironmentSteps ==
  ASSUME Inv, Environment
  PROVE  Inv' /\ UNCHANGED Batch!vars
  <1>1. /\ UNCHANGED <<pc, current, reply, results, outcome, written, flushed, toServer, granted>>
        /\ stream' = stream \/ stream' = <<>>
    BY DEF Environment, Cancel, CloseConn, PeerCloses, PeerResets
  <1>2. stream' \in Seq(Packets) /\ GrantInv'
    <2>1. CASE stream' = stream
      BY <1>1, <2>1 DEF Inv, TypeInv, GrantInv, Accepts
    <2>2. CASE stream' = <<>>
      <3>1. stream' \in Seq(Packets) /\ Len(stream') = 0
        BY <2>2, EmptySeq
      <3>2. QED
        BY <1>1, <3>1 DEF Inv, GrantInv
    <2>3. QED
      BY <1>1, <2>1, <2>2
  <1>3. QED
    BY <1>1, <1>2 DEF Inv, TypeInv, WireInv, StageInv, DispatchedMeansWritten, Batch!vars

(* A step of the goroutine takes packets from the front of the stream only. *)
LEMMA StreamShrinks ==
  ASSUME Inv, SessionStep
  PROVE  /\ stream \in Seq(Packets) /\ stream' \in Seq(Packets)
         /\ \E n \in 0..Len(stream) :
              /\ Len(stream') = Len(stream) - n
              /\ \A i \in 1..Len(stream') : stream'[i] = stream[i + n]
              /\ ReadPacket => n = 1
  <1>1. stream \in Seq(Packets) /\ Len(stream) \in Nat
    BY DEF Inv, TypeInv
  <1>2. CASE ReadPacket
    <2>1. stream # <<>> /\ stream' = Tail(stream)
      BY <1>2 DEF ReadPacket
    <2>2. /\ stream' \in Seq(Packets) /\ Len(stream') = Len(stream) - 1
          /\ \A i \in 1..Len(stream') : stream'[i] = stream[i + 1]
      BY <1>1, <2>1, HeadTailProperties
    <2>3. 1 \in 0..Len(stream)
      BY <1>1, <2>1
    <2>4. QED
      BY <1>1, <2>2, <2>3
  <1>3. ASSUME NEW n \in 0..Len(stream), stream' = SubSeq(stream, n + 1, Len(stream)), ~ReadPacket
        PROVE  /\ stream' \in Seq(Packets)
               /\ \E m \in 0..Len(stream) :
                    /\ Len(stream') = Len(stream) - m
                    /\ \A i \in 1..Len(stream') : stream'[i] = stream[i + m]
                    /\ ReadPacket => m = 1
    <2>1. /\ stream' \in Seq(Packets) /\ Len(stream') = Len(stream) - n
          /\ \A i \in 1..Len(stream') : stream'[i] = stream[i + n]
      BY <1>1, <1>3, RestFacts
    <2>2. QED
      BY <1>3, <2>1
  <1>4. CASE stream' = stream /\ ~ReadPacket
    <2>1. 0 \in 0..Len(stream) /\ \A i \in 1..Len(stream') : stream'[i] = stream[i + 0]
      BY <1>1, <1>4
    <2>2. Len(stream') = Len(stream) - 0
      BY <1>1, <1>4
    <2>3. QED
      BY <1>1, <1>4, <2>1, <2>2
  <1>5. CASE ReadRest /\ ~ReadPacket
    <2>1. \/ stream' = stream
          \/ \E n \in 1..Len(stream) : stream' = SubSeq(stream, n + 1, Len(stream))
      BY <1>5 DEF ReadRest
    <2>2. QED
      BY <1>1, <1>3, <1>4, <1>5, <2>1
  <1>6. CASE ReadExpires /\ ~ReadPacket
    <2>1. \/ stream' = stream
          \/ /\ stream # <<>>
             /\ \E n \in 0..(IF misaligned THEN Len(stream) - 1 ELSE 0) :
                  stream' = SubSeq(stream, n + 1, Len(stream))
      BY <1>6 DEF ReadExpires
    <2>2. 0..(IF misaligned THEN Len(stream) - 1 ELSE 0) \subseteq 0..Len(stream)
      BY <1>1
    <2>3. CASE stream' = stream
      BY <1>1, <1>4, <1>6, <2>3
    <2>4. CASE \E n \in 0..Len(stream) : stream' = SubSeq(stream, n + 1, Len(stream))
      BY <1>1, <1>3, <1>6, <2>4
    <2>5. QED
      BY <2>1, <2>2, <2>3, <2>4
  <1>7. CASE ~(ReadPacket \/ ReadRest \/ ReadExpires)
    <2>1. stream' = stream
      BY <1>7 DEF SessionStep, Dial, SendAuth, NextCommand, BatchEnd, SendProbe, ReadEnds,
         WriteFailed, ReadFailed
    <2>2. QED
      BY <1>4, <1>7, <2>1
  <1>8. QED
    BY <1>1, <1>2, <1>5, <1>6, <1>7

-----------------------------------------------------------------------------
(* What is left of the stream, and what is on its way to the server.         *)
LEMMA StreamSteps ==
  ASSUME Inv, SessionStep
  PROVE  /\ stream' \in Seq(Packets)
         /\ \A i \in 1..Len(stream') : Accepts(stream'[i]) => granted
  <1>1. PICK n \in 0..Len(stream) :
          /\ Len(stream') = Len(stream) - n
          /\ \A i \in 1..Len(stream') : stream'[i] = stream[i + n]
    BY StreamShrinks
  <1>2. stream \in Seq(Packets) /\ stream' \in Seq(Packets)
    BY StreamShrinks
  <1>3. \A i \in 1..Len(stream') : i + n \in 1..Len(stream)
    BY <1>1, <1>2
  <1>4. QED
    BY <1>1, <1>2, <1>3 DEF Inv, GrantInv

(* Only the first write is the authentication.                               *)
LEMMA WireSteps ==
  ASSUME Inv, SessionStep
  PROVE  WireInv' /\ toServer' \in Seq(Requests) /\ flushed' \in Seq(Requests)
         /\ written' \in Seq(Requests)
  <1>1. TypeInv /\ WireInv /\ granted' = granted /\ toServer \in Seq(Requests)
    BY DEF Inv, SessionStep, TypeInv
  <1>2. CASE SendAuth
    <2>1. /\ Request("auth", 0) \in Requests
          /\ Write(Request("auth", 0), "authRead", "authFailed") /\ toServer = <<>>
      BY <1>1, <1>2, RequestFacts DEF SendAuth, WireInv
    <2>2. /\ toServer' = toServer \/ toServer' = Append(toServer, Request("auth", 0))
          /\ pc' \in {"authRead", "authFailed"}
          /\ toServer' \in Seq(Requests) /\ flushed' \in Seq(Requests) /\ written' \in Seq(Requests)
      BY <1>1, <2>1, WriteFacts
    <2>3. ~granted'
      BY <1>1, <1>2 DEF SendAuth, WireInv
    <2>4. QED
      BY <1>1, <2>1, <2>2, <2>3 DEF WireInv
  <1>3. ASSUME NEW r \in Requests, r.what # "auth", NEW next, NEW failed,
               next \notin {"dial", "auth"}, failed \notin {"dial", "auth"},
               granted, Write(r, next, failed)
        PROVE  WireInv' /\ toServer' \in Seq(Requests) /\ flushed' \in Seq(Requests)
               /\ written' \in Seq(Requests)
    <2>1. /\ \/ toServer' = toServer /\ pc' = failed
             \/ toServer' = Append(toServer, r) /\ pc' = next
          /\ toServer' \in Seq(Requests) /\ flushed' \in Seq(Requests) /\ written' \in Seq(Requests)
      BY <1>1, <1>3, WriteFacts
    <2>2. CASE toServer' = toServer
      BY <1>1, <1>3, <2>1, <2>2 DEF WireInv
    <2>3. CASE toServer' = Append(toServer, r)
      <3>1. /\ Len(toServer) \in Nat /\ Len(toServer') = Len(toServer) + 1
            /\ toServer'[Len(toServer) + 1] = r
            /\ \A i \in 1..Len(toServer) : toServer'[i] = toServer[i]
        BY <1>1, <2>3, AppendProperties
      <3>2. \A i \in 1..Len(toServer') : toServer'[i].what # "auth"
        <4>1. \A i \in 1..Len(toServer) : toServer[i].what # "auth"
          BY <1>1, <1>3 DEF WireInv
        <4>2. QED
          BY <1>3, <3>1, <4>1
      <3>3. pc' \notin {"dial", "auth"} /\ Len(toServer') >= 1
        BY <1>3, <2>1, <3>1
      <3>4. QED
        BY <2>1, <3>1, <3>2, <3>3 DEF WireInv
    <2>4. QED
      BY <2>1, <2>2, <2>3
  <1>4. CASE SendProbe
    <2>1. Request("probe", current) \in Requests /\ Request("probe", current).what # "auth"
      BY <1>1, RequestFacts, BatchAssumption DEF TypeInv
    <2>2. granted
      BY <1>4 DEF SendProbe, Inv, GrantInv, Answering
    <2>3. QED
      BY <1>3, <1>4, <2>1, <2>2 DEF SendProbe
  <1>5. CASE NextCommand
    <2>1. Request("command", current + 1) \in Requests /\ Request("command", current + 1).what # "auth"
      BY <1>1, RequestFacts, BatchAssumption DEF TypeInv
    <2>2. granted
      BY <1>5 DEF NextCommand, Inv, GrantInv
    <2>3. CASE Throw("COMMAND_TOO_LONG") /\ UNCHANGED <<written, flushed, toServer>>
      BY <1>1, <2>3 DEF Throw, Finish, WireInv, TypeInv
    <2>4. QED
      BY <1>3, <1>5, <2>1, <2>2, <2>3 DEF NextCommand
  <1>6. CASE Dial \/ BatchEnd \/ ReadPacket \/ ReadRest \/ ReadExpires \/ ReadEnds
             \/ WriteFailed \/ ReadFailed
    <2>1. UNCHANGED <<toServer, flushed, written>>
      BY <1>6 DEF Dial, BatchEnd, ReadPacket, ReadRest, ReadExpires, ReadEnds, WriteFailed,
         ReadFailed, ReadFails, Handle, noWrites
    <2>2. pc' \in {"dial", "auth"} => pc \in {"dial", "auth"}
      BY <1>6 DEF Dial, BatchEnd, ReadPacket, ReadRest, ReadExpires, ReadEnds, WriteFailed,
         ReadFailed, ReadFails, Handle, Throw, Finish, Return, GoTo, Reading
    <2>3. QED
      BY <1>1, <2>1, <2>2 DEF WireInv, TypeInv
  <1>7. QED
    BY <1>2, <1>4, <1>5, <1>6 DEF SessionStep

-----------------------------------------------------------------------------
(* The rest of the types, and that only the server's word grants access.     *)
LEMMA HandleTypes ==
  ASSUME Inv, pc \in Reading, Handle(Head(stream)), stream # <<>>
  PROVE  /\ pc' \in Positions /\ current' \in 0..Len(Commands) /\ reply' \in Replies
         /\ results' \in Seq(Results)
         /\ pc' \in Answering \cup {"next", "commandFailed"} => granted
  <1>1. /\ Head(stream) \in Packets /\ Head(stream) = stream[1] /\ 1 \in 1..Len(stream)
        /\ reply \in Replies /\ results \in Seq(Results) /\ current \in 0..Len(Commands)
        /\ pc \in Positions
    BY HeadTailProperties DEF Inv, TypeInv
  <1>2. /\ Accumulate(reply, Head(stream)) \in Replies
        /\ Answer("terminator", reply) \in Results
    BY <1>1, AccumulateType, ReplyKindType
  <1>3. current' = current /\ reply' \in Replies
    BY <1>1, <1>2 DEF Handle, noWrites
  <1>4. \/ Throw("AUTH_FAILED") \/ GoTo(pc)
        \/ Accepts(Head(stream)) /\ GoTo("next")
        \/ pc = "read" /\ Return(Answer("terminator", reply))
    BY DEF Handle, Reading
  <1>5. pc' \in Positions /\ results' \in Seq(Results)
    <2>1. CASE Throw("AUTH_FAILED") \/ GoTo(pc) \/ GoTo("next")
      BY <1>1, <2>1 DEF Throw, Finish, GoTo, Positions
    <2>2. CASE Return(Answer("terminator", reply))
      <3>1. Append(results, Answer("terminator", reply)) \in Seq(Results)
        BY <1>1, <1>2
      <3>2. QED
        BY <2>2, <3>1 DEF Return, Positions
    <2>3. QED
      BY <1>4, <2>1, <2>2
  <1>6. pc' \in Answering \cup {"next", "commandFailed"} => granted
    BY <1>1, <1>4 DEF Throw, Finish, GoTo, Return, Inv, GrantInv, Answering
  <1>7. QED
    BY <1>1, <1>3, <1>5, <1>6

LEMMA TypeSteps ==
  ASSUME Inv, SessionStep
  PROVE  /\ pc' \in Positions /\ current' \in 0..Len(Commands) /\ reply' \in Replies
         /\ results' \in Seq(Results)
         /\ pc' \in Answering \cup {"next", "commandFailed"} => granted
  <1>1. /\ TypeInv /\ reply \in Replies /\ results \in Seq(Results)
        /\ current \in 0..Len(Commands) /\ pc \in Positions
    BY DEF Inv, TypeInv
  <1>2. CASE Dial \/ BatchEnd
    BY <1>1, <1>2 DEF Dial, BatchEnd, Throw, Finish, Positions, Opening, Answering
  <1>3. CASE SendAuth \/ SendProbe
    <2>1. /\ UNCHANGED <<current, reply, results>>
          /\ \/ pc' \in {"authRead", "authFailed"}
             \/ pc = "probe" /\ pc' \in {"read", "probeFailed"}
      BY <1>3 DEF SendAuth, SendProbe, Write, GoTo
    <2>2. QED
      BY <1>1, <2>1 DEF Positions, Opening, Answering, Inv, GrantInv
  <1>4. CASE NextCommand
    <2>1. /\ pc = "next" /\ current' = current + 1 /\ current < Len(Commands)
          /\ reply' = NoReply /\ results' = results
          /\ pc' \in {"done", "probe", "commandFailed"}
      BY <1>4 DEF NextCommand, Write, GoTo, Throw, Finish
    <2>2. NoReply \in Replies
      BY ResponseAssumption DEF NoReply, Replies
    <2>3. current + 1 \in 0..Len(Commands)
      BY <1>1, <2>1, BatchAssumption
    <2>4. QED
      BY <1>1, <2>1, <2>2, <2>3 DEF Positions, Opening, Answering, Inv, GrantInv
  <1>5. CASE ReadPacket /\ Handle(Head(stream))
    BY <1>5, HandleTypes DEF ReadPacket
  <1>6. CASE /\ pc \in Reading /\ UNCHANGED <<reply, current, results>>
             /\ \/ pc' = pc
                \/ pc = "authRead" /\ pc' = "authFailed"
                \/ pc = "read" /\ pc' = "readFailed"
    BY <1>1, <1>6 DEF Positions, Opening, Answering, Inv, GrantInv
  <1>7. (ReadPacket /\ ~Handle(Head(stream))) \/ ReadRest \/ ReadExpires \/ ReadEnds
        => /\ pc \in Reading /\ UNCHANGED <<reply, current, results>>
           /\ \/ pc' = pc
              \/ pc = "authRead" /\ pc' = "authFailed"
              \/ pc = "read" /\ pc' = "readFailed"
    BY DEF ReadPacket, ReadRest, ReadExpires, ReadEnds, ReadFails, GoTo, noWrites, Reading
  <1>8. CASE WriteFailed \/ ReadFailed
    <2>1. UNCHANGED <<reply, current>>
      BY <1>8 DEF WriteFailed, ReadFailed, noWrites
    <2>2. \/ \E code : Throw(code)
          \/ pc \in Answering /\ \E result \in Results : Return(result)
      BY <1>1, <1>8, ResultTypes DEF WriteFailed, ReadFailed, Dispatches, Answering
    <2>3. QED
      BY <1>1, <2>1, <2>2 DEF Throw, Finish, Return, Positions, Answering, Inv, GrantInv
  <1>9. QED
    BY <1>2, <1>3, <1>4, <1>5, <1>6, <1>7, <1>8 DEF SessionStep

-----------------------------------------------------------------------------
LEMMA InitInv == Init => Inv /\ Batch!Init
  <1> SUFFICES ASSUME Init PROVE Inv /\ Batch!Init
    OBVIOUS
  <1>1. CommandsIn(<<>>) = 0 /\ KindsOf(<<>>) = <<>>
    <2>1. {i \in 1..Len(<<>>) : <<>>[i].what = "command"} = {} /\ Cardinality({}) = 0
      BY FS_EmptySet
    <2>2. QED
      BY <2>1 DEF CommandsIn, KindsOf
  <1>2. reply \in Replies
    BY ResponseAssumption DEF Init, NoReply, Replies
  <1>3. TypeInv
    <2>1. Len(Commands) \in Nat
      BY BatchAssumption
    <2>2. pc \in Positions
      BY DEF Init, Positions, Opening
    <2>3. current \in 0..Len(Commands)
      BY <2>1 DEF Init
    <2>4. granted \in BOOLEAN
      BY DEF Init, WireInit
    <2>5. /\ results = <<>> /\ written = <<>> /\ flushed = <<>>
          /\ toServer = <<>> /\ stream = <<>>
      BY DEF Init, WireInit
    <2>6. QED
      BY <1>2, <2>2, <2>3, <2>4, <2>5, EmptySeq DEF TypeInv
  <1>4. WireInv /\ GrantInv
    BY DEF Init, WireInit, WireInv, GrantInv, Answering
  <1>5. StageInv
    BY <1>1 DEF Init, StageInv, Answering, DispatchedMeansWritten
  <1>6. Batch!Init
    BY <1>1 DEF Init, WireInit, Batch!Init, Verdict
  <1>7. QED
    BY <1>3, <1>4, <1>5, <1>6 DEF Inv

LEMMA StepInv ==
  ASSUME Inv, [Next]_vars
  PROVE  Inv' /\ [Batch!Next]_(Batch!vars)
  <1>1. CASE SessionStep
    <2>1. granted' = granted /\ granted \in BOOLEAN
      BY <1>1 DEF SessionStep, Inv, TypeInv
    <2>2. StageInv' /\ [Batch!Next]_(Batch!vars)
      BY <1>1, <2>1, DialStep, OtherWriteStep, NextCommandStep, BatchEndStep, ReadSteps,
         FailureSteps DEF SessionStep, Inv
    <2>3. TypeInv' /\ WireInv'
      BY <1>1, <2>1, StreamSteps, WireSteps, TypeSteps DEF TypeInv
    <2>4. GrantInv'
      BY <1>1, <2>1, StreamSteps, TypeSteps DEF GrantInv, Accepts
    <2>5. QED
      BY <2>2, <2>3, <2>4 DEF Inv
  <1>2. CASE Environment
    BY <1>2, EnvironmentSteps
  <1>3. CASE ServerStep
    BY <1>3, ServerSteps
  <1>4. CASE UNCHANGED vars
    BY <1>4 DEF vars, session, wireVars, Inv, TypeInv, WireInv, GrantInv, StageInv, Accepts,
       DispatchedMeansWritten, Batch!vars
  <1>5. QED
    BY <1>1, <1>2, <1>3, <1>4 DEF Next, Done

LEMMA AlwaysInv == Spec => []Inv
  BY InitInv, StepInv, PTL DEF Spec

-----------------------------------------------------------------------------
(* The text of the responses.                                               *)
(* What of a response can still come has come from no earlier request.      *)
IssuedInv == \A k \in 1..Len(stream) : stream[k].part > 0 => stream[k].id <= current
FreshInv ==
  \A i \in 1..Len(toServer) :
    toServer[i].what = "command" =>
      /\ toServer[i].id <= current
      /\ \A j \in 1..(i - 1) : toServer[j].what = "command" => toServer[j].id < toServer[i].id
      /\ \A k \in 1..Len(stream) : stream[k].part > 0 => stream[k].id < toServer[i].id
      /\ toServer[i].id = current =>
           \A k \in 1..Len(reply.chunks) : reply.chunks[k].part = 0

(* The text of the response is the command's, and what comes continues it.  *)
ReplyInv ==
  /\ pc = "probe" => reply.chunks = <<>>
  /\ pc \in {"read", "readFailed"} => OwnInOrder(current, reply.chunks)
  /\ pc = "read" =>
       \A i \in 1..Len(reply.chunks), j \in 1..Len(stream) :
         stream[j].id = current /\ stream[j].part > 0 => reply.chunks[i].part < stream[j].part

(* A response that has text is read at packet boundaries, and its end is     *)
(* recognized.                                                               *)
HeadInv ==
  pc = "read" /\ reply.chunks # <<>> =>
    /\ ~misaligned
    /\ stream # <<>> /\ Ends(stream[1]) /\ stream[1].id = current => reply.previousWasEmpty

ResultsInv == \A n \in 1..Len(results) : OwnInOrder(n, results[n].chunks)

TextInv == Coherent(stream) /\ IssuedInv /\ FreshInv /\ ReplyInv /\ HeadInv /\ ResultsInv

(* So whatever holds of the packets of a stream holds of what is left.      *)
LEMMA StreamLeft ==
  ASSUME Inv, SessionStep, TextInv
  PROVE  /\ Coherent(stream')
         /\ \A j \in 1..Len(stream') : \E k \in 1..Len(stream) : stream'[j] = stream[k]
         /\ stream' \in Seq(Packets)
  <1>1. PICK n \in 0..Len(stream) :
          /\ Len(stream') = Len(stream) - n
          /\ \A i \in 1..Len(stream') : stream'[i] = stream[i + n]
    BY StreamShrinks
  <1>2. stream \in Seq(Packets) /\ stream' \in Seq(Packets)
    BY StreamShrinks
  <1>3. Coherent(stream')
    BY <1>1, <1>2, CoherentRest DEF TextInv
  <1>4. \A j \in 1..Len(stream') : j + n \in 1..Len(stream)
    BY <1>1, <1>2
  <1>5. QED
    BY <1>1, <1>2, <1>3, <1>4

(* A step that leaves the response as it is.                                *)
LEMMA TextKept ==
  ASSUME Inv, SessionStep, TextInv, UNCHANGED <<reply, current>>, HeadInv',
         \/ toServer' = toServer
         \/ \E r \in Requests : r.what # "command" /\ toServer' = Append(toServer, r),
         pc' = "probe" => reply.chunks = <<>>,
         pc' = "read" => pc = "read" \/ reply.chunks = <<>>,
         pc' = "readFailed" => pc = "read" \/ pc = "readFailed" \/ reply.chunks = <<>>,
         \/ results' = results
         \/ \E x \in Results : /\ results' = Append(results, x)
                               /\ Len(results) + 1 = current /\ OwnInOrder(current, x.chunks)
  PROVE  TextInv'
  <1>1. /\ Coherent(stream') /\ stream' \in Seq(Packets)
        /\ \A j \in 1..Len(stream') : \E k \in 1..Len(stream) : stream'[j] = stream[k]
    BY StreamLeft
  <1>2. toServer \in Seq(Requests) /\ results \in Seq(Results) /\ Len(toServer) \in Nat
        /\ current \in Nat
    BY BatchAssumption DEF Inv, TypeInv
  <1>3. IssuedInv'
    BY <1>1 DEF TextInv, IssuedInv
  <1>4. \A i \in 1..Len(toServer') : toServer'[i].what = "command" =>
          i \in 1..Len(toServer) /\ \A j \in 1..i : toServer'[j] = toServer[j]
    <2>1. CASE toServer' = toServer
      BY <2>1
    <2>2. ASSUME NEW r \in Requests, r.what # "command", toServer' = Append(toServer, r)
          PROVE  \A i \in 1..Len(toServer') : toServer'[i].what = "command" =>
                   i \in 1..Len(toServer) /\ \A j \in 1..i : toServer'[j] = toServer[j]
      <3>1. /\ Len(toServer') = Len(toServer) + 1 /\ toServer'[Len(toServer) + 1] = r
            /\ \A i \in 1..Len(toServer) : toServer'[i] = toServer[i]
        BY <1>2, <2>2, AppendProperties
      <3>2. QED
        BY <1>2, <2>2, <3>1
    <2>3. QED
      BY <2>1, <2>2
  <1>5. FreshInv'
    <2>1. SUFFICES ASSUME NEW i \in 1..Len(toServer'), toServer'[i].what = "command"
                   PROVE  /\ toServer'[i].id <= current
                          /\ \A j \in 1..(i - 1) : toServer'[j].what = "command" =>
                               toServer'[j].id < toServer'[i].id
                          /\ \A k \in 1..Len(stream') :
                               stream'[k].part > 0 => stream'[k].id < toServer'[i].id
                          /\ toServer'[i].id = current =>
                               \A k \in 1..Len(reply.chunks) : reply.chunks[k].part = 0
      BY DEF FreshInv
    <2>2. i \in 1..Len(toServer) /\ \A j \in 1..i : toServer'[j] = toServer[j]
      BY <1>4, <2>1
    <2>3. i \in 1..i /\ \A j \in 1..(i - 1) : j \in 1..i
      BY <1>2, <2>2
    <2>4. /\ toServer'[i] = toServer[i]
          /\ \A j \in 1..(i - 1) : toServer'[j] = toServer[j]
      BY <2>2, <2>3
    <2>5. QED
      BY <1>1, <2>1, <2>2, <2>4 DEF TextInv, FreshInv
  <1>6. ReplyInv'
    <2>1. reply.chunks = <<>> => Len(reply.chunks) = 0
      OBVIOUS
    <2>2. /\ pc' = "probe" => reply'.chunks = <<>>
          /\ reply' = reply /\ current' = current
      OBVIOUS
    <2>3. pc' \in {"read", "readFailed"} => OwnInOrder(current', reply'.chunks)
      BY <2>1, <2>2 DEF TextInv, ReplyInv, OwnInOrder
    <2>4. pc' = "read" =>
            \A i \in 1..Len(reply'.chunks), j \in 1..Len(stream') :
              stream'[j].id = current' /\ stream'[j].part > 0
                => reply'.chunks[i].part < stream'[j].part
      BY <1>1, <2>1, <2>2 DEF TextInv, ReplyInv
    <2>5. QED
      BY <2>2, <2>3, <2>4 DEF ReplyInv, OwnInOrder
  <1>7. ResultsInv'
    <2>1. CASE results' = results
      BY <2>1 DEF TextInv, ResultsInv, OwnInOrder
    <2>2. ASSUME NEW x \in Results, results' = Append(results, x),
                 Len(results) + 1 = current, OwnInOrder(current, x.chunks)
          PROVE  ResultsInv'
      <3>1. /\ Len(results') = Len(results) + 1 /\ results'[Len(results) + 1] = x
            /\ \A n \in 1..Len(results) : results'[n] = results[n]
            /\ Len(results) \in Nat
        BY <1>2, <2>2, AppendProperties
      <3>2. QED
        BY <2>2, <3>1 DEF TextInv, ResultsInv, OwnInOrder
    <2>3. QED
      BY <2>1, <2>2
  <1>8. Coherent(stream)'
    BY <1>1 DEF Coherent, Ordered, Preceded, Shaped, Ends
  <1>9. QED
    BY <1>3, <1>5, <1>6, <1>7, <1>8 DEF TextInv

(* A packet of the response continues its text.                             *)
LEMMA TextGrows ==
  ASSUME Inv, TextInv, SessionStep, ReadPacket, pc = "read", Own(stream[1]), ~Last(stream[1]),
         UNCHANGED <<pc, current, results, toServer>>, reply' = Accumulate(reply, stream[1])
  PROVE  TextInv'
  <1> DEFINE p == stream[1]
             chunk == [id |-> p.id, part |-> p.part, take |-> Room(reply, p)]
             before == reply.chunks
             after == reply'.chunks
  <1>1. /\ Coherent(stream') /\ stream' \in Seq(Packets)
        /\ \A j \in 1..Len(stream') : \E k \in 1..Len(stream) : stream'[j] = stream[k]
    BY StreamLeft
  <1>2. /\ stream \in Seq(Packets) /\ stream # <<>> /\ ~misaligned /\ misaligned' = misaligned
        /\ Len(stream) \in Nat /\ 1 \in 1..Len(stream)
    BY DEF Inv, TypeInv, ReadPacket
  <1>3. /\ Len(stream') = Len(stream) - 1
        /\ \A j \in 1..Len(stream') : stream'[j] = stream[j + 1] /\ j + 1 \in 2..Len(stream)
    BY <1>2, StreamShrinks
  <1>4. /\ p \in Packets /\ p.type = "value" /\ p.id = current
        /\ p.id \in Int /\ p.part \in Nat /\ p.size \in Nat
    <2>1. p \in Packets
      BY <1>2
    <2>2. QED
      BY <2>1 DEF Packets, Own
  <1>5. /\ reply \in Replies /\ before \in Seq(Chunks) /\ current \in Nat
        /\ ResponseLimit - reply.bytes \in Nat
    BY BatchAssumption, ResponseAssumption DEF Inv, TypeInv, Replies
  <1>6. /\ after = IF Room(reply, p) = 0 THEN before ELSE Append(before, chunk)
        /\ reply'.previousWasEmpty = (p.size = 0)
    BY DEF Accumulate
  <1>7. Room(reply, p) # 0 => p.size > 0
    BY <1>4, <1>5 DEF Room
  <1>8. chunk \in Chunks /\ chunk.id = current /\ chunk.part = p.part
    <2>1. Room(reply, p) \in Nat
      BY <1>4, <1>5 DEF Room
    <2>2. QED
      BY <1>4, <2>1 DEF Chunks
  <1>9. Room(reply, p) # 0 => \A i \in 1..Len(before) : before[i].part < p.part
    <2>1. SUFFICES ASSUME Room(reply, p) # 0, NEW i \in 1..Len(before)
                   PROVE  before[i].part < p.part
      OBVIOUS
    <2>2. CASE p.part > 0
      BY <1>2, <1>4, <2>2 DEF TextInv, ReplyInv
    <2>3. CASE p.part = 0
      <3>1. p.term
        BY <1>2, <1>4, <1>7, <2>1, <2>3 DEF TextInv, Coherent, Shaped
      <3>2. Ends(p)
        BY <1>4, <1>5, <3>1 DEF Ends
      <3>3. before # <<>>
        BY <2>1
      <3>4. reply.previousWasEmpty
        BY <1>2, <1>4, <3>2, <3>3 DEF TextInv, HeadInv
      <3>5. QED
        BY <3>1, <3>4 DEF Last
    <2>4. QED
      BY <1>4, <2>2, <2>3
  <1>10. /\ OwnInOrder(current, before)
         /\ \A i \in 1..Len(before), j \in 1..Len(stream) :
              stream[j].id = current /\ stream[j].part > 0 => before[i].part < stream[j].part
    BY DEF TextInv, ReplyInv
  <1>11. \A j \in 2..Len(stream) : stream[j].id = current /\ stream[j].part > 0
                                     => p.part < stream[j].part
    BY <1>2, <1>4 DEF TextInv, Coherent, Ordered
  <1>12. stream' # <<>> /\ Ends(stream'[1]) /\ stream'[1].id = current => p.size = 0
    <2>1. SUFFICES ASSUME stream' # <<>>, Ends(stream'[1]), stream'[1].id = current
                   PROVE  p.size = 0
      OBVIOUS
    <2>2. 1 \in 1..Len(stream')
      BY <1>1, <2>1
    <2>3. stream'[1] = stream[2] /\ 2 \in 2..Len(stream)
      BY <1>3, <2>2
    <2>4. stream[2 - 1].size = 0
      BY <2>1, <2>3 DEF TextInv, Coherent, Preceded
    <2>5. QED
      BY <2>4
  <1>13. \A i \in 1..Len(toServer) : toServer[i].what = "command" /\ toServer[i].id = current
           => p.part = 0 /\ \A k \in 1..Len(before) : before[k].part = 0
    BY <1>2, <1>4, <1>5 DEF TextInv, FreshInv
  <1>14. \A i \in 1..Len(after) :
           \/ i \in 1..Len(before) /\ after[i] = before[i]
           \/ Room(reply, p) # 0 /\ i = Len(before) + 1 /\ after[i] = chunk
    <2> HIDE DEF chunk, before, after, p
    <2>1. CASE Room(reply, p) = 0
      BY <1>6, <2>1
    <2>2. CASE Room(reply, p) # 0
      <3>1. after = Append(before, chunk)
        BY <1>6, <2>2
      <3>2. /\ Len(after) = Len(before) + 1 /\ after[Len(before) + 1] = chunk
            /\ Len(before) \in Nat
            /\ \A i \in 1..Len(before) : after[i] = before[i]
        BY <1>5, <1>8, <3>1, AppendProperties
      <3>3. QED
        BY <2>2, <3>2
    <2>3. QED
      BY <2>1, <2>2
  <1>15. Len(before) \in Nat
    BY <1>5
  <1> HIDE DEF chunk, before, after, p
  <1>16. OwnInOrder(current, after)
    <2>1. SUFFICES ASSUME NEW i \in 1..Len(after)
                   PROVE  /\ after[i].id = current
                          /\ i > 1 => after[i - 1].part < after[i].part
      BY DEF OwnInOrder
    <2>2. CASE i \in 1..Len(before) /\ after[i] = before[i]
      <3>1. i > 1 => after[i - 1] = before[i - 1]
        <4>1. i > 1 => i - 1 \in 1..Len(after) /\ i - 1 # Len(before) + 1
          BY <1>15, <2>1, <2>2
        <4>2. QED
          BY <1>14, <4>1
      <3>2. QED
        BY <1>10, <2>2, <3>1 DEF OwnInOrder
    <2>3. CASE Room(reply, p) # 0 /\ i = Len(before) + 1 /\ after[i] = chunk
      <3>1. i > 1 => i - 1 \in 1..Len(before) /\ i - 1 \in 1..Len(after)
        BY <1>15, <2>1, <2>3
      <3>2. i > 1 => after[i - 1] = before[i - 1]
        BY <1>14, <1>15, <2>3, <3>1
      <3>3. QED
        BY <1>8, <1>9, <2>3, <3>1, <3>2
    <2>4. QED
      BY <1>14, <2>2, <2>3
  <1>17. \A i \in 1..Len(after), j \in 1..Len(stream') :
           stream'[j].id = current /\ stream'[j].part > 0 => after[i].part < stream'[j].part
    <2>1. SUFFICES ASSUME NEW i \in 1..Len(after), NEW j \in 1..Len(stream'),
                          stream'[j].id = current, stream'[j].part > 0
                   PROVE  after[i].part < stream'[j].part
      OBVIOUS
    <2>2. stream'[j] = stream[j + 1] /\ j + 1 \in 2..Len(stream) /\ j + 1 \in 1..Len(stream)
      BY <1>2, <1>3, <2>1
    <2>3. QED
      BY <1>8, <1>10, <1>11, <1>14, <2>1, <2>2
  <1>18. ReplyInv'
    BY <1>16, <1>17 DEF ReplyInv, OwnInOrder, after
  <1>19. HeadInv'
    BY <1>2, <1>6, <1>12 DEF HeadInv, Ends
  <1>20. IssuedInv'
    BY <1>1 DEF TextInv, IssuedInv
  <1>21. FreshInv'
    <2>1. SUFFICES ASSUME NEW i \in 1..Len(toServer), toServer[i].what = "command"
                   PROVE  /\ toServer[i].id <= current
                          /\ \A j \in 1..(i - 1) : toServer[j].what = "command" =>
                               toServer[j].id < toServer[i].id
                          /\ \A k \in 1..Len(stream') :
                               stream'[k].part > 0 => stream'[k].id < toServer[i].id
                          /\ toServer[i].id = current =>
                               \A k \in 1..Len(after) : after[k].part = 0
      BY DEF FreshInv, after
    <2>2. toServer[i].id = current => \A k \in 1..Len(after) : after[k].part = 0
      BY <1>8, <1>13, <1>14, <2>1
    <2>3. QED
      BY <1>1, <2>1, <2>2 DEF TextInv, FreshInv
  <1>22. ResultsInv' /\ Coherent(stream)'
    BY <1>1 DEF TextInv, ResultsInv, OwnInOrder, Coherent, Ordered, Preceded, Shaped, Ends
  <1>23. QED
    BY <1>18, <1>19, <1>20, <1>21, <1>22 DEF TextInv

(* A new command finds nothing of its response.                             *)
LEMMA TextBegins ==
  ASSUME Inv, TextInv, SessionStep, NextCommand
  PROVE  TextInv'
  <1>1. /\ toServer \in Seq(Requests) /\ current \in Nat /\ Len(toServer) \in Nat
        /\ current < Len(Commands) /\ current' = current + 1 /\ current + 1 \in Nat
        /\ reply' = NoReply /\ stream' = stream
    BY BatchAssumption DEF Inv, TypeInv, NextCommand
  <1>2. /\ results' = results /\ pc' \in {"probe", "commandFailed", "done"}
        /\ \/ toServer' = toServer
           \/ toServer' = Append(toServer, Request("command", current + 1))
    BY DEF NextCommand, Write, GoTo, Throw, Finish
  <1>3. NoReply.chunks = <<>> /\ Len(NoReply.chunks) = 0
    BY DEF NoReply
  <1>4. stream \in Seq(Packets) /\ \A k \in 1..Len(stream) : stream[k].id \in Int
    <2>1. stream \in Seq(Packets) /\ \A k \in 1..Len(stream) : stream[k] \in Packets
      BY DEF Inv, TypeInv
    <2>2. QED
      BY <2>1 DEF Packets
  <1>5. \A i \in 1..Len(toServer) : toServer[i].id \in Nat
    <2>1. \A i \in 1..Len(toServer) : toServer[i] \in Requests
      BY <1>1
    <2>2. QED
      BY <2>1 DEF Requests
  <1>6. IssuedInv'
    BY <1>1, <1>4 DEF TextInv, IssuedInv
  <1>7. \A i \in 1..Len(toServer') :
          \/ i \in 1..Len(toServer) /\ toServer'[i] = toServer[i]
          \/ i = Len(toServer) + 1 /\ toServer'[i] = Request("command", current + 1)
    <2>1. Request("command", current + 1) \in Requests
      BY <1>1, RequestFacts
    <2>2. CASE toServer' = Append(toServer, Request("command", current + 1))
      BY <1>1, <2>1, <2>2, AppendProperties
    <2>3. QED
      BY <1>2, <2>2
  <1>8. FreshInv'
    <2>1. SUFFICES ASSUME NEW i \in 1..Len(toServer'), toServer'[i].what = "command"
                   PROVE  /\ toServer'[i].id <= current + 1
                          /\ \A j \in 1..(i - 1) : toServer'[j].what = "command" =>
                               toServer'[j].id < toServer'[i].id
                          /\ \A k \in 1..Len(stream) :
                               stream[k].part > 0 => stream[k].id < toServer'[i].id
      BY <1>1, <1>3 DEF FreshInv
    <2>2. \A j \in 1..(i - 1) : j \in 1..Len(toServer) /\ toServer'[j] = toServer[j]
      <3>1. \A j \in 1..(i - 1) : j \in 1..Len(toServer') /\ j # Len(toServer) + 1
        BY <1>1, <1>7, <2>1
      <3>2. QED
        BY <1>7, <3>1
    <2>3. CASE i \in 1..Len(toServer) /\ toServer'[i] = toServer[i]
      BY SMTT(30), <1>1, <1>5, <2>1, <2>2, <2>3 DEF TextInv, FreshInv
    <2>4. CASE i = Len(toServer) + 1 /\ toServer'[i] = Request("command", current + 1)
      <3>1. toServer'[i].id = current + 1
        BY <2>4 DEF Request
      <3>2. \A j \in 1..Len(toServer) : toServer[j].what = "command" => toServer[j].id <= current
        BY DEF TextInv, FreshInv
      <3>3. \A k \in 1..Len(stream) : stream[k].part > 0 => stream[k].id <= current
        BY DEF TextInv, IssuedInv
      <3>4. QED
        BY <1>1, <1>4, <1>5, <2>2, <3>1, <3>2, <3>3
    <2>5. QED
      BY <1>7, <2>3, <2>4
  <1>9. ReplyInv' /\ HeadInv'
    BY <1>1, <1>2, <1>3 DEF ReplyInv, HeadInv
  <1>10. ResultsInv' /\ Coherent(stream)'
    BY SMTT(30), <1>1, <1>2 DEF TextInv, ResultsInv, OwnInOrder, Coherent, Ordered, Preceded, Shaped, Ends
  <1>11. QED
    BY <1>6, <1>8, <1>9, <1>10 DEF TextInv

(* A whole packet is read.                                                  *)
LEMMA TextRead ==
  ASSUME Inv, TextInv, SessionStep, ReadPacket
  PROVE  TextInv'
  <1>1. /\ stream \in Seq(Packets) /\ stream # <<>> /\ Head(stream) = stream[1]
        /\ pc \in Reading /\ ~misaligned /\ misaligned' = misaligned /\ Len(stream) \in Nat
    BY DEF Inv, TypeInv, ReadPacket
  <1>2. /\ Len(stream') = Len(stream) - 1
        /\ \A j \in 1..Len(stream') : stream'[j] = stream[j + 1] /\ j + 1 \in 2..Len(stream)
        /\ stream' \in Seq(Packets)
    BY <1>1, StreamShrinks
  <1>3. CASE UNCHANGED <<reply, current, toServer, results>> /\ pc' \notin {"probe", "read", "readFailed"}
    BY <1>3, TextKept DEF HeadInv
  <1>4. CASE \E error \in {"invalid", "limit"} : ReadFails(error)
    <2>1. /\ UNCHANGED <<reply, current, toServer, results>>
          /\ \/ pc = "authRead" /\ pc' = "authFailed"
             \/ pc = "read" /\ pc' = "readFailed"
      BY <1>1, <1>4, ReadFacts DEF Inv
    <2>2. QED
      BY <2>1, TextKept DEF HeadInv
  <1>5. ASSUME Handle(stream[1])
        PROVE  TextInv'
    <2>1. current' = current /\ toServer' = toServer
      BY <1>5 DEF Handle, noWrites
    <2>2. CASE pc = "authRead"
      <3>1. /\ UNCHANGED <<reply, current, toServer, results>>
            /\ pc' \in {"done", "next", "authRead"}
        BY <1>5, <2>1, <2>2 DEF Handle, Throw, Finish, GoTo
      <3>2. QED
        BY <1>3, <3>1
    <2>3. CASE pc = "read" /\ ~Own(stream[1]) /\ GoTo(pc) /\ UNCHANGED reply
      <3>1. stream' # <<>> /\ Ends(stream'[1]) /\ stream'[1].id = current => Own(stream[1])
        <4>1. SUFFICES ASSUME stream' # <<>>, Ends(stream'[1]), stream'[1].id = current
                       PROVE  Own(stream[1])
          OBVIOUS
        <4>2. 1 \in 1..Len(stream')
          BY <1>2, <4>1
        <4>3. stream'[1] = stream[2] /\ 2 \in 2..Len(stream)
          BY <1>2, <4>2
        <4>4. stream[2 - 1].type = "value" /\ stream[2 - 1].id = stream[2].id
          BY <4>1, <4>3 DEF TextInv, Coherent, Preceded
        <4>5. QED
          BY <4>1, <4>3, <4>4 DEF Own
      <3>2. HeadInv'
        BY <1>1, <2>1, <2>3, <3>1 DEF HeadInv, Ends
      <3>3. QED
        BY <2>1, <2>3, <3>2, TextKept DEF GoTo
    <2>4. CASE pc = "read" /\ Return(Answer("terminator", reply)) /\ UNCHANGED reply
      <3>1. /\ Answer("terminator", reply) \in Results
            /\ Answer("terminator", reply).chunks = reply.chunks
        BY ResultTypes DEF Inv, Answer
      <3>2. Len(results) + 1 = current
        BY <2>4 DEF Inv, StageInv, Answering
      <3>3. OwnInOrder(current, reply.chunks)
        BY <2>4 DEF TextInv, ReplyInv
      <3>4. pc' = "next" /\ results' = Append(results, Answer("terminator", reply))
        BY <2>4 DEF Return
      <3>5. HeadInv'
        BY <3>4 DEF HeadInv
      <3>6. QED
        BY <2>1, <2>4, <3>1, <3>2, <3>3, <3>4, <3>5, TextKept
    <2>5. CASE /\ pc = "read" /\ Own(stream[1]) /\ ~Last(stream[1]) /\ GoTo(pc)
               /\ reply' = Accumulate(reply, stream[1])
      BY <2>1, <2>5, TextGrows DEF GoTo
    <2>6. QED
      BY <1>1, <1>5, <2>2, <2>3, <2>4, <2>5 DEF Handle, Reading
  <1>6. QED
    BY <1>1, <1>4, <1>5 DEF ReadPacket

LEMMA TextSteps ==
  ASSUME Inv, TextInv, SessionStep
  PROVE  TextInv'
  <1>1. CASE Dial \/ BatchEnd
    <2>1. /\ UNCHANGED <<reply, current, toServer, results>> /\ pc' \in {"auth", "done"}
      BY <1>1 DEF Dial, BatchEnd, Throw, Finish
    <2>2. QED
      BY <2>1, TextKept DEF HeadInv
  <1>2. CASE SendAuth
    <2>1. /\ UNCHANGED <<reply, current, results>> /\ pc' \in {"authRead", "authFailed"}
          /\ \/ toServer' = toServer
             \/ toServer' = Append(toServer, Request("auth", 0))
      BY <1>2 DEF SendAuth, Write, GoTo
    <2>2. Request("auth", 0) \in Requests /\ Request("auth", 0).what # "command"
      BY RequestFacts
    <2>3. QED
      BY <2>1, <2>2, TextKept DEF HeadInv
  <1>3. CASE SendProbe
    <2>1. /\ UNCHANGED <<reply, current, results>> /\ pc' \in {"read", "probeFailed"}
          /\ \/ toServer' = toServer
             \/ toServer' = Append(toServer, Request("probe", current))
          /\ reply.chunks = <<>>
      BY <1>3 DEF SendProbe, Write, GoTo, TextInv, ReplyInv
    <2>2. Request("probe", current) \in Requests /\ Request("probe", current).what # "command"
      BY RequestFacts, BatchAssumption DEF Inv, TypeInv
    <2>3. QED
      BY <2>1, <2>2, TextKept DEF HeadInv
  <1>4. CASE NextCommand
    BY <1>4, TextBegins
  <1>5. CASE ReadPacket
    BY <1>5, TextRead
  <1>6. CASE ReadRest
    <2>1. UNCHANGED <<reply, current, toServer, results>> /\ pc' \in {pc, "authFailed", "readFailed"}
      BY <1>6 DEF ReadRest, ReadFails, GoTo, noWrites
    <2>2. pc' = "readFailed" => pc = "read" \/ pc = "readFailed"
      BY <1>6 DEF ReadRest, ReadFails, GoTo, Reading
    <2>3. pc' # "probe" /\ (pc' = "read" => pc = "read")
      BY <1>6, <2>1 DEF ReadRest, Reading
    <2>4. HeadInv'
      BY <1>6, <2>1, <2>3 DEF ReadRest, TextInv, HeadInv
    <2>5. QED
      BY <2>1, <2>2, <2>3, <2>4, TextKept
  <1>7. CASE ReadExpires \/ ReadEnds
    <2>1. pc \in Reading /\ \E error : ReadFails(error)
      BY <1>7 DEF ReadExpires, ReadEnds, Reading
    <2>2. /\ UNCHANGED <<reply, current, toServer, results>>
          /\ \/ pc = "authRead" /\ pc' = "authFailed"
             \/ pc = "read" /\ pc' = "readFailed"
      BY <2>1, ReadFacts DEF Inv
    <2>3. QED
      BY <2>2, TextKept DEF HeadInv
  <1>8. CASE WriteFailed \/ ReadFailed
    <2>1. UNCHANGED <<reply, current, toServer>> /\ pc' \in {"done", "next"}
      BY <1>8 DEF WriteFailed, ReadFailed, noWrites, Throw, Return, Finish
    <2>2. HeadInv'
      BY <2>1 DEF HeadInv
    <2>3. \/ results' = results
          \/ /\ pc \in Answering
             /\ \/ \E by \in {"quiet", "closed", "probe"} :
                     results' = Append(results, Dispatched(by))
                \/ /\ pc = "readFailed"
                   /\ \E by \in {"quiet", "closed"} : results' = Append(results, Answer(by, reply))
      BY <1>8 DEF WriteFailed, ReadFailed, Dispatches, Throw, Return, Answering
    <2>4. pc \in Answering => Len(results) + 1 = current
      BY DEF Inv, StageInv, Answering
    <2>5. \A by \in {"quiet", "closed", "probe"} :
            Dispatched(by) \in Results /\ OwnInOrder(current, Dispatched(by).chunks)
      <3>1. \A by \in {"quiet", "closed", "probe"} :
              Dispatched(by) \in Results /\ Dispatched(by).chunks = <<>>
        BY ResultTypes DEF Inv, Dispatched
      <3>2. OwnInOrder(current, <<>>)
        BY DEF OwnInOrder
      <3>3. QED
        BY <3>1, <3>2
    <2>6. pc = "readFailed" => \A by \in {"quiet", "closed"} :
            Answer(by, reply) \in Results /\ OwnInOrder(current, Answer(by, reply).chunks)
      BY ResultTypes DEF Inv, Answer, TextInv, ReplyInv
    <2>7. \/ results' = results
          \/ \E x \in Results : /\ results' = Append(results, x)
                                /\ Len(results) + 1 = current /\ OwnInOrder(current, x.chunks)
      BY <2>3, <2>4, <2>5, <2>6
    <2>8. QED
      BY <2>1, <2>2, <2>7, TextKept
  <1>9. QED
    BY <1>1, <1>2, <1>3, <1>4, <1>5, <1>6, <1>7, <1>8 DEF SessionStep

LEMMA TextServed ==
  ASSUME Inv, TextInv, ServerStep
  PROVE  TextInv'
  <1>1. UNCHANGED <<pc, current, reply, results, misaligned>>
    BY DEF ServerStep, session
  <1>2. /\ stream \in Seq(Packets) /\ toServer \in Seq(Requests) /\ current \in Nat
        /\ reply.chunks \in Seq(Chunks) /\ Len(toServer) \in Nat /\ Len(stream) \in Nat
    BY BatchAssumption DEF Inv, TypeInv, Replies
  <1>3. PICK news \in Seq(Packets) : stream' = stream \o news /\ Answers(news)
    BY ServerNews
  <1>4. /\ stream' \in Seq(Packets) /\ Len(stream') = Len(stream) + Len(news) /\ Len(news) \in Nat
        /\ \A i \in 1..Len(stream) + Len(news) :
              stream'[i] = IF i <= Len(stream) THEN stream[i] ELSE news[i - Len(stream)]
    BY <1>2, <1>3, ConcatProperties
  <1>5. \A i \in 1..Len(stream') :
          \/ i \in 1..Len(stream) /\ stream'[i] = stream[i]
          \/ i - Len(stream) \in 1..Len(news) /\ stream'[i] = news[i - Len(stream)]
    BY <1>2, <1>4
  <1>6. \A i \in 1..Len(toServer') : toServer'[i].what = "command" =>
          \E n \in {0, 1} : /\ i + n \in 1..Len(toServer)
                            /\ \A j \in 1..i : toServer'[j] = toServer[j + n]
                            /\ toServer' # toServer => n = 1
    <2>1. CASE toServer' = toServer
      <3>1. \A i \in 1..Len(toServer') : /\ i + 0 \in 1..Len(toServer)
                                         /\ \A j \in 1..i : toServer'[j] = toServer[j + 0]
        BY <1>2, <2>1
      <3>2. QED
        BY <2>1, <3>1
    <2>2. CASE toServer # <<>> /\ toServer' = Tail(toServer)
      <3>1. /\ Len(toServer') = Len(toServer) - 1
            /\ \A i \in 1..Len(toServer') : toServer'[i] = toServer[i + 1]
        BY <1>2, <2>2, HeadTailProperties
      <3>2. \A i \in 1..Len(toServer') : /\ i + 1 \in 1..Len(toServer)
                                         /\ \A j \in 1..i : toServer'[j] = toServer[j + 1]
        BY <1>2, <3>1
      <3>3. QED
        BY <3>2
    <2>3. QED
      BY <2>1, <2>2 DEF ServerStep, ServerNext, ServerAuth, ServerCommand, ServerProbe,
         ServerIgnores, ServerFault, Takes
  <1>7. \A i \in 1..Len(news) : news[i].part > 0 =>
          /\ 1 \in 1..Len(toServer) /\ toServer[1].what = "command"
          /\ news[i].id = toServer[1].id /\ toServer' # toServer
    <2>1. toServer # <<>> => /\ 1 \in 1..Len(toServer) /\ Head(toServer) = toServer[1]
                             /\ Tail(toServer) # toServer
      <3>1. toServer # <<>> => Len(Tail(toServer)) = Len(toServer) - 1
        BY <1>2, HeadTailProperties
      <3>2. toServer # <<>> => Len(Tail(toServer)) # Len(toServer)
        BY <1>2, <3>1
      <3>3. QED
        BY <1>2, <3>2
    <2>2. QED
      BY <1>3, <2>1 DEF Answers
  <1>8. /\ \A i \in 1..Len(stream) : stream[i].part \in Nat /\ stream[i].id \in Int
        /\ \A i \in 1..Len(news) : news[i].part \in Nat /\ news[i].id \in Int
        /\ \A i \in 1..Len(toServer) : toServer[i].id \in Nat
    <2>1. /\ \A i \in 1..Len(stream) : stream[i] \in Packets
          /\ \A i \in 1..Len(news) : news[i] \in Packets
          /\ \A i \in 1..Len(toServer) : toServer[i] \in Requests
      BY <1>2
    <2>2. QED
      BY <2>1 DEF Packets, Requests
  <1>9. Coherent(stream')
    <2>1. \A i \in 1..Len(stream), j \in 1..Len(news) :
            stream[i].id = news[j].id /\ news[j].part > 0 => stream[i].part < news[j].part
      <3>1. SUFFICES ASSUME NEW i \in 1..Len(stream), NEW j \in 1..Len(news),
                            stream[i].id = news[j].id, news[j].part > 0
                     PROVE  stream[i].part < news[j].part
        OBVIOUS
      <3>2. stream[i].id = toServer[1].id
        BY <1>7, <3>1
      <3>3. stream[i].part > 0 => stream[i].id < toServer[1].id
        BY <1>7, <3>1 DEF TextInv, FreshInv
      <3>4. QED
        BY <1>7, <1>8, <3>1, <3>2, <3>3
    <2>2. QED
      BY <1>2, <1>3, <2>1, CoherentConcat DEF Answers, TextInv
  <1>10. IssuedInv'
    <2>1. \A i \in 1..Len(news) : news[i].part > 0 => news[i].id <= current
      BY <1>7 DEF TextInv, FreshInv
    <2>2. QED
      BY <1>1, <1>5, <2>1 DEF TextInv, IssuedInv
  <1>11. FreshInv'
    <2>1. SUFFICES ASSUME NEW i \in 1..Len(toServer'), toServer'[i].what = "command"
                   PROVE  /\ toServer'[i].id <= current
                          /\ \A j \in 1..(i - 1) : toServer'[j].what = "command" =>
                               toServer'[j].id < toServer'[i].id
                          /\ \A k \in 1..Len(stream') :
                               stream'[k].part > 0 => stream'[k].id < toServer'[i].id
                          /\ toServer'[i].id = current =>
                               \A k \in 1..Len(reply.chunks) : reply.chunks[k].part = 0
      BY <1>1 DEF FreshInv
    <2>2. PICK n \in {0, 1} : /\ i + n \in 1..Len(toServer)
                              /\ \A j \in 1..i : toServer'[j] = toServer[j + n]
                              /\ toServer' # toServer => n = 1
      BY <1>6, <2>1
    <2>3. /\ toServer'[i] = toServer[i + n]
          /\ \A j \in 1..(i - 1) : /\ toServer'[j] = toServer[j + n]
                                   /\ j + n \in 1..((i + n) - 1)
      BY <2>2
    <2>4. \A k \in 1..Len(news) : news[k].part > 0 => news[k].id < toServer[i + n].id
      <3>1. SUFFICES ASSUME NEW k \in 1..Len(news), news[k].part > 0
                     PROVE  news[k].id < toServer[i + n].id
        OBVIOUS
      <3>2. n = 1 /\ 1 \in 1..((i + n) - 1)
        BY <1>7, <2>2, <3>1
      <3>3. toServer[1].id < toServer[i + n].id
        BY <1>7, <2>1, <2>2, <2>3, <3>1, <3>2 DEF TextInv, FreshInv
      <3>4. QED
        BY <1>7, <3>1, <3>3
    <2>5. \A k \in 1..Len(stream) : stream[k].part > 0 => stream[k].id < toServer[i + n].id
      BY <2>1, <2>2, <2>3 DEF TextInv, FreshInv
    <2>6. QED
      BY <1>5, <2>1, <2>2, <2>3, <2>4, <2>5 DEF TextInv, FreshInv
  <1>12. ReplyInv'
    <2>1. pc = "read" =>
            \A i \in 1..Len(reply.chunks), j \in 1..Len(news) :
              news[j].id = current /\ news[j].part > 0 => reply.chunks[i].part < news[j].part
      BY <1>7, <1>8 DEF TextInv, FreshInv
    <2>2. pc = "read" =>
            \A i \in 1..Len(reply.chunks), j \in 1..Len(stream') :
              stream'[j].id = current /\ stream'[j].part > 0
                => reply.chunks[i].part < stream'[j].part
      BY <1>5, <2>1 DEF TextInv, ReplyInv
    <2>3. QED
      BY <1>1, <2>2 DEF TextInv, ReplyInv, OwnInOrder
  <1>13. HeadInv'
    <2>1. CASE stream = <<>>
      <3>1. stream' # <<>> => stream'[1] = news[1] /\ news # <<>>
        <4>1. Len(stream) = 0
          BY <2>1
        <4>2. stream' # <<>> => 1 \in 1..Len(news)
          BY <1>4, <4>1
        <4>3. QED
          BY <1>4, <4>1, <4>2
      <3>2. stream' # <<>> => ~Ends(stream'[1])
        BY <1>3, <3>1 DEF Answers
      <3>3. QED
        BY <1>1, <3>2 DEF TextInv, HeadInv, Ends
    <2>2. CASE stream # <<>>
      <3>1. stream'[1] = stream[1]
        BY <1>2, <1>4, <2>2
      <3>2. QED
        BY <1>1, <2>2, <3>1 DEF TextInv, HeadInv, Ends
    <2>3. QED
      BY <2>1, <2>2
  <1>14. ResultsInv' /\ Coherent(stream)'
    BY <1>1, <1>9 DEF TextInv, ResultsInv, OwnInOrder, Coherent, Ordered, Preceded, Shaped, Ends
  <1>15. QED
    BY <1>10, <1>11, <1>12, <1>13, <1>14 DEF TextInv

LEMMA AlwaysText == Spec => [](Inv /\ TextInv)
  <1>1. Init => TextInv
    <2>1. SUFFICES ASSUME Init PROVE TextInv
      OBVIOUS
    <2>2. /\ stream = <<>> /\ toServer = <<>> /\ results = <<>> /\ pc = "dial"
          /\ Len(stream) = 0 /\ Len(toServer) = 0 /\ Len(results) = 0
      BY <2>1 DEF Init, WireInit
    <2>3. Coherent(stream)
      BY <2>2 DEF Coherent, Ordered, Preceded, Shaped
    <2>4. QED
      BY <2>2, <2>3 DEF TextInv, IssuedInv, FreshInv, ReplyInv, HeadInv, ResultsInv
  <1>2. Inv /\ TextInv /\ [Next]_vars => TextInv'
    <2>1. SUFFICES ASSUME Inv, TextInv, [Next]_vars PROVE TextInv'
      OBVIOUS
    <2>2. ASSUME UNCHANGED <<pc, current, reply, results, toServer, misaligned>>,
                 stream' = stream \/ stream' = <<>>
          PROVE  TextInv'
      <3>1. CASE stream' = stream
        BY <2>1, <2>2, <3>1 DEF TextInv, IssuedInv, FreshInv, ReplyInv, HeadInv, ResultsInv,
           OwnInOrder, Coherent, Ordered, Preceded, Shaped, Ends
      <3>2. CASE stream' = <<>>
        <4>1. Len(stream') = 0
          BY <3>2
        <4>2. Coherent(stream)' /\ IssuedInv' /\ HeadInv'
          BY <2>1, <2>2, <3>2, <4>1 DEF Coherent, Ordered, Preceded, Shaped, IssuedInv, HeadInv,
             TextInv
        <4>3. FreshInv'
          BY <2>1, <2>2, <4>1 DEF TextInv, FreshInv
        <4>4. ReplyInv' /\ ResultsInv'
          BY <2>1, <2>2, <4>1 DEF TextInv, ReplyInv, ResultsInv, OwnInOrder
        <4>5. QED
          BY <4>2, <4>3, <4>4 DEF TextInv
      <3>3. QED
        BY <2>2, <3>1, <3>2
    <2>3. Environment => /\ UNCHANGED <<pc, current, reply, results, toServer, misaligned>>
                         /\ stream' = stream \/ stream' = <<>>
      BY DEF Environment, Cancel, CloseConn, PeerCloses, PeerResets
    <2>4. UNCHANGED vars => UNCHANGED <<pc, current, reply, results, toServer, misaligned, stream>>
      BY DEF vars, session, wireVars
    <2>5. QED
      BY <2>1, <2>2, <2>3, <2>4, TextSteps, TextServed DEF Next, Done
  <1>3. QED
    BY <1>1, <1>2, InitInv, StepInv, PTL DEF Spec

-----------------------------------------------------------------------------
(* executeCommands keeps the promises of CommandBatch (rcon.go lines        *)
(* 196-311), whatever the server, the deadlines and the context do, even    *)
(* after a read that was cut off in the middle of a packet.                 *)
THEOREM BatchImplemented == Spec => ImplementsCommandBatch
  BY InitInv, StepInv, AlwaysInv, PTL DEF Spec, ImplementsCommandBatch, Batch!Spec

(* A level transition is reported as dispatched only if the command itself  *)
(* was written whole (rcon.go line 253).                                    *)
THEOREM DispatchedAlwaysWritten == Spec => []DispatchedMeansWritten
<1>1. Inv => DispatchedMeansWritten
  BY DEF Inv, StageInv
<1>2. QED
  BY <1>1, AlwaysInv, PTL

(* The text of a result is that command's and in order (rcon.go lines       *)
(* 266-307), whatever is late, lost or cut by a deadline: the response of an *)
(* earlier command carries another id, and a reader that lost its place in  *)
(* the stream keeps no text until it found one again.                        *)
THEOREM TextAlwaysOwn == Spec => []TextIsOwn
<1>1. TextInv => TextIsOwn
  BY DEF TextInv, TextIsOwn, ReplyInv, ResultsInv
<1>2. QED
  BY <1>1, AlwaysText, PTL
=============================================================================
