---------------------------- MODULE PacketDecoder ---------------------------
(* RconPacketDecoder (src/lib/server/rcon.ts): the byte stream of the game   *)
(* server arrives in chunks cut anywhere, and feed() returns the packets     *)
(* that became whole.  RconSession takes for granted what is checked here:   *)
(* that packets come out as they were sent, however the stream is cut.       *)
(*                                                                           *)
(* The i-th byte of the k-th packet is <<k, i>>.  Only the size prefix and   *)
(* the two string terminators are looked at.                                 *)
EXTENDS Naturals, Sequences, FiniteSets

CONSTANTS
  Header,             \* the 4 bytes of the size prefix
  MinSize, MaxSize,   \* 10 and 65,536
  Sizes, MaxPackets   \* bounds: the sizes announced, and packets sent

ASSUME DecoderAssumption ==
  /\ Header \in Nat \ {0} /\ MinSize \in Nat \ {0} /\ MaxSize \in Nat
  /\ Sizes \subseteq Nat /\ MaxPackets \in Nat

VARIABLES
  sent,     \* what the server sends: size and terminators of each packet
  arrived,  \* number of its bytes that were fed
  buffer,   \* bytes kept for the next feed
  decoded,  \* packets returned so far
  failed    \* feed() threw

decoderVars == <<sent, arrived, buffer, decoded, failed>>

Wire(k) == [i \in 1..(Header + sent[k].size) |-> <<k, i>>]

(* The bytes of the first k packets, those of all, and how many they are.    *)
Upto ==
  LET upto[k \in 0..Len(sent)] == IF k = 0 THEN <<>> ELSE upto[k - 1] \o Wire(k) IN upto
Stream == Upto[Len(sent)]
EndOf(k) == Len(Upto[k])

DecoderInit ==
  /\ \E n \in 0..MaxPackets : sent \in [1..n -> [size : Sizes, terminated : BOOLEAN]]
  /\ arrived = 0 /\ buffer = <<>> /\ decoded = <<>> /\ failed = FALSE

(* readInt32LE(0): anything if the buffer does not begin with a prefix.      *)
SizeAt(bytes) == IF bytes[1][2] = 1 THEN sent[bytes[1][1]].size ELSE MinSize
Terminated(packet) == sent[packet[1][1]].terminated

(* Bugs: sizes above the limit are waited for; a packet that is just whole   *)
(* is kept back; the prefix of a packet is left in the buffer.               *)
BugValid(size) == size >= MinSize
Valid(size) == size \in MinSize..MaxSize
BugIncomplete(bytes, size) == Len(bytes) <= Header + size
Incomplete(bytes, size) == Len(bytes) < Header + size
BugRest(bytes, size) == SubSeq(bytes, size + 1, Len(bytes))
Rest(bytes, size) == SubSeq(bytes, Header + size + 1, Len(bytes))

(* One turn of the loop of feed(), with the packets it has and whether it    *)
(* throws; once it does not go on, it stays as it is.                        *)
Turn(loop) ==
  LET bytes == loop.buffer
      size == SizeAt(bytes)
      raw == SubSeq(bytes, 1, Header + size)
  IN IF loop.failed \/ Len(bytes) < Header THEN loop
     ELSE IF ~Valid(size) THEN [loop EXCEPT !.failed = TRUE]
     ELSE IF Incomplete(bytes, size) THEN loop
     ELSE IF Terminated(raw)
       THEN [loop EXCEPT !.buffer = Rest(bytes, size), !.packets = Append(@, raw)]
     ELSE [loop EXCEPT !.buffer = Rest(bytes, size), !.failed = TRUE]

(* Every turn that goes on takes a byte: there are never more turns.         *)
Turns(bytes) ==
  LET loop[n \in 0..Len(bytes)] ==
        IF n = 0 THEN [buffer |-> bytes, packets |-> <<>>, failed |-> FALSE]
        ELSE Turn(loop[n - 1])
  IN loop
Decode(bytes) == Turns(bytes)[Len(bytes)]

(* One chunk.  A feed that throws returns none of the packets it decoded,    *)
(* and the session never feeds again.                                        *)
Feed(n) ==
  /\ ~failed /\ arrived + n <= Len(Stream)
  /\ LET result == Decode(buffer \o SubSeq(Stream, arrived + 1, arrived + n)) IN
     /\ buffer' = result.buffer
     /\ failed' = result.failed
     /\ decoded' = IF result.failed THEN decoded ELSE decoded \o result.packets
  /\ arrived' = arrived + n
  /\ UNCHANGED sent

-----------------------------------------------------------------------------
(* Reference: what is wrong with packet k, seen from the bytes that arrived. *)
Rejected(k) ==
  \/ sent[k].size \notin MinSize..MaxSize /\ EndOf(k - 1) + Header <= arrived
  \/ ~sent[k].terminated /\ EndOf(k) <= arrived

(* However the stream is cut, the packets come out whole, in order and once  *)
(* (feed, lines 73-98).                                                      *)
PacketsAsSent == \A k \in 1..Len(decoded) : decoded[k] = Wire(k)

(* No packet waits for bytes that are not its own: the last packet of a      *)
(* response is out as soon as its last byte came (line 82).                  *)
NothingWithheld ==
  ~failed => Len(decoded) = Cardinality({k \in 1..Len(sent) : EndOf(k) <= arrived})

(* feed() throws exactly when a packet that arrived so far is invalid        *)
(* (lines 79-81 and 86-88).                                                  *)
FailsOnInvalid == failed <=> \E k \in 1..Len(sent) : Rejected(k)

(* Together: what feed() makes of the stream depends on the bytes that came, *)
(* never on how they were cut (lines 70-98).                                 *)
DecodesTheStream == PacketsAsSent /\ NothingWithheld /\ FailsOnInvalid
=============================================================================
