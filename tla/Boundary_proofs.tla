-------------------------- MODULE Boundary_proofs ---------------------------
(* What comes from outside, for any stream of a game server and any cuts of  *)
(* it, all addresses, every deployment and request, and lists of any length: *)
(* what the decoder, the address policies, the guards of the two servers and *)
(* the tables of players and maps make of it (Boundary).  And the bodies of  *)
(* a request to the Workshop route, for every limit and chunks of every size *)
(* (WorkshopRoute).                                                          *)
EXTENDS Boundary, WorkshopRoute, FiniteSetTheorems, SequenceTheorems, WellFoundedInduction, TLAPS

-----------------------------------------------------------------------------
(* The packet decoder.                                                       *)

(* Induction along a list, from the least counterexample: the theorem of the *)
(* library takes a predicate, this one a set of positions.                   *)
LEMMA AlongList ==
  ASSUME NEW N \in Nat, NEW S, 0 \in S, \A n \in 1..N : n - 1 \in S => n \in S
  PROVE  N \in S
  <1> DEFINE R == {pair \in Nat \X Nat : pair[1] < pair[2]}
             T == {n \in 0..N : n \notin S}
  <1>1. IsWellFoundedOn(R, Nat)
    BY NatLessThanWellFounded, Zenon DEF OpToRel
  <1> SUFFICES ASSUME N \notin S PROVE FALSE
    OBVIOUS
  <1>0. T # {}
    BY N \in 0..N
  <1>2. T \subseteq Nat
    OBVIOUS
  <1>3. \A m, n \in Nat : m < n => <<m, n>> \in R
    OBVIOUS
  <1> HIDE DEF R
  <1>4. PICK n \in T : \A m \in T : <<m, n>> \notin R
    BY <1>0, <1>1, <1>2, WFMin
  <1>5. n \in 1..N /\ n - 1 \in 0..N
    OBVIOUS
  <1>6. n - 1 \in T
    BY <1>5
  <1>7. <<n - 1, n>> \in R
    BY <1>3, <1>5
  <1> QED
    BY <1>4, <1>6, <1>7

LEMMA LeastNumber ==
  ASSUME NEW S, S \subseteq Nat, S # {}
  PROVE  \E n \in S : \A m \in S : n <= m
  <1> DEFINE R == {pair \in Nat \X Nat : pair[1] < pair[2]}
  <1>1. IsWellFoundedOn(R, Nat)
    BY NatLessThanWellFounded, Zenon DEF OpToRel
  <1>2. \A m, n \in Nat : m < n => <<m, n>> \in R
    OBVIOUS
  <1> HIDE DEF R
  <1>3. PICK n \in S : \A m \in S : <<m, n>> \notin R
    BY <1>1, WFMin
  <1>4. \A m \in S : ~(m < n) /\ m \in Nat /\ n \in Nat
    BY <1>2, <1>3
  <1> QED
    BY <1>4

(* What the packets of a server are.                                         *)
Packets == [size : Sizes, terminated : BOOLEAN]
Bytes == Nat \X Nat

Joins(upto, k) == IF k = 0 THEN <<>> ELSE upto[k - 1] \o Wire(k)

(* The stream is made packet by packet, from the first to the last.          *)
LEMMA UptoDef ==
  ASSUME Len(sent) \in Nat
  PROVE  /\ Upto[0] = <<>>
         /\ \A k \in 1..Len(sent) : Upto[k] = Upto[k - 1] \o Wire(k)
  <1> DEFINE S == {n \in 0..Len(sent) : \E upto : upto = [k \in 0..n |-> Joins(upto, k)]}
  <1>1. 0 \in S
    <2> DEFINE upto == [k \in 0..0 |-> <<>>]
    <2>1. \A k \in 0..0 : Joins(upto, k) = <<>>
      BY DEF Joins
    <2>2. upto = [k \in 0..0 |-> Joins(upto, k)]
      BY <2>1
    <2>3. 0 \in 0..Len(sent)
      OBVIOUS
    <2> HIDE DEF upto
    <2> QED
      BY <2>2, <2>3
  <1>2. ASSUME NEW n \in 1..Len(sent), n - 1 \in S
        PROVE  n \in S
    <2>1. PICK upto : upto = [k \in 0..(n - 1) |-> Joins(upto, k)]
      BY <1>2
    <2> DEFINE next == [k \in 0..n |-> IF k = n THEN Joins(upto, n) ELSE upto[k]]
    <2>2. \A k \in 0..n : next[k] = Joins(upto, k)
      <3> TAKE k \in 0..n
      <3>1. CASE k = n
        BY <3>1
      <3>2. CASE k # n
        <4>1. k \in 0..(n - 1)
          BY <3>2
        <4>2. upto[k] = Joins(upto, k)
          BY <2>1, <4>1
        <4> QED
          BY <3>2, <4>2
      <3> QED
        BY <3>1, <3>2
    <2>3. \A k \in 1..n : next[k - 1] = upto[k - 1]
      OBVIOUS
    <2>4. next = [k \in 0..n |-> next[k]]
      OBVIOUS
    <2> HIDE DEF next
    <2>5. \A k \in 0..n : next[k] = Joins(next, k)
      BY <2>2, <2>3 DEF Joins
    <2>6. next = [k \in 0..n |-> Joins(next, k)]
      BY <2>4, <2>5
    <2> QED
      BY <2>6
  <1>3. Len(sent) \in S
    <2> HIDE DEF S
    <2> QED
      BY <1>1, <1>2, AlongList
  <1>4. \E upto : upto = [k \in 0..Len(sent) |-> Joins(upto, k)]
    BY <1>3
  <1>5. Upto = [k \in 0..Len(sent) |-> Joins(Upto, k)]
    BY <1>4, Zenon DEF Upto, Joins
  <1>6. \A k \in 0..Len(sent) : Upto[k] = Joins(Upto, k)
    BY <1>5
  <1>7. 0 \in 0..Len(sent) /\ \A k \in 1..Len(sent) : k \in 0..Len(sent) /\ k # 0
    OBVIOUS
  <1> QED
    BY <1>6, <1>7 DEF Joins

Starts(bytes) == [buffer |-> bytes, packets |-> <<>>, failed |-> FALSE]
Goes(loop, bytes, n) == IF n = 0 THEN Starts(bytes) ELSE Turn(loop[n - 1])

(* The loop goes from its first turn to its last.                            *)
LEMMA TurnsDef ==
  ASSUME NEW bytes, Len(bytes) \in Nat
  PROVE  /\ Turns(bytes)[0] = Starts(bytes)
         /\ \A n \in 1..Len(bytes) : Turns(bytes)[n] = Turn(Turns(bytes)[n - 1])
  <1> DEFINE S == {n \in 0..Len(bytes) : \E loop : loop = [k \in 0..n |-> Goes(loop, bytes, k)]}
  <1>1. 0 \in S
    <2> DEFINE loop == [k \in 0..0 |-> Starts(bytes)]
    <2>1. \A k \in 0..0 : Goes(loop, bytes, k) = Starts(bytes)
      BY DEF Goes
    <2>2. loop = [k \in 0..0 |-> Goes(loop, bytes, k)]
      BY <2>1
    <2>3. 0 \in 0..Len(bytes)
      OBVIOUS
    <2> HIDE DEF loop
    <2> QED
      BY <2>2, <2>3
  <1>2. ASSUME NEW n \in 1..Len(bytes), n - 1 \in S
        PROVE  n \in S
    <2>1. PICK loop : loop = [k \in 0..(n - 1) |-> Goes(loop, bytes, k)]
      BY <1>2
    <2> DEFINE next == [k \in 0..n |-> IF k = n THEN Goes(loop, bytes, n) ELSE loop[k]]
    <2>2. \A k \in 0..n : next[k] = Goes(loop, bytes, k)
      <3> TAKE k \in 0..n
      <3>1. CASE k = n
        BY <3>1
      <3>2. CASE k # n
        <4>1. k \in 0..(n - 1)
          BY <3>2
        <4>2. loop[k] = Goes(loop, bytes, k)
          BY <2>1, <4>1
        <4> QED
          BY <3>2, <4>2
      <3> QED
        BY <3>1, <3>2
    <2>3. \A k \in 1..n : next[k - 1] = loop[k - 1]
      OBVIOUS
    <2>4. next = [k \in 0..n |-> next[k]]
      OBVIOUS
    <2> HIDE DEF next
    <2>5. \A k \in 0..n : next[k] = Goes(next, bytes, k)
      BY <2>2, <2>3 DEF Goes
    <2>6. next = [k \in 0..n |-> Goes(next, bytes, k)]
      BY <2>4, <2>5
    <2> QED
      BY <2>6
  <1>3. Len(bytes) \in S
    <2> HIDE DEF S
    <2> QED
      BY <1>1, <1>2, AlongList
  <1>4. \E loop : loop = [k \in 0..Len(bytes) |-> Goes(loop, bytes, k)]
    BY <1>3
  <1>5. Turns(bytes) = [n \in 0..Len(bytes) |-> Goes(Turns(bytes), bytes, n)]
    BY <1>4, Zenon DEF Turns, Goes, Starts
  <1>6. \A n \in 0..Len(bytes) : Turns(bytes)[n] = Goes(Turns(bytes), bytes, n)
    BY <1>5
  <1>7. 0 \in 0..Len(bytes) /\ \A n \in 1..Len(bytes) : n \in 0..Len(bytes) /\ n # 0
    OBVIOUS
  <1> QED
    BY <1>6, <1>7 DEF Goes

(* What the first n packets are.                                             *)
Laid(n) ==
  /\ Upto[n] \in Seq(Bytes)
  /\ \A k \in 0..n : EndOf(k) \in Nat /\ EndOf(k) + (n - k) <= EndOf(n)
  /\ \A k \in 1..n : EndOf(k) = EndOf(k - 1) + Header + sent[k].size
  /\ \A k \in 1..n : \A i \in 1..(Header + sent[k].size) : Upto[n][EndOf(k - 1) + i] = <<k, i>>

LEMMA WireFacts ==
  ASSUME sent \in Seq(Packets), NEW k \in 1..Len(sent)
  PROVE  /\ sent[k].size \in Nat /\ sent[k].terminated \in BOOLEAN
         /\ Wire(k) \in Seq(Bytes) /\ Len(Wire(k)) = Header + sent[k].size
         /\ \A i \in 1..(Header + sent[k].size) : Wire(k)[i] = <<k, i>>
  <1>1. sent[k] \in Packets
    OBVIOUS
  <1>2. sent[k].size \in Nat /\ sent[k].terminated \in BOOLEAN
    BY <1>1, DecoderAssumption DEF Packets
  <1> DEFINE n == Header + sent[k].size
  <1>3. n \in Nat
    BY <1>2, DecoderAssumption
  <1>4. Wire(k) = [i \in 1..n |-> <<k, i>>]
    BY DEF Wire
  <1> HIDE DEF n
  <1>5. [i \in 1..n |-> <<k, i>>] \in Seq(Bytes)
    BY <1>3 DEF Bytes
  <1>6. Len([i \in 1..n |-> <<k, i>>]) = n
    BY <1>3
  <1> QED
    BY <1>2, <1>4, <1>5, <1>6 DEF n

(* One packet more.                                                          *)
LEMMA UptoStep ==
  ASSUME sent \in Seq(Packets), NEW n \in 1..Len(sent), Laid(n - 1)
  PROVE  /\ Laid(n)
         /\ \A j \in 1..EndOf(n - 1) : Upto[n][j] = Upto[n - 1][j]
  <1> DEFINE W == Wire(n)
             size == sent[n].size
  <1>1. /\ size \in Nat /\ W \in Seq(Bytes) /\ Len(W) = Header + size
        /\ \A i \in 1..(Header + size) : W[i] = <<n, i>>
    BY WireFacts
  <1>2. Upto[n] = Upto[n - 1] \o W
    <2>1. Len(sent) \in Nat
      OBVIOUS
    <2> QED
      BY <2>1, UptoDef
  <1> DEFINE U == Upto[n - 1]
  <1>3. U \in Seq(Bytes) /\ Len(U) = EndOf(n - 1) /\ EndOf(n - 1) \in Nat
    <2>1. U \in Seq(Bytes)
      BY DEF Laid
    <2>2. Len(U) \in Nat
      BY <2>1
    <2> QED
      BY <2>1, <2>2 DEF EndOf
  <1> HIDE DEF W, size, U
  <1>4. U \o W \in Seq(Bytes) /\ Len(U \o W) = Len(U) + Len(W)
    BY <1>1, <1>3, ConcatProperties
  <1>5. Upto[n] \in Seq(Bytes) /\ EndOf(n) = EndOf(n - 1) + Header + size
    <2>1. EndOf(n) = Len(U \o W)
      BY <1>2 DEF EndOf, U
    <2>2. Upto[n] = U \o W
      BY <1>2 DEF U
    <2> QED
      BY <1>1, <1>3, <1>4, <2>1, <2>2, DecoderAssumption
  <1>6. \A j \in 1..EndOf(n - 1) : Upto[n][j] = U[j]
    <2>1. \A j \in 1..Len(U) : (U \o W)[j] = U[j]
      BY <1>1, <1>3
    <2> QED
      BY <1>2, <1>3, <2>1 DEF U
  <1>7. \A i \in 1..(Header + size) : Upto[n][EndOf(n - 1) + i] = <<n, i>>
    <2>1. \A i \in 1..Len(W) : (U \o W)[Len(U) + i] = W[i]
      BY <1>1, <1>3
    <2>2. Upto[n] = U \o W
      BY <1>2 DEF U
    <2> QED
      BY <1>1, <1>3, <2>1, <2>2
  <1>8. ASSUME NEW k \in 0..n
        PROVE  EndOf(k) \in Nat /\ EndOf(k) + (n - k) <= EndOf(n)
    <2>1. CASE k = n
      BY <1>1, <1>3, <1>5, <2>1, DecoderAssumption
    <2>2. CASE k # n
      <3>1. k \in 0..(n - 1)
        BY <2>2
      <3>2. EndOf(k) \in Nat /\ EndOf(k) + (n - 1 - k) <= EndOf(n - 1)
        BY <3>1 DEF Laid
      <3>3. EndOf(n - 1) \in Nat /\ EndOf(n) \in Nat /\ EndOf(n - 1) + 1 <= EndOf(n)
        BY <1>1, <1>3, <1>5, DecoderAssumption
      <3> QED
        BY <3>1, <3>2, <3>3
    <2> QED
      BY <2>1, <2>2
  <1>9. ASSUME NEW k \in 1..n, NEW i \in 1..(Header + sent[k].size)
        PROVE  Upto[n][EndOf(k - 1) + i] = <<k, i>>
    <2>1. CASE k = n
      BY <1>7, <2>1 DEF size
    <2>2. CASE k # n
      <3>1. k \in 1..(n - 1) /\ k \in 0..(n - 1) /\ k - 1 \in 0..(n - 1) /\ k \in 1..Len(sent)
        BY <2>2
      <3>2. U[EndOf(k - 1) + i] = <<k, i>>
        BY <3>1 DEF Laid, U
      <3>3. /\ EndOf(k - 1) \in Nat /\ EndOf(k) \in Nat /\ EndOf(k) <= EndOf(n - 1)
            /\ EndOf(k) = EndOf(k - 1) + Header + sent[k].size
        <4>1. EndOf(k) + (n - 1 - k) <= EndOf(n - 1) /\ EndOf(k) \in Nat
          BY <3>1 DEF Laid
        <4>2. EndOf(k - 1) \in Nat /\ EndOf(k) = EndOf(k - 1) + Header + sent[k].size
          BY <3>1 DEF Laid
        <4> QED
          BY <1>3, <3>1, <4>1, <4>2
      <3>4. sent[k].size \in Nat
        BY <3>1, WireFacts
      <3>5. EndOf(k - 1) + i \in 1..EndOf(n - 1)
        <4>1. i \in Nat /\ 1 <= i /\ i <= Header + sent[k].size
          BY <3>4, DecoderAssumption
        <4>2. EndOf(k - 1) + i <= EndOf(k)
          BY SMTT(30), <3>3, <3>4, <4>1, DecoderAssumption
        <4>3. EndOf(n - 1) \in Nat
          BY <1>3
        <4> QED
          BY <3>3, <4>1, <4>2, <4>3
      <3> QED
        BY <1>6, <3>2, <3>5
    <2> QED
      BY <2>1, <2>2
  <1>10. ASSUME NEW k \in 1..n
         PROVE  EndOf(k) = EndOf(k - 1) + Header + sent[k].size
    <2>1. CASE k = n
      BY <1>5, <2>1 DEF size
    <2>2. CASE k # n
      <3>1. k \in 1..(n - 1)
        BY <2>2
      <3> QED
        BY <3>1 DEF Laid
    <2> QED
      BY <2>1, <2>2
  <1>11. Laid(n)
    BY <1>5, <1>8, <1>9, <1>10 DEF Laid
  <1> QED
    BY <1>6, <1>11 DEF U

(* Where each byte of each packet is, and that packets follow each other.    *)
LEMMA StreamFacts ==
  ASSUME sent \in Seq(Packets)
  PROVE  /\ Stream \in Seq(Bytes) /\ EndOf(0) = 0 /\ EndOf(Len(sent)) = Len(Stream)
         /\ \A k \in 0..Len(sent) : EndOf(k) \in Nat
         /\ \A j, k \in 0..Len(sent) : j <= k => EndOf(j) + (k - j) <= EndOf(k)
         /\ \A k \in 1..Len(sent) : EndOf(k) = EndOf(k - 1) + Header + sent[k].size
         /\ \A k \in 1..Len(sent) : \A i \in 1..(Header + sent[k].size) :
              Stream[EndOf(k - 1) + i] = <<k, i>>
  <1>0. Len(sent) \in Nat
    OBVIOUS
  <1>1. Upto[0] = <<>>
    BY <1>0, UptoDef
  <1>2. EndOf(0) = 0
    BY <1>1 DEF EndOf
  <1>3. Laid(0)
    BY <1>1, <1>2 DEF Laid
  <1>4. \A n \in 0..Len(sent) : Laid(n)
    <2> TAKE n \in 0..Len(sent)
    <2> DEFINE S == {m \in 0..n : Laid(m)}
    <2>1. 0 \in S
      BY <1>3
    <2>2. \A m \in 1..n : m - 1 \in S => m \in S
      <3> TAKE m \in 1..n
      <3> HAVE m - 1 \in S
      <3>1. m \in 1..Len(sent) /\ m \in 0..n /\ Laid(m - 1)
        OBVIOUS
      <3> QED
        BY <3>1, UptoStep
    <2>3. n \in S
      <3> HIDE DEF S
      <3> QED
        BY <2>1, <2>2, AlongList
    <2> QED
      BY <2>3
  <1>5. Laid(Len(sent)) /\ Stream = Upto[Len(sent)]
    BY <1>0, <1>4 DEF Stream
  <1>6. \A j, k \in 0..Len(sent) : j <= k => EndOf(j) + (k - j) <= EndOf(k)
    BY <1>4 DEF Laid
  <1> QED
    BY <1>2, <1>5, <1>6 DEF Laid, EndOf

-----------------------------------------------------------------------------
(* One turn.                                                                 *)

(* The bytes of the stream after the first "from", up to "to".               *)
Piece(from, to) == [j \in 1..(to - from) |-> Stream[from + j]]

Good(k) == Valid(sent[k].size) /\ sent[k].terminated

(* Nothing to do with what follows packet e in the first "to" bytes.         *)
Stuck(e, to) ==
  \/ to < EndOf(e) + Header
  \/ e < Len(sent) /\ Valid(sent[e + 1].size) /\ to < EndOf(e + 1)

(* Packet k is invalid, as the first "to" bytes show.                        *)
Shows(k, to) ==
  \/ ~Valid(sent[k].size) /\ EndOf(k - 1) + Header <= to
  \/ ~sent[k].terminated /\ EndOf(k) <= to

(* The loop has e packets of the first "to" bytes, the last of them since    *)
(* packet d.                                                                 *)
Holds(loop, d, e, to) ==
  /\ e \in d..Len(sent) /\ EndOf(e) <= to
  /\ loop.packets = [i \in 1..(e - d) |-> Wire(d + i)]
  /\ loop.buffer = Piece(EndOf(e), to)
  /\ \A k \in 1..e : Good(k)

Loops == [buffer : Seq(Bytes), packets : Seq(Seq(Bytes)), failed : BOOLEAN]

(* What the second of two sequences contributes to the whole.                *)
LEMMA SecondPart ==
  ASSUME NEW X, NEW s \in Seq(X), NEW t \in Seq(X),
         NEW k \in 1..(Len(s) + Len(t)), k \notin 1..Len(s)
  PROVE  (s \o t)[k] = t[k - Len(s)]
  <1>1. Len(s) \in Nat /\ Len(t) \in Nat
    OBVIOUS
  <1>2. k \in Nat /\ k > Len(s)
    BY <1>1
  <1> QED
    BY <1>1, <1>2, ConcatProperties

LEMMA PieceFacts ==
  ASSUME sent \in Seq(Packets), NEW from \in Nat, NEW to \in Nat,
         from <= to, to <= Len(Stream)
  PROVE  /\ Piece(from, to) \in Seq(Bytes) /\ Len(Piece(from, to)) = to - from
         /\ \A j \in 1..(to - from) : Piece(from, to)[j] = Stream[from + j]
         /\ SubSeq(Stream, from + 1, to) = Piece(from, to)
  <1>1. Stream \in Seq(Bytes) /\ Len(Stream) \in Nat
    BY StreamFacts
  <1>2. to - from \in Nat
    OBVIOUS
  <1>3. \A j \in 1..(to - from) : Stream[from + j] \in Bytes
    BY <1>1
  <1>4. Piece(from, to) \in Seq(Bytes)
    BY <1>2, <1>3 DEF Piece
  <1>5. Len(Piece(from, to)) = to - from
    BY <1>2 DEF Piece
  <1>6. SubSeq(Stream, from + 1, to) = Piece(from, to)
    BY <1>1 DEF Piece
  <1> QED
    BY <1>4, <1>5, <1>6 DEF Piece

(* Pieces that follow each other.                                            *)
LEMMA PiecesJoin ==
  ASSUME sent \in Seq(Packets), NEW from \in Nat, NEW mid \in Nat, NEW to \in Nat,
         from <= mid, mid <= to, to <= Len(Stream)
  PROVE  /\ Piece(from, mid) \o Piece(mid, to) = Piece(from, to)
         /\ SubSeq(Piece(from, to), 1, mid - from) = Piece(from, mid)
         /\ SubSeq(Piece(from, to), mid - from + 1, to - from) = Piece(mid, to)
  <1>0. Len(Stream) \in Nat /\ mid <= Len(Stream) /\ from <= to
    <2>1. Len(Stream) \in Nat
      BY StreamFacts
    <2> QED
      BY <2>1
  <1> DEFINE P == Piece(from, mid)
             Q == Piece(mid, to)
             R == Piece(from, to)
  <1>1. /\ P \in Seq(Bytes) /\ Len(P) = mid - from
        /\ \A j \in 1..(mid - from) : P[j] = Stream[from + j]
    BY <1>0, PieceFacts
  <1>2. /\ Q \in Seq(Bytes) /\ Len(Q) = to - mid
        /\ \A j \in 1..(to - mid) : Q[j] = Stream[mid + j]
    BY <1>0, PieceFacts
  <1>3. /\ R \in Seq(Bytes) /\ Len(R) = to - from
        /\ \A j \in 1..(to - from) : R[j] = Stream[from + j]
    BY <1>0, PieceFacts
  <1> HIDE DEF P, Q, R
  <1>4. P \o Q = R
    <2>1. P \o Q \in Seq(Bytes) /\ Len(P \o Q) = to - from
      <3>1. P \o Q \in Seq(Bytes) /\ Len(P \o Q) = Len(P) + Len(Q)
        BY <1>1, <1>2, ConcatProperties
      <3> QED
        BY <1>1, <1>2, <3>1
    <2>2. ASSUME NEW j \in 1..(to - from)
          PROVE  (P \o Q)[j] = R[j]
      <3>1. CASE j <= mid - from
        <4>1. j \in 1..(mid - from)
          BY <3>1
        <4>2. (P \o Q)[j] = P[j]
          BY <1>1, <1>2, <4>1, ConcatProperties
        <4>3. P[j] = Stream[from + j] /\ R[j] = Stream[from + j]
          BY <1>1, <1>3, <4>1
        <4> QED
          BY <4>2, <4>3
      <3>2. CASE j > mid - from
        <4> DEFINE i == j - (mid - from)
        <4>1. (P \o Q)[j] = Q[i]
          <5>1. /\ mid - from \in Nat /\ to - mid \in Nat
                /\ j \in 1..((mid - from) + (to - mid)) /\ j \notin 1..(mid - from)
            BY <3>2
          <5>2. P \in Seq(Bytes) /\ Q \in Seq(Bytes) /\ Len(P) = mid - from /\ Len(Q) = to - mid
            BY <1>1, <1>2
          <5> QED
            BY <5>1, <5>2, SecondPart
        <4>2. i \in 1..(to - mid) /\ mid + i = from + j
          BY <3>2
        <4> HIDE DEF i
        <4>3. Q[i] = Stream[mid + i] /\ R[j] = Stream[from + j]
          BY <1>2, <1>3, <4>2
        <4> QED
          BY <4>1, <4>2, <4>3
      <3>3. j <= mid - from \/ j > mid - from
        OBVIOUS
      <3> QED
        BY <3>1, <3>2, <3>3, Zenon
    <2> QED
      BY <1>3, <2>1, <2>2, SeqEqual
  <1>5. SubSeq(R, 1, mid - from) = P
    <2>1. SubSeq(R, 1, mid - from) \in Seq(Bytes) /\ Len(SubSeq(R, 1, mid - from)) = mid - from
      BY <1>3
    <2>2. \A j \in 1..(mid - from) : SubSeq(R, 1, mid - from)[j] = P[j]
      BY <1>1, <1>3
    <2> QED
      BY <1>1, <2>1, <2>2, SeqEqual
  <1>6. SubSeq(R, mid - from + 1, to - from) = Q
    <2> DEFINE T == SubSeq(R, mid - from + 1, to - from)
    <2>1. T \in Seq(Bytes) /\ Len(T) = to - mid
      BY <1>3
    <2>2. \A j \in 1..(to - mid) : T[j] = Q[j]
      <3> TAKE j \in 1..(to - mid)
      <3>1. T[j] = R[mid - from + j] /\ mid - from + j \in 1..(to - from)
        BY <1>3
      <3>2. from + (mid - from + j) = mid + j
        OBVIOUS
      <3> QED
        BY <1>2, <1>3, <3>1, <3>2
    <2> HIDE DEF T
    <2>3. T = Q
      BY <1>2, <2>1, <2>2, SeqEqual
    <2> QED
      BY <2>3 DEF T
  <1> QED
    BY <1>4, <1>5, <1>6 DEF P, Q, R

(* A turn rejects the packet after the e-th, leaves it where it is, or takes *)
(* it.                                                                       *)
LEMMA TurnFacts ==
  ASSUME sent \in Seq(Packets), NEW d \in Nat, NEW e \in Nat, NEW to \in Nat,
         to <= Len(Stream),
         NEW loop \in Loops, ~loop.failed, Holds(loop, d, e, to)
  PROVE  /\ Turn(loop) \in Loops
         /\ \/ Turn(loop).failed /\ \E k \in 1..Len(sent) : Shows(k, to)
            \/ ~Turn(loop).failed /\ Holds(Turn(loop), d, e, to) /\ Stuck(e, to)
            \/ ~Turn(loop).failed /\ Holds(Turn(loop), d, e + 1, to)
  <1> DEFINE bytes == loop.buffer
  <1>1. /\ Len(sent) \in Nat /\ e \in 0..Len(sent) /\ EndOf(e) \in Nat /\ EndOf(e) <= to /\ d <= e
        /\ EndOf(Len(sent)) = Len(Stream) /\ Header \in Nat \ {0}
    BY StreamFacts, DecoderAssumption DEF Holds
  <1>2. /\ bytes = Piece(EndOf(e), to) /\ bytes \in Seq(Bytes) /\ Len(bytes) = to - EndOf(e)
        /\ \A j \in 1..(to - EndOf(e)) : bytes[j] = Stream[EndOf(e) + j]
    <2>1. bytes = Piece(EndOf(e), to)
      BY DEF Holds
    <2> DEFINE P == Piece(EndOf(e), to)
    <2>2. /\ P \in Seq(Bytes) /\ Len(P) = to - EndOf(e)
          /\ \A j \in 1..(to - EndOf(e)) : P[j] = Stream[EndOf(e) + j]
      BY <1>1, PieceFacts
    <2> QED
      BY <2>1, <2>2
  <1>3. CASE Len(bytes) < Header
    <2>1. Turn(loop) = loop
      BY <1>3 DEF Turn
    <2>2. Stuck(e, to)
      BY <1>1, <1>2, <1>3 DEF Stuck
    <2> QED
      BY <2>1, <2>2
  <1>4. CASE ~(Len(bytes) < Header)
    <2> DEFINE k == e + 1
               size == sent[k].size
               raw == SubSeq(bytes, 1, Header + size)
    <2>1. EndOf(e) + Header <= to
      BY <1>1, <1>2, <1>4
    <2>2. k \in 1..Len(sent)
      <3>1. e # Len(sent)
        BY <1>1, <2>1
      <3> QED
        BY <1>1, <3>1
    <2>3. /\ size \in Nat /\ sent[k].terminated \in BOOLEAN
          /\ EndOf(k) \in Nat /\ EndOf(k) = EndOf(e) + Header + size
          /\ \A i \in 1..(Header + size) : Stream[EndOf(e) + i] = <<k, i>>
      <3>1. k - 1 = e /\ k \in 0..Len(sent)
        BY <1>1, <2>2
      <3> QED
        BY <2>2, <3>1, WireFacts, StreamFacts
    <2>4. bytes[1] = <<k, 1>>
      <3>1. 1 \in 1..(Header + size) /\ 1 \in 1..(to - EndOf(e))
        <4>1. Header \in Nat \ {0} /\ size \in Nat /\ EndOf(e) \in Nat /\ EndOf(e) + Header <= to
          BY <1>1, <2>1, <2>3
        <4> QED
          BY SMTT(30), <4>1
      <3>2. bytes[1] = Stream[EndOf(e) + 1]
        BY <1>2, <3>1
      <3> QED
        BY <2>3, <3>1, <3>2
    <2>5. SizeAt(bytes) = size
      BY <2>4 DEF SizeAt
    <2> HIDE DEF k, bytes
    <2>6. CASE ~Valid(size)
      <3>1. Turn(loop) = [loop EXCEPT !.failed = TRUE]
        BY <1>4, <2>5, <2>6 DEF Turn, bytes
      <3>2. Turn(loop) \in Loops /\ Turn(loop).failed
        BY <3>1 DEF Loops
      <3>3. Shows(k, to)
        BY <1>1, <2>1, <2>6 DEF Shows, k
      <3> QED
        BY <2>2, <3>2, <3>3
    <2>7. CASE Valid(size) /\ Incomplete(bytes, size)
      <3>1. Turn(loop) = loop
        BY <2>5, <2>7 DEF Turn, bytes
      <3>2. to < EndOf(k)
        <4>1. to - EndOf(e) < Header + size
          BY <1>2, <2>7 DEF Incomplete
        <4>2. EndOf(e) \in Nat /\ Header \in Nat /\ size \in Nat /\ EndOf(k) = EndOf(e) + Header + size
          BY <1>1, <2>3
        <4> QED
          BY <4>1, <4>2
      <3>3. Stuck(e, to)
        BY <1>1, <2>2, <2>7, <3>2 DEF Stuck, k
      <3> QED
        BY <3>1, <3>3
    <2>8. CASE Valid(size) /\ ~Incomplete(bytes, size)
      <3>0. EndOf(e) <= EndOf(k)
        BY <1>1, <2>3
      <3>1. EndOf(k) <= to
        <4>1. ~(to - EndOf(e) < Header + size)
          BY <1>2, <2>8 DEF Incomplete
        <4>2. EndOf(e) \in Nat /\ Header \in Nat /\ size \in Nat /\ EndOf(k) = EndOf(e) + Header + size
          BY <1>1, <2>3
        <4> QED
          BY <4>1, <4>2
      <3>2. raw = Wire(k)
        <4>1. SubSeq(bytes, 1, EndOf(k) - EndOf(e)) = Piece(EndOf(e), EndOf(k))
          <5>1. SubSeq(Piece(EndOf(e), to), 1, EndOf(k) - EndOf(e)) = Piece(EndOf(e), EndOf(k))
            <6>1. EndOf(e) \in Nat /\ EndOf(k) \in Nat /\ EndOf(e) <= EndOf(k) /\ EndOf(k) <= to
              BY <1>1, <2>3, <3>0, <3>1
            <6> QED
              BY Zenon, <6>1, PiecesJoin
          <5> QED
            BY <1>2, <5>1
        <4>2. EndOf(k) - EndOf(e) = Header + size
          BY <1>1, <2>3
        <4>3. raw = Piece(EndOf(e), EndOf(k))
          BY <4>1, <4>2
        <4> QED
          BY <2>3, <4>2, <4>3 DEF Piece, Wire
      <3>3. Rest(bytes, size) = Piece(EndOf(k), to) /\ Rest(bytes, size) \in Seq(Bytes)
        <4>0. Piece(EndOf(k), to) \in Seq(Bytes)
          BY <2>3, <3>1, PieceFacts
        <4>1. Header + size + 1 = EndOf(k) - EndOf(e) + 1
          BY SMTT(30), <1>1, <2>3
        <4>2. Rest(bytes, size) = SubSeq(bytes, EndOf(k) - EndOf(e) + 1, to - EndOf(e))
          BY <1>2, <4>1 DEF Rest
        <4>3. SubSeq(bytes, EndOf(k) - EndOf(e) + 1, to - EndOf(e)) = Piece(EndOf(k), to)
          <5>1. SubSeq(Piece(EndOf(e), to), EndOf(k) - EndOf(e) + 1, to - EndOf(e)) = Piece(EndOf(k), to)
            <6>1. EndOf(e) \in Nat /\ EndOf(k) \in Nat /\ EndOf(e) <= EndOf(k) /\ EndOf(k) <= to
              BY <1>1, <2>3, <3>0, <3>1
            <6> QED
              BY Zenon, <6>1, PiecesJoin
          <5> QED
            BY <1>2, <5>1
        <4> QED
          BY <4>0, <4>2, <4>3
      <3>4. Terminated(raw) = sent[k].terminated
        <4>1. 1 \in 1..(Header + size)
          BY <1>1, <2>3
        <4>2. raw[1] = <<k, 1>>
          BY <3>2, <4>1, <2>2, WireFacts
        <4> HIDE DEF raw
        <4> QED
          BY <4>2 DEF Terminated
      <3>5. CASE ~sent[k].terminated
        <4>1. Turn(loop) = [loop EXCEPT !.buffer = Rest(bytes, size), !.failed = TRUE]
          BY <1>4, <2>5, <2>8, <3>4, <3>5 DEF Turn, bytes
        <4>2. Turn(loop) \in Loops /\ Turn(loop).failed
          BY <3>3, <4>1 DEF Loops
        <4>3. Shows(k, to)
          BY <3>1, <3>5 DEF Shows
        <4> QED
          BY <2>2, <4>2, <4>3
      <3>6. CASE sent[k].terminated
        <4>1. Turn(loop) = [loop EXCEPT !.buffer = Rest(bytes, size),
                                        !.packets = Append(loop.packets, raw)]
          BY <1>4, <2>5, <2>8, <3>4, <3>6 DEF Turn, bytes
        <4>2. Append(loop.packets, raw) = [i \in 1..(k - d) |-> Wire(d + i)]
          <5>1. loop.packets = [i \in 1..(e - d) |-> Wire(d + i)] /\ e - d \in Nat
            BY <1>1 DEF Holds
          <5>2. k - d = (e - d) + 1 /\ d + (k - d) = k
            BY <1>1 DEF k
          <5> HIDE DEF raw
          <5>3. Len(loop.packets) = e - d
            BY <5>1
          <5>4. Append(loop.packets, raw)
                  = [i \in 1..(e - d + 1) |-> IF i = e - d + 1 THEN raw ELSE loop.packets[i]]
            BY <5>1, <5>3
          <5> QED
            BY <3>2, <5>1, <5>2, <5>4
        <4>3. loop.packets \in Seq(Seq(Bytes)) /\ raw \in Seq(Bytes)
          BY <2>2, <3>2, WireFacts DEF Loops
        <4> HIDE DEF raw, size
        <4>4. Turn(loop) \in Loops
          <5>1. Append(loop.packets, raw) \in Seq(Seq(Bytes))
            BY <4>3
          <5> QED
            BY <3>3, <4>1, <5>1 DEF Loops
        <4>5. \A j \in 1..k : Good(j)
          <5>1. Good(k)
            BY <2>8, <3>6 DEF Good, size
          <5>2. \A j \in 1..e : Good(j)
            BY DEF Holds
          <5> QED
            BY <1>1, <5>1, <5>2 DEF k
        <4>6. /\ Turn(loop).buffer = Rest(bytes, size)
              /\ Turn(loop).packets = Append(loop.packets, raw)
              /\ Turn(loop).failed = loop.failed
          BY <4>1 DEF Loops
        <4>7. Holds(Turn(loop), d, k, to)
          BY <1>1, <2>2, <3>1, <3>3, <4>2, <4>5, <4>6 DEF Holds, k
        <4> QED
          BY <4>4, <4>6, <4>7 DEF k
      <3> QED
        BY <2>3, <3>5, <3>6
    <2> QED
      BY <2>6, <2>7, <2>8
  <1> QED
    BY <1>3, <1>4

(* What feed() makes of the bytes since packet d: it rejects a packet that   *)
(* they show to be invalid, or it takes all that are whole.                  *)
LEMMA DecodeFacts ==
  ASSUME sent \in Seq(Packets), NEW d \in 0..Len(sent), NEW to \in Nat,
         EndOf(d) <= to, to <= Len(Stream), \A k \in 1..d : Good(k),
         NEW result, result = Decode(Piece(EndOf(d), to))
  PROVE  /\ result \in Loops
         /\ \/ result.failed /\ \E k \in 1..Len(sent) : Shows(k, to)
            \/ ~result.failed /\ \E e \in d..Len(sent) : Holds(result, d, e, to) /\ Stuck(e, to)
  <1> DEFINE bytes == Piece(EndOf(d), to)
             T == Turns(bytes)
             N == Len(bytes)
             Goal(n) ==
               /\ T[n] \in Loops
               /\ \/ T[n].failed /\ \E k \in 1..Len(sent) : Shows(k, to)
                  \/ /\ ~T[n].failed
                     /\ \E e \in d..Len(sent) :
                          Holds(T[n], d, e, to) /\ (Stuck(e, to) \/ e >= d + n)
             S == {n \in 0..N : Goal(n)}
  <1>0. Len(sent) \in Nat /\ d \in Nat /\ EndOf(d) \in Nat
    BY StreamFacts
  <1>1. bytes \in Seq(Bytes) /\ N = to - EndOf(d) /\ N \in Nat
    <2>1. bytes \in Seq(Bytes) /\ N = to - EndOf(d)
      BY <1>0, PieceFacts
    <2> QED
      BY <1>0, <2>1
  <1>2. T[0] = Starts(bytes) /\ \A n \in 1..N : T[n] = Turn(T[n - 1])
    BY <1>1, TurnsDef
  <1> HIDE DEF T, N
  <1>3. 0 \in S
    <2>1. T[0] \in Loops /\ ~T[0].failed /\ T[0].buffer = bytes /\ T[0].packets = <<>>
      BY <1>1, <1>2 DEF Starts, Loops
    <2>2. Holds(T[0], d, d, to)
      <3>1. [i \in 1..(d - d) |-> Wire(d + i)] = <<>>
        BY <1>0
      <3> QED
        BY <1>0, <2>1, <3>1 DEF Holds
    <2>3. d \in d..Len(sent) /\ d >= d + 0 /\ 0 \in 0..N
      BY <1>0, <1>1
    <2> QED
      BY <2>1, <2>2, <2>3
  <1>4. ASSUME NEW n \in 1..N, n - 1 \in S
        PROVE  n \in S
    <2>1. n \in 0..N /\ T[n] = Turn(T[n - 1]) /\ Goal(n - 1) /\ n \in Nat /\ n - 1 \in Nat
      BY <1>1, <1>2, <1>4
    <2> DEFINE loop == T[n - 1]
    <2>2. CASE loop.failed
      <3>1. T[n] = loop
        BY <2>1, <2>2 DEF Turn
      <3> QED
        BY <2>1, <2>2, <3>1
    <2>3. CASE ~loop.failed
      <3>1. PICK e \in d..Len(sent) :
              Holds(loop, d, e, to) /\ (Stuck(e, to) \/ e >= d + (n - 1))
        BY <2>1, <2>3
      <3>2. loop \in Loops /\ e \in Nat /\ e \in 0..Len(sent)
        BY <1>0, <2>1, <3>1
      <3>3. /\ T[n] \in Loops
            /\ \/ T[n].failed /\ \E k \in 1..Len(sent) : Shows(k, to)
               \/ ~T[n].failed /\ Holds(T[n], d, e, to) /\ Stuck(e, to)
               \/ ~T[n].failed /\ Holds(T[n], d, e + 1, to)
        BY <1>0, <2>1, <2>3, <3>1, <3>2, TurnFacts
      <3>4. CASE ~T[n].failed /\ Holds(T[n], d, e + 1, to)
        <4>1. e + 1 \in d..Len(sent) /\ EndOf(e + 1) <= to
          BY <3>4 DEF Holds
        <4>2. e + 1 \in 1..Len(sent) /\ e + 1 \in 0..Len(sent) /\ (e + 1) - 1 = e
          BY <1>0, <3>2, <4>1
        <4>3. /\ EndOf(e + 1) = EndOf(e) + Header + sent[e + 1].size
              /\ EndOf(e) \in Nat /\ EndOf(e + 1) \in Nat /\ sent[e + 1].size \in Nat
          BY <3>2, <4>2, StreamFacts, WireFacts
        <4>4. ~Stuck(e, to)
          <5>1. Header \in Nat /\ EndOf(e) + Header <= EndOf(e + 1)
            BY <4>3, DecoderAssumption
          <5>2. ~(to < EndOf(e + 1))
            BY <4>1, <4>3
          <5>3. ~(to < EndOf(e) + Header)
            BY <4>1, <4>3, <5>1
          <5> QED
            BY <5>2, <5>3 DEF Stuck
        <4>5. e + 1 >= d + n
          BY <1>0, <2>1, <3>1, <3>2, <4>4
        <4> QED
          BY <2>1, <3>3, <3>4, <4>1, <4>5
      <3> QED
        BY <2>1, <3>1, <3>3, <3>4
    <2> QED
      BY <2>2, <2>3
  <1>5. Goal(N)
    <2> HIDE DEF Goal
    <2>1. 0 \in S /\ \A n \in 1..N : n - 1 \in S => n \in S
      BY <1>3, <1>4
    <2> HIDE DEF S
    <2>2. N \in S
      BY <1>1, <2>1, AlongList
    <2> QED
      BY <2>2 DEF S
  <1>6. result = T[N]
    BY DEF Decode, T, N
  <1>7. ASSUME NEW e \in d..Len(sent), Holds(result, d, e, to), e >= d + N
        PROVE  Stuck(e, to)
    <2>1. e \in 0..Len(sent) /\ d \in 0..Len(sent) /\ d <= e
      BY <1>0
    <2>2. EndOf(d) + (e - d) <= EndOf(e) /\ EndOf(e) \in Nat
      BY <2>1, StreamFacts
    <2>3. EndOf(e) = to
      <3>1. EndOf(e) <= to
        BY <1>7 DEF Holds
      <3>2. /\ EndOf(d) \in Nat /\ d \in Nat /\ e \in Nat /\ N \in Nat
            /\ N = to - EndOf(d) /\ e >= d + N
        BY <1>0, <1>1, <1>7
      <3> QED
        BY <2>2, <3>1, <3>2
    <2>4. Header \in Nat \ {0}
      BY DecoderAssumption
    <2>5. to < EndOf(e) + Header
      BY <2>2, <2>3, <2>4
    <2> QED
      BY <2>5 DEF Stuck
  <1> QED
    BY <1>5, <1>6, <1>7

-----------------------------------------------------------------------------
(* The decoder returned d packets, all of them as sent, and keeps what came  *)
(* after them; when it has thrown, a packet that came is invalid.            *)
Took(d, to, kept, packets, threw) ==
  /\ packets = [k \in 1..d |-> Wire(k)]
  /\ ~threw => /\ EndOf(d) <= to /\ kept = Piece(EndOf(d), to)
               /\ Stuck(d, to) /\ \A k \in 1..d : Good(k)
  /\ threw => \E k \in 1..Len(sent) : Shows(k, to)

DecoderInv ==
  /\ sent \in Seq(Packets) /\ arrived \in 0..Len(Stream) /\ failed \in BOOLEAN
  /\ \E d \in 0..Len(sent) : Took(d, arrived, buffer, decoded, failed)

(* The stream stays what it is.                                              *)
LEMMA SentStays ==
  ASSUME UNCHANGED sent
  PROVE  /\ Stream' = Stream
         /\ \A d : Took(d, arrived, buffer, decoded, failed)'
                    <=> Took(d, arrived', buffer', decoded', failed')
  <1>1. Upto' = Upto
    BY DEF Upto, Wire
  <1>2. Stream' = Stream
    BY <1>1 DEF Stream
  <1>3. /\ \A k : EndOf(k)' = EndOf(k)
        /\ \A k : Wire(k)' = Wire(k)
        /\ \A k : Good(k)' <=> Good(k)
    BY <1>1 DEF EndOf, Wire, Good
  <1>4. \A d : Piece(EndOf(d), arrived)' = Piece(EndOf(d), arrived')
    BY <1>2, <1>3 DEF Piece
  <1>5. \A d : Stuck(d, arrived)' <=> Stuck(d, arrived')
    BY <1>3 DEF Stuck
  <1>6. \A k : Shows(k, arrived)' <=> Shows(k, arrived')
    BY <1>3 DEF Shows
  <1> QED
    BY <1>2, <1>3, <1>4, <1>5, <1>6 DEF Took

LEMMA InitDecoder == DecoderInit => DecoderInv
  <1> SUFFICES ASSUME DecoderInit PROVE DecoderInv
    OBVIOUS
  <1>1. sent \in Seq(Packets)
    <2>1. PICK n \in 0..MaxPackets : sent \in [1..n -> Packets]
      BY DEF DecoderInit, Packets
    <2>2. n \in Nat
      BY DecoderAssumption
    <2> QED
      BY <2>1, <2>2
  <1>2. EndOf(0) = 0 /\ Len(Stream) \in Nat /\ Len(sent) \in Nat
    BY <1>1, StreamFacts
  <1>3. arrived = 0 /\ buffer = <<>> /\ decoded = <<>> /\ failed = FALSE
    BY DEF DecoderInit
  <1>4. Took(0, 0, <<>>, <<>>, FALSE)
    <2>1. [k \in 1..0 |-> Wire(k)] = <<>> /\ Piece(0, 0) = <<>>
      BY DEF Piece
    <2>2. Stuck(0, 0)
      BY <1>2, DecoderAssumption DEF Stuck
    <2> QED
      BY <1>2, <2>1, <2>2 DEF Took
  <1>5. 0 \in 0..Len(sent) /\ arrived \in 0..Len(Stream)
    BY <1>2, <1>3
  <1>6. failed \in BOOLEAN
    BY <1>3
  <1> QED
    BY <1>1, <1>3, <1>4, <1>5, <1>6 DEF DecoderInv

(* However many bytes a chunk has.                                           *)
LEMMA FeedStep ==
  ASSUME DecoderInv, NEW n \in Nat, Feed(n)
  PROVE  DecoderInv'
  <1>1. /\ sent \in Seq(Packets) /\ sent' = sent /\ arrived' = arrived + n
        /\ arrived \in Nat /\ arrived' \in Nat /\ arrived' <= Len(Stream) /\ ~failed
    BY StreamFacts DEF DecoderInv, Feed
  <1>2. Stream' = Stream
    BY <1>1, SentStays
  <1>3. PICK d \in 0..Len(sent) : Took(d, arrived, buffer, decoded, failed)
    BY DEF DecoderInv
  <1>4. /\ decoded = [k \in 1..d |-> Wire(k)] /\ EndOf(d) <= arrived
        /\ buffer = Piece(EndOf(d), arrived) /\ \A k \in 1..d : Good(k)
    BY <1>1, <1>3 DEF Took
  <1>5. /\ EndOf(d) \in Nat /\ Len(Stream) \in Nat /\ Len(sent) \in Nat /\ d \in Nat
        /\ EndOf(d) <= arrived' /\ arrived <= arrived'
    BY <1>1, <1>4, StreamFacts
  <1>6. buffer \o SubSeq(Stream, arrived + 1, arrived + n) = Piece(EndOf(d), arrived')
    <2>1. SubSeq(Stream, arrived + 1, arrived') = Piece(arrived, arrived')
      <3>1. /\ sent \in Seq(Packets) /\ arrived \in Nat /\ arrived' \in Nat
            /\ arrived <= arrived' /\ arrived' <= Len(Stream)
        BY <1>1, <1>5
      <3> QED
        BY <3>1, PieceFacts
    <2>2. Piece(EndOf(d), arrived) \o Piece(arrived, arrived') = Piece(EndOf(d), arrived')
      <3>1. /\ sent \in Seq(Packets) /\ EndOf(d) \in Nat /\ arrived \in Nat /\ arrived' \in Nat
            /\ EndOf(d) <= arrived /\ arrived <= arrived' /\ arrived' <= Len(Stream)
        BY <1>1, <1>4, <1>5
      <3> QED
        BY <3>1, PiecesJoin
    <2> QED
      BY <1>1, <1>4, <2>1, <2>2
  <1> DEFINE result == Decode(Piece(EndOf(d), arrived'))
  <1>7. /\ buffer' = result.buffer /\ failed' = result.failed
        /\ decoded' = IF result.failed THEN decoded ELSE decoded \o result.packets
    BY <1>6 DEF Feed
  <1> HIDE DEF result
  <1>8. /\ result \in Loops
        /\ \/ result.failed /\ \E k \in 1..Len(sent) : Shows(k, arrived')
           \/ ~result.failed
              /\ \E e \in d..Len(sent) : Holds(result, d, e, arrived') /\ Stuck(e, arrived')
    BY <1>1, <1>4, <1>5, DecodeFacts DEF result
  <1>9. failed' \in BOOLEAN
    BY <1>7, <1>8 DEF Loops
  <1>10. \E e \in 0..Len(sent) : Took(e, arrived', buffer', decoded', failed')
    <2>1. CASE result.failed
      <3>1. Took(d, arrived', buffer', decoded', failed')
        BY <1>4, <1>7, <1>8, <2>1 DEF Took
      <3> QED
        BY <3>1
    <2>2. CASE ~result.failed
      <3>1. PICK e \in d..Len(sent) : Holds(result, d, e, arrived') /\ Stuck(e, arrived')
        BY <1>8, <2>2
      <3>2. e \in 0..Len(sent) /\ e \in Nat /\ e - d \in Nat /\ d + (e - d) = e
        BY <1>5
      <3>3. decoded' = [k \in 1..e |-> Wire(k)]
        <4> DEFINE P == [k \in 1..d |-> Wire(k)]
                   Q == [i \in 1..(e - d) |-> Wire(d + i)]
                   R == [k \in 1..e |-> Wire(k)]
        <4>1. decoded' = P \o Q
          BY <1>4, <1>7, <2>2, <3>1 DEF Holds
        <4>2. /\ P \in Seq(Seq(Bytes)) /\ Len(P) = d /\ \A k \in 1..d : P[k] = Wire(k)
          <5>1. ASSUME NEW k \in 1..d
                PROVE  Wire(k) \in Seq(Bytes)
            <6>1. sent \in Seq(Packets) /\ k \in 1..Len(sent)
              BY <1>1, <1>5
            <6> QED
              BY <6>1, WireFacts
          <5> QED
            BY <1>5, <5>1
        <4>3. /\ Q \in Seq(Seq(Bytes)) /\ Len(Q) = e - d
              /\ \A i \in 1..(e - d) : Q[i] = Wire(d + i)
          <5>1. \A i \in 1..(e - d) : d + i \in 1..Len(sent)
            BY <1>5, <3>2
          <5>2. ASSUME NEW i \in 1..(e - d)
                PROVE  Wire(d + i) \in Seq(Bytes)
            <6>1. sent \in Seq(Packets) /\ d + i \in 1..Len(sent)
              BY <1>1, <5>1
            <6> QED
              BY <6>1, WireFacts
          <5> QED
            BY <3>2, <5>2
        <4>4. /\ R \in Seq(Seq(Bytes)) /\ Len(R) = e /\ \A k \in 1..e : R[k] = Wire(k)
          <5>1. ASSUME NEW k \in 1..e
                PROVE  Wire(k) \in Seq(Bytes)
            <6>1. sent \in Seq(Packets) /\ k \in 1..Len(sent)
              BY <1>1, <1>5, <3>2
            <6> QED
              BY <6>1, WireFacts
          <5> QED
            BY <3>2, <5>1
        <4> HIDE DEF P, Q, R
        <4>5. P \o Q \in Seq(Seq(Bytes)) /\ Len(P \o Q) = e
          <5>1. P \o Q \in Seq(Seq(Bytes)) /\ Len(P \o Q) = Len(P) + Len(Q)
            BY <4>2, <4>3, ConcatProperties
          <5> QED
            BY <1>5, <3>2, <4>2, <4>3, <5>1
        <4>6. ASSUME NEW k \in 1..e
              PROVE  (P \o Q)[k] = R[k]
          <5>1. CASE k <= d
            <6>1. k \in 1..d
              BY <5>1
            <6>2. (P \o Q)[k] = P[k]
              BY <4>2, <4>3, <6>1, ConcatProperties
            <6> QED
              BY <4>2, <4>4, <6>1, <6>2
          <5>2. CASE k > d
            <6> DEFINE i == k - d
            <6>1. (P \o Q)[k] = Q[i]
              <7>1. k \in 1..(d + (e - d)) /\ k \notin 1..d /\ d \in Nat /\ e - d \in Nat
                BY <1>5, <3>2, <5>2
              <7>2. P \in Seq(Seq(Bytes)) /\ Q \in Seq(Seq(Bytes)) /\ Len(P) = d /\ Len(Q) = e - d
                BY <4>2, <4>3
              <7> QED
                BY <7>1, <7>2, SecondPart
            <6>2. i \in 1..(e - d) /\ d + i = k
              BY <1>5, <3>2, <5>2
            <6> HIDE DEF i
            <6>3. Q[i] = Wire(d + i) /\ R[k] = Wire(k)
              BY <4>3, <4>4, <6>2
            <6> QED
              BY <6>1, <6>2, <6>3
          <5>3. k <= d \/ k > d
            BY <1>5, <3>2
          <5> QED
            BY <5>1, <5>2, <5>3, Zenon
        <4>7. P \o Q = R
          BY <4>4, <4>5, <4>6, SeqEqual
        <4> QED
          BY <4>1, <4>7 DEF R
      <3>4. Took(e, arrived', buffer', decoded', failed')
        BY <1>7, <2>2, <3>1, <3>3 DEF Holds, Took
      <3> QED
        BY <3>2, <3>4
    <2> QED
      BY <2>1, <2>2
  <1>11. \E e \in 0..Len(sent') : Took(e, arrived, buffer, decoded, failed)'
    BY <1>1, <1>10, SentStays
  <1>12. arrived' \in 0..Len(Stream')
    BY <1>1, <1>2, <1>5
  <1> QED
    BY <1>1, <1>9, <1>11, <1>12 DEF DecoderInv

(* What the invariant says about what was sent.                              *)
LEMMA DecoderTells ==
  ASSUME DecoderInv
  PROVE  DecodesTheStream
  <1>1. PICK d \in 0..Len(sent) : Took(d, arrived, buffer, decoded, failed)
    BY DEF DecoderInv
  <1>2. /\ sent \in Seq(Packets) /\ arrived \in Nat /\ failed \in BOOLEAN
        /\ Len(sent) \in Nat /\ d \in Nat /\ d <= Len(sent)
    BY StreamFacts DEF DecoderInv
  <1>3. decoded = [k \in 1..d |-> Wire(k)] /\ Len(decoded) = d
    BY <1>1, <1>2 DEF Took
  <1>4. PacketsAsSent
    BY <1>3 DEF PacketsAsSent
  <1>5. \A k \in 1..Len(sent) : Shows(k, arrived) <=> Rejected(k)
    BY DEF Shows, Rejected, Valid
  <1>6. CASE failed
    <2>1. \E k \in 1..Len(sent) : Rejected(k)
      BY <1>1, <1>5, <1>6 DEF Took
    <2> QED
      BY <1>4, <1>6, <2>1 DEF DecodesTheStream, NothingWithheld, FailsOnInvalid
  <1>7. CASE ~failed
    <2>1. EndOf(d) <= arrived /\ Stuck(d, arrived) /\ \A k \in 1..d : Good(k)
      BY <1>1, <1>7 DEF Took
    <2>2. /\ \A k \in 0..Len(sent) : EndOf(k) \in Nat
          /\ \A j, k \in 0..Len(sent) : j <= k => EndOf(j) <= EndOf(k)
      <3>1. \A k \in 0..Len(sent) : EndOf(k) \in Nat
        BY <1>2, StreamFacts
      <3>2. \A j, k \in 0..Len(sent) : j <= k => EndOf(j) + (k - j) <= EndOf(k)
        BY <1>2, StreamFacts
      <3> QED
        BY <3>1, <3>2
    <2>3. \A k \in 1..d : EndOf(k) <= arrived
      <3> TAKE k \in 1..d
      <3>1. EndOf(k) <= EndOf(d) /\ EndOf(k) \in Nat /\ EndOf(d) \in Nat
        BY <1>2, <2>2
      <3> QED
        BY <1>2, <2>1, <3>1
    <2>4. ASSUME d < Len(sent)
          PROVE  /\ arrived < EndOf(d + 1)
                 /\ ~Valid(sent[d + 1].size) => arrived < EndOf(d) + Header
      <3>1. d + 1 \in 1..Len(sent) /\ d \in 0..Len(sent) /\ (d + 1) - 1 = d
        BY <1>2, <2>4
      <3>2. /\ EndOf(d + 1) = EndOf(d) + Header + sent[d + 1].size /\ sent[d + 1].size \in Nat
            /\ EndOf(d) \in Nat
        BY <1>2, <2>2, <3>1, StreamFacts, WireFacts
      <3> QED
        BY <1>2, <2>1, <3>2, DecoderAssumption DEF Stuck
    <2>5. ASSUME NEW k \in 1..Len(sent), k > d
          PROVE  arrived < EndOf(k) /\ (k > d + 1 => arrived < EndOf(k - 1))
      <3>1. d < Len(sent) /\ d + 1 \in 0..Len(sent) /\ k \in 0..Len(sent) /\ k - 1 \in 0..Len(sent)
        BY <1>2, <2>5
      <3>2. /\ arrived < EndOf(d + 1) /\ EndOf(d + 1) <= EndOf(k)
            /\ k > d + 1 => EndOf(d + 1) <= EndOf(k - 1)
        BY <1>2, <2>2, <2>4, <2>5, <3>1
      <3>3. EndOf(d + 1) \in Nat /\ EndOf(k) \in Nat /\ EndOf(k - 1) \in Nat
        BY <2>2, <3>1
      <3> QED
        BY <1>2, <3>2, <3>3
    <2>6. NothingWithheld
      <3>1. {k \in 1..Len(sent) : EndOf(k) <= arrived} = 1..d
        <4>1. ASSUME NEW k \in 1..Len(sent), EndOf(k) <= arrived
              PROVE  k \in 1..d
          <5>1. EndOf(k) \in Nat
            BY <2>2
          <5>2. ~(k > d)
            BY <1>2, <2>5, <4>1, <5>1
          <5> QED
            BY <1>2, <5>2
        <4>2. \A k \in 1..d : k \in 1..Len(sent)
          BY <1>2
        <4> QED
          BY <2>3, <4>1, <4>2
      <3>2. Cardinality(1..d) = d
        BY <1>2, FS_Interval
      <3> QED
        BY <1>3, <3>1, <3>2 DEF NothingWithheld
    <2>7. ASSUME NEW k \in 1..Len(sent)
          PROVE  ~Shows(k, arrived)
      <3>1. EndOf(k) \in Nat /\ EndOf(k - 1) \in Nat
        BY <1>2, <2>2
      <3>2. CASE k <= d
        <4>1. Good(k)
          BY <1>2, <2>1, <3>2
        <4> QED
          BY <4>1 DEF Good, Shows
      <3>3. CASE k = d + 1
        <4>1. arrived < EndOf(k) /\ (~Valid(sent[k].size) => arrived < EndOf(k - 1) + Header)
          <5>1. d < Len(sent) /\ k - 1 = d
            BY <1>2, <3>3
          <5> QED
            BY <2>4, <3>3, <5>1
        <4> QED
          BY <1>2, <3>1, <4>1, DecoderAssumption DEF Shows
      <3>4. CASE k > d + 1
        <4>1. arrived < EndOf(k) /\ arrived < EndOf(k - 1)
          BY <1>2, <2>5, <3>4
        <4> QED
          BY <1>2, <3>1, <4>1, DecoderAssumption DEF Shows
      <3> QED
        BY <1>2, <3>2, <3>3, <3>4
    <2>8. FailsOnInvalid
      BY <1>5, <1>7, <2>7 DEF FailsOnInvalid
    <2> QED
      BY <1>4, <2>6, <2>8 DEF DecodesTheStream
  <1> QED
    BY <1>2, <1>6, <1>7

LEMMA StepDecoder == DecoderInv /\ [BoundaryNext]_boundaryVars => DecoderInv'
  <1> SUFFICES ASSUME DecoderInv, [BoundaryNext]_boundaryVars PROVE DecoderInv'
    OBVIOUS
  <1>1. CASE ReadsChunk
    <2>1. Len(Stream) \in Nat
      BY StreamFacts DEF DecoderInv
    <2>2. PICK n \in 1..Len(Stream) : Feed(n)
      BY <1>1 DEF ReadsChunk
    <2> QED
      BY <2>1, <2>2, FeedStep
  <1>2. CASE UNCHANGED decoderVars
    <2>1. UNCHANGED <<sent, arrived, buffer, decoded, failed>>
      BY <1>2 DEF decoderVars
    <2>2. \E d \in 0..Len(sent') : Took(d, arrived, buffer, decoded, failed)'
      BY <2>1, SentStays DEF DecoderInv
    <2>3. Stream' = Stream
      BY <2>1, SentStays
    <2> QED
      BY <2>1, <2>2, <2>3 DEF DecoderInv
  <1> QED
    BY <1>1, <1>2 DEF BoundaryNext, boundaryVars

(* However the bytes of a game server are cut, and whatever it sends, the    *)
(* packets come out whole, in order, once and at once, and feed() throws     *)
(* exactly when an invalid one came (rcon.ts lines 70-98).                   *)
THEOREM StreamAlwaysDecoded == BoundarySpec => []DecodesTheStream
<1>1. BoundaryInit => DecoderInv
  BY InitDecoder DEF BoundaryInit
<1>2. DecoderInv => DecodesTheStream
  BY DecoderTells
<1> QED
  BY <1>1, <1>2, StepDecoder, PTL DEF BoundarySpec

-----------------------------------------------------------------------------
(* The helper's address policy and the hosted one.                           *)

(* The helper's prefixes, written out.                                       *)
Blocked4(a, b, c) ==
  \/ a = 0 \/ a \in 224..239 \/ a \in 240..255
  \/ a = 169 /\ b = 254
  \/ a = 192 /\ b = 0 /\ c = 0
  \/ a = 192 /\ b = 0 /\ c = 2
  \/ a = 192 /\ b = 88 /\ c = 99
  \/ a = 198 /\ b \in 18..19
  \/ a = 198 /\ b = 51 /\ c = 100
  \/ a = 203 /\ b = 0 /\ c = 113
Blocked6(g, h) ==
  \/ g = 8193 /\ (h <= 511 \/ h = 3512)
  \/ g = 8194 \/ g = 100
  \/ g = 16383 /\ h <= 4095
Special6(g) == g \in 65280..65535 \/ g \in 65152..65215
Local6(g) == g \in 64512..65023

LEMMA BelowFacts ==
  ASSUME NEW n \in Nat, NEW i
  PROVE  i \in Below(n) <=> i \in Nat /\ i < n
BY DEF Below

LEMMA Blocks1 ==
  ASSUME NEW x, NEW S
  PROVE  InNetwork(<<S>>, x) <=> x.parts[1] \in S
BY DEF InNetwork

LEMMA Blocks2 ==
  ASSUME NEW x, NEW S, NEW T
  PROVE  InNetwork(<<S, T>>, x) <=> x.parts[1] \in S /\ x.parts[2] \in T
BY DEF InNetwork

LEMMA Blocks3 ==
  ASSUME NEW x, NEW S, NEW T, NEW U
  PROVE  InNetwork(<<S, T, U>>, x) <=> x.parts[1] \in S /\ x.parts[2] \in T /\ x.parts[3] \in U
BY DEF InNetwork

LEMMA Blocks6 ==
  ASSUME NEW x, NEW S, NEW T, NEW U, NEW V, NEW W, NEW X
  PROVE  InNetwork(<<S, T, U, V, W, X>>, x) => x.parts[1] \in S
BY DEF InNetwork

LEMMA Allowed4 ==
  ASSUME NEW x \in Address4
  PROVE  AllowedAddress(x) <=> ~Blocked4(x.parts[1], x.parts[2], x.parts[3])
<1>1. x.family = 4 /\ ~x.zone /\ \A i \in 1..4 : x.parts[i] \in Below(256)
  BY DEF Address4
<1>2. Unmap(x) = x
  BY <1>1 DEF Unmap, IsMapped
<1>3. (\A network \in BlockedNetworks4 : ~InNetwork(network, x)) <=> ~Blocked4(x.parts[1], x.parts[2], x.parts[3])
  BY Blocks1, Blocks2, Blocks3 DEF BlockedNetworks4, Blocked4
<1>4. IsSpecial(x) => Blocked4(x.parts[1], x.parts[2], x.parts[3])
  BY <1>1, BelowFacts DEF IsSpecial, Blocked4
<1>5. QED
  BY <1>1, <1>2, <1>3, <1>4 DEF AllowedAddress

(* On IPv4 addresses.                                                        *)
LEMMA Agree4 ==
  ASSUME NEW a \in Below(256), NEW b \in Below(256), NEW c \in Below(256)
  PROVE  /\ PublicOctets(a, b, c) \/ LocalOctets(a, b) => ~Blocked4(a, b, c)
         /\ ~(PublicOctets(a, b, c) /\ LocalOctets(a, b))
BY BelowFacts DEF PublicOctets, LocalOctets, Blocked4

LEMMA UnmappedIsAddress ==
  ASSUME NEW x \in Address6
  PROVE  Unmapped(x) \in Address4 /\ Unmapped(x).family = 4
<1>1. x.parts[7] \in Below(65536) /\ x.parts[8] \in Below(65536)
  BY DEF Address6
<1>2. ASSUME NEW g \in Below(65536) PROVE g \div 256 \in Below(256) /\ g % 256 \in Below(256)
  BY BelowFacts, SMTT(60)
<1>3. QED
  BY <1>1, <1>2 DEF Unmapped, Address4

(* On the other IPv6 addresses, by their two leading groups.                 *)
LEMMA Agree6Groups ==
  ASSUME NEW g \in Nat, NEW h \in Nat
  PROVE  /\ PublicGroups(g, h) \/ Local6(g) \/ g = 0 => ~Special6(g) /\ ~Blocked6(g, h)
         /\ PublicGroups(g, h) \/ Local6(g) => g # 0
         /\ ~(PublicGroups(g, h) /\ Local6(g))
<1>1. PublicGroups(g, h) => 8192 <= g /\ g <= 16383
  BY DEF PublicGroups
<1>2. Local6(g) => 64512 <= g /\ g <= 65023
  BY DEF Local6
<1>3. Special6(g) => 65152 <= g
  BY DEF Special6
<1>4. Blocked6(g, h) => 100 <= g /\ g <= 16383
  BY DEF Blocked6
<1>5. ~(PublicGroups(g, h) /\ Blocked6(g, h))
  <2>1. Blocked6(g, h) => \/ g = 8193 /\ (h <= 511 \/ h = 3512)
                          \/ g = 8194 \/ g = 100
                          \/ g = 16383 /\ h <= 4095
    BY DEF Blocked6
  <2>2. PublicGroups(g, h) => /\ ~(g = 8193 /\ (h <= 511 \/ h = 3512))
                              /\ g # 8194 /\ g # 100
                              /\ ~(g = 16383 /\ h <= 4095)
    BY <1>1 DEF PublicGroups
  <2>3. QED
    BY <2>1, <2>2
<1>6. QED
  BY <1>1, <1>2, <1>3, <1>4, <1>5

LEMMA Special6Facts ==
  ASSUME NEW x, x.family = 6
  PROVE  IsSpecial(x) => Special6(x.parts[1]) \/ \A i \in 1..8 : x.parts[i] = 0
BY DEF IsSpecial, Special6

LEMMA Blocked6Facts ==
  ASSUME NEW x, NEW g \in Nat, NEW h \in Nat, g = x.parts[1], h = x.parts[2]
  PROVE  \A network \in BlockedNetworks6 : InNetwork(network, x) => Blocked6(g, h)
<1> DEFINE n1 == <<{8193}, Below(512)>>
           n2 == <<{8193}, {3512}>>
           n3 == <<{8194}>>
           n4 == <<{16383}, Below(4096)>>
           n5 == <<{100}, {65435}, {0}, {0}, {0}, {0}>>
           n6 == <<{100}, {65435}, {1}>>
<1>1. InNetwork(n1, x) => g = 8193 /\ h <= 511
  BY Blocks2, BelowFacts
<1>2. InNetwork(n2, x) => g = 8193 /\ h = 3512
  BY Blocks2
<1>3. InNetwork(n3, x) => g = 8194
  BY Blocks1
<1>4. InNetwork(n4, x) => g = 16383 /\ h <= 4095
  BY Blocks2, BelowFacts
<1>5. InNetwork(n5, x) => g = 100
  BY Blocks6
<1>6. InNetwork(n6, x) => g = 100
  BY Blocks3
<1>7. BlockedNetworks6 = {n1, n2, n3, n4, n5, n6}
  BY DEF BlockedNetworks6
<1> HIDE DEF n1, n2, n3, n4, n5, n6
<1>8. /\ InNetwork(n1, x) => Blocked6(g, h)
      /\ InNetwork(n2, x) => Blocked6(g, h)
      /\ InNetwork(n3, x) => Blocked6(g, h)
      /\ InNetwork(n4, x) => Blocked6(g, h)
      /\ InNetwork(n5, x) => Blocked6(g, h)
      /\ InNetwork(n6, x) => Blocked6(g, h)
  BY <1>1, <1>2, <1>3, <1>4, <1>5, <1>6 DEF Blocked6
<1>9. QED
  BY <1>7, <1>8

LEMMA Agree6 ==
  ASSUME NEW x \in Address6, ~IsMapped(x), ~x.zone
  PROVE  /\ HostedAllows(x, TRUE) => AllowedAddress(x)
         /\ ~(IsPublicAddress(x) /\ IsLocalAddress(x))
<1>1. PICK g \in Nat, h \in Nat : g = x.parts[1] /\ h = x.parts[2]
  BY BelowFacts DEF Address6
<1>2. x.family = 6 /\ Unmap(x) = x
  BY DEF Address6, Unmap
<1>3. /\ IsPublicAddress(x) <=> PublicGroups(g, h)
      /\ IsLocalAddress(x) <=> Local6(g) \/ IsLoopback6(x)
  BY <1>1, <1>2 DEF IsPublicAddress, IsLocalAddress, Local6
<1>4. IsLoopback6(x) => g = 0 /\ x.parts[8] = 1
  BY <1>1 DEF IsLoopback6
<1>5. ASSUME PublicGroups(g, h) \/ Local6(g) \/ IsLoopback6(x)
      PROVE  AllowedAddress(x)
  <2>1. ~Special6(g) /\ ~Blocked6(g, h)
    BY <1>4, <1>5, Agree6Groups
  <2>2. ~\A i \in 1..8 : x.parts[i] = 0
    <3>1. g # 0 \/ x.parts[8] = 1
      BY <1>4, <1>5, Agree6Groups
    <3>2. QED
      BY <1>1, <3>1
  <2>3. ~IsSpecial(x)
    BY <1>1, <1>2, <2>1, <2>2, Special6Facts
  <2>4. \A network \in BlockedNetworks6 : ~InNetwork(network, x)
    BY <1>1, <2>1, Blocked6Facts
  <2>5. QED
    BY <1>2, <2>3, <2>4 DEF AllowedAddress
<1>6. ~(PublicGroups(g, h) /\ (Local6(g) \/ IsLoopback6(x)))
  BY <1>4, Agree6Groups
<1>7. QED
  BY <1>3, <1>5, <1>6 DEF HostedAllows

(* The helper reaches every address the hosted route may reach, and no local *)
(* address passes for public (security.ts lines 91-137, rcon.go 63-83).      *)
THEOREM HostedAlwaysWithinHelper == \A x \in Addresses : HostedWithinHelper(x)
<1> SUFFICES ASSUME NEW x \in Addresses, ~x.zone
             PROVE  /\ HostedAllows(x, TRUE) => AllowedAddress(x)
                    /\ ~(IsPublicAddress(x) /\ IsLocalAddress(x))
  BY DEF HostedWithinHelper
<1>1. ASSUME NEW y \in Address4
      PROVE  /\ HostedAllows(y, TRUE) => AllowedAddress(y)
             /\ ~(IsPublicAddress(y) /\ IsLocalAddress(y))
  <2>1. y.family = 4 /\ y.parts[1] \in Below(256) /\ y.parts[2] \in Below(256) /\ y.parts[3] \in Below(256)
    BY DEF Address4
  <2>2. QED
    BY <2>1, Allowed4, Agree4 DEF HostedAllows, IsPublicAddress, IsPublicIpv4, IsLocalAddress
<1>2. CASE x \in Address4
  BY <1>1, <1>2
<1>3. CASE x \in Address6 /\ ~IsMapped(x)
  BY <1>3, Agree6
<1>4. CASE x \in Address6 /\ IsMapped(x)
  <2>1. Unmapped(x) \in Address4 /\ Unmapped(x).family = 4
    BY <1>4, UnmappedIsAddress
  <2>2. x.family = 6
    BY <1>4 DEF Address6
  <2>3. /\ IsPublicAddress(x) <=> IsPublicAddress(Unmapped(x))
        /\ IsLocalAddress(x) <=> IsLocalAddress(Unmapped(x))
    BY <1>4, <2>1, <2>2 DEF IsPublicAddress, IsLocalAddress
  <2>4. Unmap(x) = Unmapped(x) /\ Unmap(Unmapped(x)) = Unmapped(x)
    BY <1>4, <2>1 DEF Unmap, IsMapped
  <2>5. AllowedAddress(x) <=> AllowedAddress(Unmapped(x))
    BY <2>4 DEF AllowedAddress
  <2>6. QED
    BY <1>1, <2>1, <2>3, <2>5 DEF HostedAllows
<1>5. QED
  BY <1>2, <1>3, <1>4 DEF Addresses

(* An IPv4 address is judged alike in its IPv4-mapped form, everywhere       *)
(* (security.ts lines 97-100 and 131-135, rcon.go line 73).                  *)
THEOREM MappedAlwaysJudgedAsIPv4 == \A x \in Addresses : MappedJudgedAsIPv4(x)
<1> SUFFICES ASSUME NEW x \in Addresses, IsMapped(x)
             PROVE  /\ IsPublicAddress(x) <=> IsPublicAddress(Unmapped(x))
                    /\ IsLocalAddress(x) <=> IsLocalAddress(Unmapped(x))
                    /\ AllowedAddress(x) <=> AllowedAddress(Unmapped(x))
  BY DEF MappedJudgedAsIPv4
<1>1. x.family = 6 /\ Unmapped(x).family = 4
  BY DEF IsMapped, Unmapped
<1>2. /\ IsPublicAddress(x) <=> IsPublicAddress(Unmapped(x))
      /\ IsLocalAddress(x) <=> IsLocalAddress(Unmapped(x))
  BY <1>1 DEF IsPublicAddress, IsLocalAddress
<1>3. Unmap(x) = Unmapped(x) /\ Unmap(Unmapped(x)) = Unmapped(x)
  BY <1>1 DEF Unmap, IsMapped
<1>4. QED
  BY <1>2, <1>3 DEF AllowedAddress

LEMMA Unmapping ==
  ASSUME NEW x
  PROVE  Unmap(Unmap(x)) = Unmap(x) /\ (AllowedAddress(x) <=> AllowedAddress(Unmap(x)))
<1>1. Unmap(Unmap(x)) = Unmap(x)
  BY DEF Unmap, IsMapped, Unmapped
<1>2. QED
  BY <1>1 DEF AllowedAddress

(* What the two resolvers connect to was judged, with all the answers.       *)
LEMMA HostedPins ==
  ASSUME NEW answers, NEW local, "address" \in DOMAIN HostedResolve(answers, local)
  PROVE  /\ HostedResolve(answers, local) = [address |-> answers[1]] /\ answers # <<>>
         /\ \A i \in DOMAIN answers : HostedAllows(answers[i], local)
BY DEF HostedResolve

LEMMA HelperPins ==
  ASSUME NEW answers, "address" \in DOMAIN HelperResolve(answers), DOMAIN answers \subseteq Nat,
         answers # <<>> => 1 \in DOMAIN answers
  PROVE  /\ ~AnyBlocked(answers)
         /\ \E i \in DOMAIN answers : HelperResolve(answers).address \in {answers[i], Unmap(answers[i])}
<1> DEFINE Least(i) == \A j \in IPv4Answers(answers) : i <= j
           first == CHOOSE i \in IPv4Answers(answers) : Least(i)
<1>1. /\ ~AnyBlocked(answers) /\ answers # <<>>
      /\ HelperResolve(answers)
           = [address |-> IF IPv4Answers(answers) = {} THEN answers[1] ELSE Unmap(answers[first])]
  BY DEF HelperResolve
<1>2. CASE IPv4Answers(answers) = {}
  BY <1>1, <1>2
<1>3. CASE IPv4Answers(answers) # {}
  <2>1. IPv4Answers(answers) \subseteq DOMAIN answers
    BY DEF IPv4Answers
  <2>2. \E i \in IPv4Answers(answers) : Least(i)
    BY <1>3, <2>1, LeastNumber
  <2>3. first \in DOMAIN answers
    BY <2>1, <2>2
  <2> HIDE DEF first
  <2>4. QED
    BY <1>1, <1>3, <2>3
<1>4. QED
  BY <1>1, <1>2, <1>3

LEMMA ResolversFit ==
  ASSUME NEW n \in Nat, NEW answers \in [1..n -> Addresses], NEW local \in BOOLEAN
  PROVE  PinnedIsPermitted(answers, local)
<1> DEFINE hosted == HostedResolve(answers, local)
           helper == HelperResolve(answers)
<1>1. /\ DOMAIN answers = 1..n /\ DOMAIN answers \subseteq Nat
      /\ answers # <<>> => 1 \in DOMAIN answers
  <2>1. n = 0 => answers = <<>>
    OBVIOUS
  <2>2. QED
    BY <2>1
<1>2. "address" \in DOMAIN hosted =>
        hosted.address = answers[1] /\ HostedAllows(hosted.address, local)
  BY <1>1, HostedPins
<1>3. "address" \in DOMAIN helper =>
        /\ Unmap(helper.address) \in {Unmap(answers[i]) : i \in DOMAIN answers}
        /\ AllowedAddress(helper.address)
  <2> HAVE "address" \in DOMAIN helper
  <2>1. PICK i \in DOMAIN answers : helper.address \in {answers[i], Unmap(answers[i])}
    BY <1>1, HelperPins
  <2>2. AllowedAddress(answers[i])
    BY <1>1, HelperPins DEF AnyBlocked
  <2>3. QED
    BY <2>1, <2>2, Unmapping
<1>4. "address" \in DOMAIN hosted /\ (\A i \in DOMAIN answers : ~answers[i].zone) =>
        "address" \in DOMAIN helper
  <2> HAVE "address" \in DOMAIN hosted /\ \A i \in DOMAIN answers : ~answers[i].zone
  <2>1. answers # <<>> /\ \A i \in DOMAIN answers : HostedAllows(answers[i], local)
    BY HostedPins
  <2>2. \A i \in DOMAIN answers : AllowedAddress(answers[i])
    <3> TAKE i \in DOMAIN answers
    <3>1. HostedAllows(answers[i], TRUE) /\ answers[i] \in Addresses
      BY <2>1 DEF HostedAllows
    <3>2. QED
      BY <3>1, HostedAlwaysWithinHelper DEF HostedWithinHelper
  <2>3. QED
    BY <2>1, <2>2 DEF HelperResolve, AnyBlocked
<1>5. QED
  BY <1>2, <1>3, <1>4 DEF PinnedIsPermitted

-----------------------------------------------------------------------------
(* The hosted route and the helper's port.                                   *)

(* The hosted route opens the local network by an exact name only.           *)
LEMMA PrivateByName ==
  ASSUME NEW deployment \in Deployments, NEW host, NEW answers
  PROVE  PrivateOnlyByName(deployment, host, answers)
<1> DEFINE plain == [deployment EXCEPT !.allowed = {e \in @ : ~e.wildcard}]
           reached == ResolvePublicRconHost(deployment, host, answers)
           exact == Entry(FALSE, host)
<1>1. /\ plain.allowed = {e \in deployment.allowed : ~e.wildcard}
      /\ plain.allowPrivate = deployment.allowPrivate
      /\ plain.development = deployment.development
  BY BoundaryAssumption
<1>2. Covers(exact, host) /\ ~exact.wildcard
  BY DEF Covers, Entry
<1> HIDE DEF plain
<1>3. ASSUME ExplicitlyAllowed(deployment, host)
      PROVE  /\ EnforceAllowlist(deployment, host)
             /\ ExplicitlyAllowed(plain, host) /\ EnforceAllowlist(plain, host)
             /\ plain.allowed # {} /\ deployment.allowPrivate
  <2>1. exact \in deployment.allowed /\ deployment.allowPrivate
    BY <1>3 DEF ExplicitlyAllowed
  <2>2. exact \in plain.allowed
    BY <1>1, <1>2, <2>1
  <2>3. QED
    BY <1>1, <1>2, <2>1, <2>2 DEF ExplicitlyAllowed, EnforceAllowlist
<1>4. ASSUME "address" \in DOMAIN reached, ~deployment.development,
             ~IsPublicAddress(reached.address)
      PROVE  /\ plain.allowed # {} /\ deployment.allowPrivate
             /\ ResolvePublicRconHost(plain, host, answers) = reached
  <2> DEFINE local == deployment.development \/ ExplicitlyAllowed(deployment, host)
  <2>1. host # <<>> /\ reached = HostedResolve(answers, local)
    BY <1>4 DEF ResolvePublicRconHost
  <2>2. reached.address = answers[1] /\ HostedAllows(answers[1], local)
    BY SMTT(30), <1>4, <2>1, HostedPins DEF HostedResolve
  <2>3. ExplicitlyAllowed(deployment, host)
    BY <1>4, <2>2 DEF HostedAllows
  <2>4. ExplicitlyAllowed(plain, host) /\ EnforceAllowlist(plain, host)
    BY <1>3, <2>3
  <2>5. HostedResolve(answers, plain.development \/ ExplicitlyAllowed(plain, host)) = reached
    BY <2>1, <2>3, <2>4 DEF HostedResolve, HostedAllows
  <2>6. QED
    BY <1>3, <2>1, <2>3, <2>4, <2>5 DEF ResolvePublicRconHost
<1>5. QED
  BY <1>3, <1>4 DEF PrivateOnlyByName, plain

(* Nobody is served without the key, and no page of another site.            *)
LEMMA ServedWithKey ==
  ASSUME NEW deployment, NEW request
  PROVE  ServedOnlyWithKey(deployment, request)
<1> SUFFICES ASSUME Post(deployment, request) = "served"
             PROVE  /\ deployment.secret # 0 => request.key = deployment.secret
                    /\ request.origin # <<>> =>
                         IF deployment.publicOrigin # <<>> THEN request.origin = deployment.publicOrigin
                         ELSE request.origin[2] \in {request.host, request.url[2]}
  BY DEF ServedOnlyWithKey
<1>1. IsSameOriginRequest(deployment, request)
  BY DEF Post
<1>2. deployment.secret # 0 => request.key = deployment.secret
  BY <1>1 DEF Post, RelaySecretMatches
<1>3. request.origin # <<>> => request.origin = ExpectedOrigin(deployment, request)
  BY <1>1 DEF IsSameOriginRequest
<1>4. AuthorityOf(request) \in {request.host, request.url[2]}
  BY DEF AuthorityOf
<1>5. deployment.publicOrigin = <<>> => ExpectedOrigin(deployment, request)[2] = AuthorityOf(request)
  BY DEF ExpectedOrigin
<1>6. deployment.publicOrigin # <<>> => ExpectedOrigin(deployment, request) = deployment.publicOrigin
  BY DEF ExpectedOrigin
<1>7. QED
  BY <1>2, <1>3, <1>4, <1>5, <1>6

(* The helper serves nothing without a secret of its own run.                *)
LEMMA ServedWithSecret ==
  ASSUME NEW h, NEW request
  PROVE  ServedOnlyWithSecret(h, request)
<1>1. CASE request.host # "own"
  BY <1>1 DEF ServedOnlyWithSecret, Serve
<1>2. CASE request.host = "own" /\ h.browserConnect /\ request.origin = "site"
  <2>1. Serve(h, request) = BrowserRcon(h, request)
    BY <1>2 DEF Serve
  <2>2. BrowserRcon(h, request) \in {"rcon", "settings", "workshop", "proxy", "paired"} =>
          /\ request.path = "rcon" /\ request.method # "OPTIONS"
          /\ request.bearer = h.secret
          /\ BrowserRcon(h, request) = RconEndpoint(request.method)
    BY DEF BrowserRcon, Preflight
  <2>3. RconEndpoint(request.method) \in {"settings", "rcon", "METHOD_NOT_ALLOWED"}
    BY DEF RconEndpoint
  <2>4. QED
    BY <1>2, <2>1, <2>2, <2>3 DEF ServedOnlyWithSecret
<1>3. CASE request.host = "own" /\ ~(h.browserConnect /\ request.origin = "site")
  <2>1. CASE request.origin \notin {"none", "own"}
    BY <1>3, <2>1 DEF ServedOnlyWithSecret, Serve
  <2>2. CASE request.origin \in {"none", "own"} /\ request.path = "start"
    <3>1. Serve(h, request) = Start(h, request)
      BY <1>3, <2>2 DEF Serve
    <3>2. Start(h, request) \in {"METHOD_NOT_ALLOWED", "paired", "redirect", "PAIRING_EXPIRED"}
      BY DEF Start
    <3>3. Start(h, request) = "paired" => Redeems(h, request)
      BY DEF Start
    <3>4. QED
      BY <1>3, <2>2, <3>1, <3>2, <3>3 DEF ServedOnlyWithSecret, Redeems
  <2>3. CASE request.origin \in {"none", "own"} /\ request.path # "start"
    <3>1. Serve(h, request) = Workspace(h, request)
      BY <1>3, <2>3 DEF Serve
    <3>2. ~Authenticated(h, request) => Workspace(h, request) \in {"locked", "SESSION_REQUIRED"}
      BY DEF Workspace
    <3>3. RconEndpoint(request.method) \in {"settings", "rcon", "METHOD_NOT_ALLOWED"}
      BY DEF RconEndpoint
    <3>4. Workspace(h, request) # "paired"
      BY <3>3 DEF Workspace
    <3>5. QED
      BY <1>3, <2>3, <3>1, <3>2, <3>4 DEF ServedOnlyWithSecret, Authenticated
  <2>4. QED
    BY <1>3, <2>1, <2>2, <2>3
<1>4. QED
  BY <1>1, <1>2, <1>3

-----------------------------------------------------------------------------
(* The lists of a server.                                                    *)

(* A list that is gone through from a start, step by step.                   *)
GoesBy(f, N, X, start, step) ==
  /\ f \in [0..N -> X] /\ f[0] = start
  /\ \A n \in 1..N : f[n] = step[n][f[n - 1]]

LEMMA StepByStep ==
  ASSUME NEW N \in Nat, NEW X, NEW start \in X, NEW step \in [1..N -> [X -> X]]
  PROVE  \E f : GoesBy(f, N, X, start, step)
  <1> DEFINE Built(n, f) == /\ f \in [0..n -> X] /\ f[0] = start
                           /\ \A k \in 1..n : f[k] = step[k][f[k - 1]]
             S == {n \in 0..N : \E f : Built(n, f)}
  <1>1. 0 \in S
    <2> DEFINE f == [k \in 0..0 |-> start]
    <2>1. Built(0, f)
      OBVIOUS
    <2> HIDE DEF f, Built
    <2> QED
      BY <2>1
  <1>2. ASSUME NEW n \in 1..N, n - 1 \in S
        PROVE  n \in S
    <2>1. PICK f : Built(n - 1, f)
      BY <1>2
    <2> DEFINE last == step[n][f[n - 1]]
               g == [k \in 0..n |-> IF k = n THEN last ELSE f[k]]
    <2>2. f[n - 1] \in X /\ last \in X
      <3>1. n - 1 \in 0..(n - 1) /\ n \in 1..N
        OBVIOUS
      <3>2. f[n - 1] \in X
        BY <2>1, <3>1
      <3> QED
        BY <3>1, <3>2
    <2>3. \A k \in 0..(n - 1) : f[k] \in X /\ g[k] = f[k] /\ k \in 0..n /\ k # n
      BY <2>1
    <2>4. g[n] = last
      OBVIOUS
    <2>5. g \in [0..n -> X]
      <3>1. \A k \in 0..n : k = n \/ k \in 0..(n - 1)
        OBVIOUS
      <3> QED
        BY <2>2, <2>3, <3>1
    <2>6. g[0] = start
      BY <2>1, <2>3
    <2> HIDE DEF g
    <2>7. ASSUME NEW k \in 1..n
          PROVE  g[k] = step[k][g[k - 1]]
      <3>1. k - 1 \in 0..(n - 1) /\ g[k - 1] = f[k - 1]
        BY <2>3
      <3>2. CASE k = n
        BY <2>4, <3>1, <3>2
      <3>3. CASE k # n
        <4>1. k \in 1..(n - 1) /\ k \in 0..(n - 1)
          BY <3>3
        <4>2. f[k] = step[k][f[k - 1]]
          BY <2>1, <4>1
        <4> QED
          BY <2>3, <3>1, <4>1, <4>2
      <3> QED
        BY <3>2, <3>3
    <2>8. Built(n, g)
      BY <2>5, <2>6, <2>7
    <2> HIDE DEF Built
    <2> QED
      BY <2>8
  <1>3. N \in S
    <2> HIDE DEF S
    <2> QED
      BY <1>1, <1>2, AlongList
  <1> QED
    BY <1>3 DEF GoesBy

(* The players.                                                              *)
Different(players) ==
  \A i, j \in DOMAIN players : players[i].userId = players[j].userId => i = j
IdsIn(players) == {players[i].userId : i \in DOMAIN players}

LEMMA SetPlayerFacts ==
  ASSUME NEW R, NEW players \in Seq(R), NEW row \in R, Different(players)
  PROVE  LET new == SetPlayer(players, row)
         IN  new \in Seq(R) /\ Different(new) /\ IdsIn(new) = IdsIn(players) \cup {row.userId}
  <1> DEFINE same == {i \in DOMAIN players : SamePlayer(players[i], row)}
             new == SetPlayer(players, row)
  <1>1. CASE same = {}
    <2>1. new = Append(players, row)
      BY <1>1 DEF SetPlayer
    <2>2. \A i \in DOMAIN players : players[i].userId # row.userId
      BY <1>1 DEF SamePlayer
    <2>3. /\ new \in Seq(R) /\ Len(new) = Len(players) + 1 /\ new[Len(players) + 1] = row
          /\ \A i \in 1..Len(players) : new[i] = players[i]
      BY <2>1
    <2>4. DOMAIN new = DOMAIN players \cup {Len(players) + 1} /\ DOMAIN players = 1..Len(players)
      BY <2>3
    <2> HIDE DEF new, same
    <2>5. Different(new)
      BY <2>2, <2>3, <2>4 DEF Different
    <2>6. IdsIn(new) = IdsIn(players) \cup {row.userId}
      BY <2>3, <2>4 DEF IdsIn
    <2> QED
      BY <2>3, <2>5, <2>6 DEF new
  <1>2. CASE same # {}
    <2>1. new = [i \in DOMAIN players |-> IF i \in same THEN row ELSE players[i]]
      BY <1>2 DEF SetPlayer
    <2>2. DOMAIN players = 1..Len(players) /\ Len(players) \in Nat
      OBVIOUS
    <2>3. new \in Seq(R) /\ DOMAIN new = DOMAIN players
      BY <2>1, <2>2
    <2>4. \A i \in DOMAIN players : new[i].userId = players[i].userId
      BY <2>1 DEF SamePlayer
    <2>5. row.userId \in IdsIn(players)
      <3>1. PICK i \in DOMAIN players : players[i].userId = row.userId
        BY <1>2 DEF SamePlayer
      <3> QED
        BY <3>1 DEF IdsIn
    <2> HIDE DEF new, same
    <2>6. Different(new)
      BY <2>3, <2>4 DEF Different
    <2>7. IdsIn(new) = IdsIn(players)
      BY <2>3, <2>4 DEF IdsIn
    <2> QED
      BY <2>3, <2>5, <2>6, <2>7 DEF new
  <1> QED
    BY <1>1, <1>2

TakesAll(unique, R, N, rows) ==
  /\ Len(rows) = N /\ unique \in [0..N -> Seq(R)] /\ unique[0] = <<>>
  /\ \A n \in 1..N : unique[n] = SetPlayer(unique[n - 1], rows[n])

LEMMA UniqueDef ==
  ASSUME NEW R, NEW N \in Nat, NEW rows \in [1..N -> R]
  PROVE  TakesAll(UniqueUpTo(rows), R, N, rows)
  <1> DEFINE X == Seq(R)
             step == [n \in 1..N |-> [players \in X |-> SetPlayer(players, rows[n])]]
             Body(f, n) == IF n = 0 THEN <<>> ELSE SetPlayer(f[n - 1], rows[n])
  <1>0. Len(rows) = N /\ DOMAIN rows = 1..N
    OBVIOUS
  <1>1. \A players \in X, row \in R : SetPlayer(players, row) \in X
    <2> TAKE players \in X, row \in R
    <2>1. Append(players, row) \in X
      OBVIOUS
    <2>2. \A S : [i \in DOMAIN players |-> IF i \in S THEN row ELSE players[i]] \in X
      <3>1. DOMAIN players = 1..Len(players) /\ Len(players) \in Nat
        OBVIOUS
      <3> QED
        BY <3>1
    <2> QED
      BY <2>1, <2>2 DEF SetPlayer
  <1>2. step \in [1..N -> [X -> X]] /\ <<>> \in X
    BY <1>1
  <1>3. PICK f \in [0..N -> X] : f[0] = <<>> /\ \A n \in 1..N : f[n] = step[n][f[n - 1]]
    <2> DEFINE start == <<>>
    <2>1. start \in X
      BY <1>2
    <2> HIDE DEF X, step, start
    <2>2. \E f : GoesBy(f, N, X, start, step)
      BY <1>2, <2>1, StepByStep
    <2> QED
      BY <2>2 DEF GoesBy, start
  <1>4. \A n \in 1..N : f[n] = SetPlayer(f[n - 1], rows[n])
    <2> TAKE n \in 1..N
    <2>1. n - 1 \in 0..N
      OBVIOUS
    <2>2. f[n - 1] \in X
      BY <2>1
    <2>3. \A players \in X : step[n][players] = SetPlayer(players, rows[n])
      OBVIOUS
    <2> HIDE DEF step
    <2> QED
      BY <1>3, <2>2, <2>3
  <1>5. f = [n \in 0..N |-> Body(f, n)]
    <2>1. \A n \in 0..N : f[n] = Body(f, n)
      BY <1>3, <1>4
    <2> HIDE DEF Body
    <2> QED
      BY <2>1
  <1> HIDE DEF X, step
  <1>6. \E g : g = [n \in 0..Len(rows) |-> Body(g, n)]
    BY <1>0, <1>5
  <1>7. UniqueUpTo(rows) = [n \in 0..Len(rows) |-> Body(UniqueUpTo(rows), n)]
    BY <1>6, Zenon DEF UniqueUpTo
  <1> DEFINE U == UniqueUpTo(rows)
             S == {n \in 0..N : U[n] \in X}
  <1>8. U = [n \in 0..N |-> Body(U, n)]
    BY <1>0, <1>7
  <1>9. U[0] = <<>> /\ \A n \in 1..N : U[n] = SetPlayer(U[n - 1], rows[n])
    <2>1. 0 \in 0..N /\ \A n \in 1..N : n \in 0..N /\ n # 0
      OBVIOUS
    <2> HIDE DEF U
    <2> QED
      BY <1>8, <2>1
  <1> HIDE DEF U
  <1>10. ASSUME NEW n \in 0..N
         PROVE  U[n] \in X
    <2>1. 0 \in S
      BY <1>2, <1>9
    <2>2. ASSUME NEW k \in 1..N, k - 1 \in S
          PROVE  k \in S
      BY <1>1, <1>9, <2>2
    <2>3. \A k \in 1..n : k - 1 \in S => k \in S
      BY <2>2
    <2>4. n \in S
      <3> HIDE DEF S
      <3> QED
        BY <2>1, <2>3, AlongList
    <2> QED
      BY <2>4
  <1>11. U \in [0..N -> X]
    BY <1>8, <1>10
  <1> QED
    BY <1>0, <1>9, <1>11 DEF TakesAll, U, X

(* Sets of one number.                                                       *)
LEMMA OneNumber ==
  ASSUME NEW N \in Nat, NEW S \in SUBSET (1..N)
  PROVE  /\ IsFiniteSet(S)
         /\ Cardinality(S) = 1 <=> \E c \in S : S = {c}
         /\ \A c \in 1..N : S = {c} => Min(S) = c
  <1>1. IsFiniteSet(S)
    <2>1. IsFiniteSet(1..N)
      BY FS_Interval
    <2> QED
      BY <2>1, FS_Subset
  <1>2. Cardinality(S) = 1 <=> \E c : S = {c}
    BY <1>1, FS_Singleton
  <1>3. ASSUME NEW c \in 1..N, S = {c}
        PROVE  Min(S) = c
    BY <1>3 DEF Min
  <1> QED
    BY <1>1, <1>2, <1>3

(* One number, and one in the mirror.                                        *)
Mirrors(T, S, N) ==
  /\ S \in SUBSET (1..N) /\ T \in SUBSET (1..N)
  /\ \A i \in 1..N : i \in T <=> N + 1 - i \in S

OneMirrored(T, S, N) == Cardinality(T) = 1 /\ Min(S) \in S /\ Min(T) = N + 1 - Min(S)

LEMMA MirroredNumber ==
  ASSUME NEW N \in Nat, NEW S, NEW T, Mirrors(T, S, N), Cardinality(S) = 1
  PROVE  OneMirrored(T, S, N)
  <1>0. S \in SUBSET (1..N) /\ T \in SUBSET (1..N) /\ \A i \in 1..N : i \in T <=> N + 1 - i \in S
    BY DEF Mirrors
  <1>1. PICK c \in S : S = {c}
    BY <1>0, OneNumber
  <1>2. c \in 1..N /\ N + 1 - c \in 1..N /\ \A i \in 1..N : N + 1 - i = c <=> i = N + 1 - c
    BY <1>0, <1>1
  <1>3. T = {N + 1 - c}
    BY <1>0, <1>1, <1>2
  <1>4. Min(S) = c /\ Min(T) = N + 1 - c
    BY <1>0, <1>1, <1>2, <1>3, OneNumber
  <1>5. Cardinality(T) = 1
    BY <1>3, FS_Singleton
  <1> QED
    BY <1>1, <1>4, <1>5 DEF OneMirrored

Alone(player, players) == Cardinality(Namesakes(player, players)) = 1
Known(player, clients) == Cardinality(Matches(player, clients, {})) = 1
ClientOf(player, clients) == clients[Min(Matches(player, clients, {}))]

(* What becomes of a player, whoever comes before.                           *)
Given(player, players, clients) ==
  IF /\ Alone(player, players) /\ Known(player, clients)
     /\ ClientOf(player, clients).steamId # NoId
    THEN [player EXCEPT !.steamId = ClientOf(player, clients).steamId]
  ELSE player

Renamed(R, clients) == R \cup {[p EXCEPT !.steamId = clients[c].steamId] : p \in R, c \in DOMAIN clients}

LEMMA MatchesFacts ==
  ASSUME NEW C, NEW M \in Nat, NEW clients \in [1..M -> C], NEW player, NEW used
  PROVE  LET matches == Matches(player, clients, used)
         IN  /\ matches \in SUBSET (1..M)
             /\ Identified(matches) => Min(matches) \in matches /\ matches = {Min(matches)}
  <1> DEFINE matches == Matches(player, clients, used)
  <1>1. matches \in SUBSET (1..M)
    BY DEF Matches
  <1> HIDE DEF matches
  <1>2. ASSUME Identified(matches)
        PROVE  Min(matches) \in matches /\ matches = {Min(matches)}
    <2>1. PICK c \in matches : matches = {c}
      BY <1>1, <1>2, OneNumber DEF Identified
    <2>2. Min(matches) = c
      BY <1>1, <2>1, OneNumber
    <2> QED
      BY <2>1, <2>2
  <1> QED
    BY <1>1, <1>2 DEF matches

EnrichesAll(done, R, N, M, players, clients) ==
  /\ Len(players) = N
  /\ done \in [0..N -> [used : SUBSET (1..M), players : Seq(Renamed(R, clients))]]
  /\ done[0] = [used |-> {}, players |-> <<>>]
  /\ \A n \in 1..N : done[n] = EnrichPlayer(players, clients, done[n - 1], players[n])

LEMMA EnrichedDef ==
  ASSUME NEW R, NEW C, NEW N \in Nat, NEW M \in Nat,
         NEW players \in [1..N -> R], NEW clients \in [1..M -> C]
  PROVE  EnrichesAll(EnrichedUpTo(players, clients), R, N, M, players, clients)
  <1> DEFINE X == [used : SUBSET (1..M), players : Seq(Renamed(R, clients))]
             step == [n \in 1..N |-> [done \in X |->
                        EnrichPlayer(players, clients, done, players[n])]]
             start == [used |-> {}, players |-> <<>>]
             Body(f, n) == IF n = 0 THEN [used |-> {}, players |-> <<>>]
                           ELSE EnrichPlayer(players, clients, f[n - 1], players[n])
  <1>0. Len(players) = N /\ DOMAIN clients = 1..M
    OBVIOUS
  <1>1. ASSUME NEW done \in X, NEW player \in R
        PROVE  EnrichPlayer(players, clients, done, player) \in X
    <2> DEFINE matches == Matches(player, clients, done.used)
               client == Min(matches)
               new == IF clients[client].steamId = NoId THEN player
                      ELSE [player EXCEPT !.steamId = clients[client].steamId]
    <2>1. Append(done.players, player) \in Seq(Renamed(R, clients))
      <3>1. player \in Renamed(R, clients)
        BY DEF Renamed
      <3> QED
        BY <3>1
    <2>2. ASSUME Identified(matches)
          PROVE  client \in 1..M /\ Append(done.players, new) \in Seq(Renamed(R, clients))
      <3>1. client \in 1..M
        <4>1. matches \in SUBSET (1..M) /\ client \in matches
          BY <2>2, MatchesFacts, Zenon
        <4> QED
          BY <4>1
      <3>2. new \in Renamed(R, clients)
        BY <1>0, <3>1 DEF Renamed
      <3> HIDE DEF new, client
      <3> QED
        BY <3>1, <3>2
    <2> HIDE DEF matches
    <2>3. Identified(matches) =>
            [used |-> done.used \cup {client}, players |-> Append(done.players, new)] \in X
      <3> HIDE DEF client, new
      <3> QED
        BY <2>2
    <2>4. [done EXCEPT !.players = Append(@, player)] \in X
      BY <2>1
    <2> HIDE DEF X
    <2> QED
      BY <2>3, <2>4 DEF EnrichPlayer, matches
  <1>2. step \in [1..N -> [X -> X]] /\ start \in X
    <2>1. \A n \in 1..N : players[n] \in R
      OBVIOUS
    <2>2. start \in X
      OBVIOUS
    <2> HIDE DEF X
    <2> QED
      BY <1>1, <2>1, <2>2
  <1> HIDE DEF X
  <1>3. PICK f \in [0..N -> X] : f[0] = start /\ \A n \in 1..N : f[n] = step[n][f[n - 1]]
    <2>1. step \in [1..N -> [X -> X]]
      BY <1>2
    <2>2. start \in X
      BY <1>2
    <2> HIDE DEF step, start
    <2>3. \E f : GoesBy(f, N, X, start, step)
      BY <2>1, <2>2, StepByStep
    <2> QED
      BY <2>3 DEF GoesBy
  <1>4. \A n \in 1..N : f[n] = EnrichPlayer(players, clients, f[n - 1], players[n])
    <2> TAKE n \in 1..N
    <2>1. n - 1 \in 0..N
      OBVIOUS
    <2>2. f[n - 1] \in X
      BY <2>1
    <2>3. \A done \in X : step[n][done] = EnrichPlayer(players, clients, done, players[n])
      OBVIOUS
    <2> HIDE DEF step
    <2> QED
      BY <1>3, <2>2, <2>3
  <1> HIDE DEF step
  <1>5. f = [n \in 0..N |-> Body(f, n)]
    <2>1. \A n \in 0..N : f[n] = Body(f, n)
      BY <1>3, <1>4
    <2> HIDE DEF Body
    <2> QED
      BY <2>1
  <1>6. \E g : g = [n \in 0..Len(players) |-> Body(g, n)]
    BY <1>0, <1>5
  <1> DEFINE U == EnrichedUpTo(players, clients)
             S == {n \in 0..N : U[n] \in X}
  <1>7. U = [n \in 0..N |-> Body(U, n)]
    BY <1>0, <1>6, Zenon DEF EnrichedUpTo
  <1>8. U[0] = start /\ \A n \in 1..N : U[n] = EnrichPlayer(players, clients, U[n - 1], players[n])
    <2>1. 0 \in 0..N /\ \A n \in 1..N : n \in 0..N /\ n # 0
      OBVIOUS
    <2> HIDE DEF U
    <2> QED
      BY <1>7, <2>1
  <1> HIDE DEF U
  <1>9. ASSUME NEW n \in 0..N
        PROVE  U[n] \in X
    <2>1. 0 \in S
      BY <1>2, <1>8
    <2>2. ASSUME NEW k \in 1..N, k - 1 \in S
          PROVE  k \in S
      BY <1>1, <1>8, <2>2
    <2>3. \A k \in 1..n : k - 1 \in S => k \in S
      BY <2>2
    <2>4. n \in S
      <3> HIDE DEF S
      <3> QED
        BY <2>1, <2>3, AlongList
    <2> QED
      BY <2>4
  <1>10. U \in [0..N -> X]
    BY <1>7, <1>9
  <1> QED
    BY <1>0, <1>8, <1>10 DEF EnrichesAll, U, X

LEMMA NamesakesFacts ==
  ASSUME NEW R, NEW N \in Nat, NEW players \in [1..N -> R], NEW i \in 1..N, NEW j \in 1..N,
         Alone(players[i], players), players[j].name = players[i].name
  PROVE  i = j
  <1> DEFINE S == Namesakes(players[i], players)
  <1>1. S \in SUBSET (1..N) /\ i \in S /\ j \in S
    BY DEF Namesakes
  <1>2. Cardinality(S) = 1
    BY DEF Alone
  <1> HIDE DEF S
  <1>3. PICK c \in S : S = {c}
    BY <1>1, <1>2, OneNumber
  <1> QED
    BY <1>1, <1>3

GivesAll(players, clients, N) ==
  EnrichStatusWithJson(players, clients) = [i \in 1..N |-> Given(players[i], players, clients)]

(* A client that is taken has the name of a player no other has: each player *)
(* is given what comes of the two lists, wherever it stands.                 *)
LEMMA EnrichedFacts ==
  ASSUME NEW R, NEW C, NEW N \in Nat, NEW M \in Nat,
         NEW players \in [1..N -> R], NEW clients \in [1..M -> C]
  PROVE  GivesAll(players, clients, N)
  <1> DEFINE done == EnrichedUpTo(players, clients)
             new == [i \in 1..N |-> Given(players[i], players, clients)]
             Right(n) ==
               /\ Len(done[n].players) = n
               /\ \A i \in 1..n : done[n].players[i] = new[i]
               /\ \A c \in done[n].used : \E i \in 1..n :
                    Alone(players[i], players) /\ clients[c].name = players[i].name
             S == {n \in 0..N : Right(n)}
             X == [used : SUBSET (1..M), players : Seq(Renamed(R, clients))]
  <1>1. /\ Len(players) = N /\ done \in [0..N -> X]
        /\ done[0] = [used |-> {}, players |-> <<>>]
        /\ \A n \in 1..N : done[n] = EnrichPlayer(players, clients, done[n - 1], players[n])
    <2>1. EnrichesAll(done, R, N, M, players, clients)
      BY EnrichedDef
    <2> QED
      BY <2>1 DEF EnrichesAll
  <1>2. \A n \in 0..N : done[n].players \in Seq(Renamed(R, clients)) /\ done[n].used \subseteq 1..M
    BY <1>1
  <1>n. \A i \in 1..N : new[i] = Given(players[i], players, clients)
    OBVIOUS
  <1> HIDE DEF done, new, X
  <1>3. Right(0)
    BY <1>1
  <1>4. ASSUME NEW n \in 1..N, n - 1 \in S
        PROVE  n \in S
    <2> DEFINE old == done[n - 1]
               player == players[n]
               matches == Matches(player, clients, old.used)
               client == Min(matches)
               result == IF clients[client].steamId = NoId THEN player
                         ELSE [player EXCEPT !.steamId = clients[client].steamId]
    <2>1. /\ n \in 0..N /\ n - 1 \in 0..N /\ n \in Nat /\ n - 1 \in Nat
          /\ old.players \in Seq(Renamed(R, clients)) /\ old.used \subseteq 1..M
          /\ Len(old.players) = n - 1 /\ \A i \in 1..(n - 1) : old.players[i] = new[i]
          /\ \A c \in old.used : \E i \in 1..(n - 1) :
               Alone(players[i], players) /\ clients[c].name = players[i].name
      BY <1>2, <1>4
    <2>2. done[n] = EnrichPlayer(players, clients, old, player)
      BY <1>1
    <2>3. player \in R
      OBVIOUS
    <2> HIDE DEF old, player
    <2>4. CASE Alone(player, players) /\ Identified(matches)
      <3>1. \A c \in old.used : clients[c].name # player.name
        <4> SUFFICES ASSUME NEW c \in old.used, clients[c].name = player.name
                     PROVE  FALSE
          OBVIOUS
        <4>1. PICK i \in 1..(n - 1) : Alone(players[i], players) /\ clients[c].name = players[i].name
          BY <2>1
        <4>2. i \in 1..N /\ i # n
          BY <2>1
        <4>3. players[n].name = players[i].name
          BY <4>1 DEF player
        <4> QED
          BY <4>1, <4>2, <4>3, NamesakesFacts
      <3>2. matches = Matches(player, clients, {})
        BY <3>1 DEF Matches
      <3>3. result = new[n]
        BY <1>n, <2>4, <3>2 DEF Given, Known, ClientOf, Identified, player
      <3>4. done[n] = [used |-> old.used \cup {client}, players |-> Append(old.players, result)]
        BY <2>2, <2>4 DEF EnrichPlayer, Alone
      <3>5. client \in matches
        BY <2>4, MatchesFacts
      <3>6. clients[client].name = player.name
        BY <3>5 DEF Matches
      <3> HIDE DEF result, client, matches
      <3>7. Right(n)
        <4>1. done[n].players = Append(old.players, new[n]) /\ done[n].used = old.used \cup {client}
          BY <3>3, <3>4
        <4>2. Len(done[n].players) = n /\ \A i \in 1..n : done[n].players[i] = new[i]
          BY <2>1, <4>1
        <4>3. \A c \in done[n].used : \E i \in 1..n :
                 Alone(players[i], players) /\ clients[c].name = players[i].name
          <5>1. n \in 1..n /\ \A i \in 1..(n - 1) : i \in 1..n
            BY <2>1
          <5> QED
            BY <2>1, <2>4, <3>6, <4>1, <5>1 DEF player
        <4> QED
          BY <4>2, <4>3
      <3> QED
        BY <2>1, <3>7
    <2>5. CASE ~(Alone(player, players) /\ Identified(matches))
      <3>1. done[n] = [old EXCEPT !.players = Append(@, player)]
        BY <2>2, <2>5 DEF EnrichPlayer, Alone
      <3>2. old \in X
        BY <1>1, <2>1 DEF old
      <3>3. new[n] = player
        <4>1. CASE Alone(player, players)
          <5>1. \A c \in old.used : clients[c].name # player.name
            <6> SUFFICES ASSUME NEW c \in old.used, clients[c].name = player.name
                         PROVE  FALSE
              OBVIOUS
            <6>1. PICK i \in 1..(n - 1) :
                    Alone(players[i], players) /\ clients[c].name = players[i].name
              BY <2>1
            <6>2. i \in 1..N /\ i # n
              BY <2>1
            <6>3. players[n].name = players[i].name
              BY <6>1 DEF player
            <6> QED
              BY <6>1, <6>2, <6>3, NamesakesFacts
          <5>2. matches = Matches(player, clients, {})
            BY <5>1 DEF Matches
          <5> QED
            BY <1>n, <2>5, <4>1, <5>2 DEF Given, Known, Identified, player
        <4>2. CASE ~Alone(player, players)
          BY <1>n, <4>2 DEF Given, player
        <4> QED
          BY <4>1, <4>2
      <3> HIDE DEF matches
      <3>4. done[n].players = Append(old.players, new[n]) /\ done[n].used = old.used
        BY <3>1, <3>2, <3>3 DEF X
      <3>5. Right(n)
        <4>1. Len(done[n].players) = n /\ \A i \in 1..n : done[n].players[i] = new[i]
          BY <2>1, <3>4
        <4>2. \A c \in done[n].used : \E i \in 1..n :
                 Alone(players[i], players) /\ clients[c].name = players[i].name
          BY <2>1, <3>4
        <4> QED
          BY <4>1, <4>2
      <3> QED
        BY <2>1, <3>5
    <2> QED
      BY <2>4, <2>5
  <1>5. Right(N)
    <2>1. 0 \in S
      BY <1>3
    <2>2. N \in S
      <3> HIDE DEF S
      <3> QED
        BY <1>4, <2>1, AlongList
    <2> QED
      BY <2>2
  <1>6. done[N].players = new
    <2>1. N \in 0..N
      OBVIOUS
    <2>2. done[N].players = [i \in 1..N |-> done[N].players[i]]
      BY <1>2, <1>5, <2>1
    <2>3. new = [i \in 1..N |-> new[i]]
      BY DEF new
    <2> QED
      BY <1>5, <2>2, <2>3
  <1> QED
    BY <1>1, <1>6 DEF GivesAll, EnrichStatusWithJson, done, new

LEMMA UniqueFacts ==
  ASSUME NEW R, NEW N \in Nat, NEW rows \in [1..N -> R]
  PROVE  /\ UniquePlayers(rows) \in Seq(R) /\ Different(UniquePlayers(rows))
         /\ IdsIn(UniquePlayers(rows)) = {rows[k].userId : k \in 1..N}
  <1> DEFINE U == UniqueUpTo(rows)
             Right(n) == Different(U[n]) /\ IdsIn(U[n]) = {rows[k].userId : k \in 1..n}
             S == {n \in 0..N : Right(n)}
  <1>1. /\ Len(rows) = N /\ U \in [0..N -> Seq(R)] /\ U[0] = <<>>
        /\ \A n \in 1..N : U[n] = SetPlayer(U[n - 1], rows[n])
    <2>1. TakesAll(U, R, N, rows)
      BY UniqueDef
    <2> QED
      BY <2>1 DEF TakesAll
  <1> HIDE DEF U
  <1>2. Right(0)
    <2>1. Different(<<>>) /\ IdsIn(<<>>) = {} /\ 1..0 = {}
      BY DEF Different, IdsIn
    <2> QED
      BY <1>1, <2>1
  <1>3. ASSUME NEW n \in 1..N, n - 1 \in S
        PROVE  n \in S
    <2>0. n \in 0..N /\ n - 1 \in 0..N /\ rows[n] \in R
      OBVIOUS
    <2>1. U[n - 1] \in Seq(R) /\ U[n] = SetPlayer(U[n - 1], rows[n])
      BY <1>1, <2>0
    <2>2. Different(U[n - 1]) /\ IdsIn(U[n - 1]) = {rows[k].userId : k \in 1..(n - 1)}
      BY <1>3
    <2>3. Different(U[n]) /\ IdsIn(U[n]) = IdsIn(U[n - 1]) \cup {rows[n].userId}
      BY <2>0, <2>1, <2>2, SetPlayerFacts
    <2>4. 1..n = 1..(n - 1) \cup {n}
      OBVIOUS
    <2>5. {rows[k].userId : k \in 1..n} = {rows[k].userId : k \in 1..(n - 1)} \cup {rows[n].userId}
      BY <2>4
    <2> QED
      BY <2>0, <2>2, <2>3, <2>5
  <1>4. Right(N) /\ U[N] \in Seq(R)
    <2>1. 0 \in S
      BY <1>2
    <2>2. N \in S
      <3> HIDE DEF S
      <3> QED
        BY <1>3, <2>1, AlongList
    <2> QED
      BY <1>1, <2>2
  <1> QED
    BY <1>1, <1>4 DEF UniquePlayers, U

(* What a player is given does not depend on the order of the lists.         *)
Turned(others, players, N, R) ==
  /\ players \in [1..N -> R] /\ others \in [1..N -> R]
  /\ \A i \in 1..N : others[i] = players[N + 1 - i]

LEMMA MirroredGiven ==
  ASSUME NEW R, NEW C, NEW N \in Nat, NEW M \in Nat, NEW players, NEW clients, NEW others,
         NEW rest, Turned(others, players, N, R), Turned(rest, clients, M, C), NEW player
  PROVE  Given(player, others, rest) = Given(player, players, clients)
  <1> DEFINE P == Namesakes(player, players)
             O == Namesakes(player, others)
             K == Matches(player, clients, {})
             L == Matches(player, rest, {})
  <1>0. /\ DOMAIN players = 1..N /\ DOMAIN others = 1..N /\ DOMAIN clients = 1..M /\ DOMAIN rest = 1..M
        /\ \A i \in 1..N : others[i] = players[N + 1 - i]
        /\ \A c \in 1..M : rest[c] = clients[M + 1 - c]
    BY DEF Turned
  <1>1. P \in SUBSET (1..N) /\ O \in SUBSET (1..N) /\ K \in SUBSET (1..M) /\ L \in SUBSET (1..M)
    BY <1>0 DEF Namesakes, Matches
  <1>2. \A i \in 1..N : N + 1 - i \in 1..N /\ N + 1 - (N + 1 - i) = i
    OBVIOUS
  <1>3. \A c \in 1..M : M + 1 - c \in 1..M /\ M + 1 - (M + 1 - c) = c
    OBVIOUS
  <1>4. \A i \in 1..N : i \in O <=> N + 1 - i \in P
    BY <1>0, <1>2 DEF Namesakes
  <1>5. \A i \in 1..N : i \in P <=> N + 1 - i \in O
    BY <1>2, <1>4
  <1>6. \A c \in 1..M : c \in L <=> M + 1 - c \in K
    BY <1>0, <1>3 DEF Matches
  <1>7. \A c \in 1..M : c \in K <=> M + 1 - c \in L
    BY <1>3, <1>6
  <1> HIDE DEF P, O, K, L
  <1>m. Mirrors(O, P, N) /\ Mirrors(P, O, N) /\ Mirrors(L, K, M) /\ Mirrors(K, L, M)
    BY <1>1, <1>4, <1>5, <1>6, <1>7 DEF Mirrors
  <1>8. Alone(player, others) <=> Alone(player, players)
    <2>1. /\ Cardinality(P) = 1 => OneMirrored(O, P, N)
          /\ Cardinality(O) = 1 => OneMirrored(P, O, N)
      BY <1>m, MirroredNumber
    <2> QED
      BY <2>1 DEF Alone, P, O, OneMirrored
  <1>9. Known(player, rest) <=> Known(player, clients)
    <2>1. /\ Cardinality(K) = 1 => OneMirrored(L, K, M)
          /\ Cardinality(L) = 1 => OneMirrored(K, L, M)
      BY <1>m, MirroredNumber
    <2> QED
      BY <2>1 DEF Known, K, L, OneMirrored
  <1>10. Known(player, clients) => ClientOf(player, rest) = ClientOf(player, clients)
    <2> SUFFICES ASSUME Known(player, clients)
                 PROVE  ClientOf(player, rest) = ClientOf(player, clients)
      OBVIOUS
    <2>1. OneMirrored(L, K, M)
      BY <1>m, MirroredNumber DEF Known, K
    <2>2. Min(K) \in K /\ Min(L) = M + 1 - Min(K)
      BY <2>1 DEF OneMirrored
    <2>3. Min(K) \in 1..M /\ Min(L) \in 1..M /\ M + 1 - Min(L) = Min(K)
      BY <1>1, <1>3, <2>2
    <2>4. rest[Min(L)] = clients[Min(K)]
      BY <1>0, <2>3
    <2> QED
      BY <2>4 DEF ClientOf, K, L
  <1> QED
    BY <1>8, <1>9, <1>10 DEF Given

LEMMA ReverseFacts ==
  ASSUME NEW R, NEW N \in Nat, NEW s \in [1..N -> R]
  PROVE  Turned(Reverse(s), s, N, R)
  <1>1. Len(s) = N /\ DOMAIN s = 1..N
    OBVIOUS
  <1>2. Reverse(s) = [i \in 1..N |-> s[(N - i) + 1]]
    BY <1>1 DEF Reverse
  <1>3. \A i \in 1..N : (N - i) + 1 \in 1..N /\ (N - i) + 1 = N + 1 - i
    OBVIOUS
  <1> QED
    BY <1>1, <1>2, <1>3 DEF Turned

SameWhateverOrder(players, clients) ==
  ToSet(EnrichStatusWithJson(Reverse(players), Reverse(clients)))
    = ToSet(EnrichStatusWithJson(players, clients))

LEMMA OrderIrrelevant ==
  ASSUME NEW R, NEW C, NEW N \in Nat, NEW M \in Nat,
         NEW players \in [1..N -> R], NEW clients \in [1..M -> C]
  PROVE  SameWhateverOrder(players, clients)
  <1> DEFINE others == Reverse(players)
             rest == Reverse(clients)
             A == [i \in 1..N |-> Given(players[i], players, clients)]
             B == [i \in 1..N |-> Given(others[i], others, rest)]
  <1>0. Turned(others, players, N, R) /\ Turned(rest, clients, M, C)
    BY ReverseFacts
  <1> HIDE DEF others, rest
  <1>1. /\ others \in [1..N -> R] /\ \A i \in 1..N : others[i] = players[N + 1 - i]
        /\ rest \in [1..M -> C]
    BY <1>0 DEF Turned
  <1>2. EnrichStatusWithJson(players, clients) = A
    <2>1. GivesAll(players, clients, N)
      BY EnrichedFacts
    <2> QED
      BY <2>1 DEF GivesAll
  <1>3. EnrichStatusWithJson(others, rest) = B
    <2>1. GivesAll(others, rest, N)
      BY <1>1, EnrichedFacts
    <2> QED
      BY <2>1 DEF GivesAll
  <1>4. \A i \in 1..N : N + 1 - i \in 1..N /\ N + 1 - (N + 1 - i) = i
    OBVIOUS
  <1>5. ASSUME NEW i \in 1..N
        PROVE  B[i] = A[N + 1 - i]
    <2>1. others[i] = players[N + 1 - i]
      BY <1>1
    <2>2. Given(others[i], others, rest) = Given(others[i], players, clients)
      BY <1>0, MirroredGiven
    <2> QED
      BY <1>4, <2>1, <2>2
  <1>6. ToSet(A) = {A[i] : i \in 1..N} /\ ToSet(B) = {B[i] : i \in 1..N}
    BY DEF ToSet
  <1> HIDE DEF A, B
  <1>7. ToSet(A) = ToSet(B)
    <2>1. ASSUME NEW x \in ToSet(B)
          PROVE  x \in ToSet(A)
      BY <1>4, <1>5, <1>6
    <2>2. ASSUME NEW x \in ToSet(A)
          PROVE  x \in ToSet(B)
      <3>1. PICK i \in 1..N : x = A[i]
        BY <1>6
      <3>2. x = B[N + 1 - i] /\ N + 1 - i \in 1..N
        BY <1>4, <1>5, <3>1
      <3> QED
        BY <1>6, <3>2
    <2> QED
      BY <2>1, <2>2
  <1> QED
    BY <1>2, <1>3, <1>7 DEF others, rest, SameWhateverOrder

(* A ban goes to the player it is clicked for.                               *)
BansFit(rows, clients) ==
  LET players == UniquePlayers(rows)
      enriched == EnrichStatusWithJson(players, clients)
      Fresh(i) == enriched[i].steamId # players[i].steamId
  IN /\ {players[i].userId : i \in DOMAIN players} = {row.userId : row \in ToSet(rows)}
     /\ \A i, j \in DOMAIN players : players[i].userId = players[j].userId => i = j
     /\ ToSet(EnrichStatusWithJson(Reverse(players), Reverse(clients))) = ToSet(enriched)
     /\ \A i \in DOMAIN players : Fresh(i) =>
          /\ \E c \in DOMAIN clients : /\ clients[c].name = players[i].name
                                       /\ clients[c].steamId = enriched[i].steamId
          /\ \A j \in DOMAIN players \ {i} : players[j].name # players[i].name

LEMMA BansFitPlayers ==
  ASSUME NEW R, NEW C, NEW N \in Nat, NEW M \in Nat,
         NEW rows \in [1..N -> R], NEW clients \in [1..M -> C],
         \A row \in R : "steamId" \in DOMAIN row
  PROVE  BansFit(rows, clients)
  <1> DEFINE players == UniquePlayers(rows)
             enriched == EnrichStatusWithJson(players, clients)
             n == Len(players)
  <1>1. players \in Seq(R) /\ Different(players) /\ IdsIn(players) = {rows[k].userId : k \in 1..N}
    BY UniqueFacts
  <1> HIDE DEF players
  <1>2. n \in Nat /\ players \in [1..n -> R] /\ DOMAIN players = 1..n /\ DOMAIN clients = 1..M
    BY <1>1
  <1> HIDE DEF n
  <1>3. enriched = [i \in 1..n |-> Given(players[i], players, clients)]
    <2>1. GivesAll(players, clients, n)
      BY <1>2, EnrichedFacts
    <2> QED
      BY <2>1 DEF GivesAll
  <1>4. ToSet(EnrichStatusWithJson(Reverse(players), Reverse(clients))) = ToSet(enriched)
    <2>1. SameWhateverOrder(players, clients)
      BY <1>2, OrderIrrelevant
    <2> QED
      BY <2>1 DEF SameWhateverOrder
  <1> HIDE DEF enriched
  <1>5. {players[i].userId : i \in DOMAIN players} = {row.userId : row \in ToSet(rows)}
    <2>1. ToSet(rows) = {rows[k] : k \in 1..N}
      BY DEF ToSet
    <2>2. {row.userId : row \in ToSet(rows)} = {rows[k].userId : k \in 1..N}
      BY <2>1
    <2> QED
      BY <1>1, <2>2 DEF IdsIn
  <1>6. ASSUME NEW i \in 1..n, enriched[i].steamId # players[i].steamId
        PROVE  /\ \E c \in 1..M : /\ clients[c].name = players[i].name
                                  /\ clients[c].steamId = enriched[i].steamId
               /\ \A j \in (1..n) \ {i} : players[j].name # players[i].name
    <2> DEFINE player == players[i]
               c == Min(Matches(player, clients, {}))
    <2>1. enriched[i] = Given(player, players, clients) /\ player \in R
      BY <1>2, <1>3
    <2>2. Alone(player, players) /\ Known(player, clients) /\ enriched[i] # player
      BY <1>6, <2>1 DEF Given
    <2>3. c \in Matches(player, clients, {}) /\ c \in 1..M
      <3>1. Identified(Matches(player, clients, {}))
        BY <2>2 DEF Known, Identified
      <3>2. c \in Matches(player, clients, {}) /\ Matches(player, clients, {}) \in SUBSET (1..M)
        BY <3>1, MatchesFacts, Zenon
      <3> QED
        BY <3>2
    <2>4. clients[c].name = player.name
      BY <2>3 DEF Matches
    <2>5. enriched[i] = [player EXCEPT !.steamId = clients[c].steamId]
      BY <2>1, <2>2 DEF Given, ClientOf
    <2>6. enriched[i].steamId = clients[c].steamId
      <3>1. "steamId" \in DOMAIN player
        BY <2>1
      <3> HIDE DEF player, c
      <3> QED
        BY <2>5, <3>1
    <2>7. \A j \in (1..n) \ {i} : players[j].name # players[i].name
      BY <1>2, <2>2, NamesakesFacts
    <2> HIDE DEF c
    <2> QED
      BY <2>3, <2>4, <2>6, <2>7
  <1> QED
    BY <1>1, <1>2, <1>4, <1>5, <1>6 DEF Different, BansFit, players, enriched

-----------------------------------------------------------------------------
(* The maps.  A name of digits is a Workshop id, the map's own if it has one. *)
IsCard(card) ==
  /\ DOMAIN card = {"name", "category", "workshopId"}
  /\ card.name \in Numeric /\ card.workshopId # NoId => card.workshopId = card.name

Cards(R) ==
  {card \in R \cup [name : {map.name : map \in R},
                    category : {map.category : map \in R} \cup {"Workshop"},
                    workshopId : {map.workshopId : map \in R}] : IsCard(card)}

(* What changes the level to a map of the inventory, and to an installed one. *)
Loads(card, map) ==
  IF map.workshopId # NoId THEN card.workshopId = map.workshopId
  ELSE /\ card.category = "Workshop"
       /\ card.name = map.name \/ (map.name \in Numeric /\ card.workshopId = map.name)
Stays(card, map) ==
  \/ Loads(card, map)
  \/ /\ card.workshopId = NoId /\ map.workshopId = NoId
     /\ card.category = map.category /\ card.name = map.name

LoadsNoLess(new, old) == \A m : (Loads(old, m) => Loads(new, m)) /\ (Stays(old, m) => Stays(new, m))

LEMMA CardFacts ==
  ASSUME NEW R, NEW card \in Cards(R)
  PROVE  /\ IsCard(card) /\ card.name \in {map.name : map \in R}
         /\ card.category \in {map.category : map \in R} \cup {"Workshop"}
         /\ card.workshopId \in {map.workshopId : map \in R}
  BY DEF Cards

LEMMA RetitledFacts ==
  ASSUME NEW R, NEW card \in Cards(R), NEW map \in Cards(R), SameMap(card, map)
  PROVE  /\ Retitled(card, map) \in Cards(R)
         /\ Loads(Retitled(card, map), map)
         /\ LoadsNoLess(Retitled(card, map), card)
  <1> DEFINE new == Retitled(card, map)
  <1>1. /\ IsCard(card) /\ card.name \in {m.name : m \in R}
        /\ card.workshopId \in {m.workshopId : m \in R}
        /\ IsCard(map) /\ map.name \in {m.name : m \in R}
    BY CardFacts
  <1>2. /\ new.category = "Workshop" /\ new.workshopId = card.workshopId
        /\ new.name = IF card.name \in Numeric THEN map.name ELSE card.name
        /\ DOMAIN new = {"name", "category", "workshopId"}
    BY DEF Retitled
  <1>3. new \in [name : {m.name : m \in R},
                 category : {m.category : m \in R} \cup {"Workshop"},
                 workshopId : {m.workshopId : m \in R}]
    BY <1>1 DEF Retitled
  <1> HIDE DEF new
  <1>4. IsCard(new)
    BY <1>1, <1>2 DEF IsCard, SameMap
  <1>5. new \in Cards(R)
    BY <1>3, <1>4 DEF Cards
  <1>6. Loads(new, map)
    BY <1>2 DEF Loads, SameMap
  <1>7. ASSUME NEW m
        PROVE  (Loads(card, m) => Loads(new, m)) /\ (Stays(card, m) => Stays(new, m))
    <2>1. Loads(card, m) => Loads(new, m)
      BY <1>1, <1>2 DEF Loads, SameMap, IsCard
    <2>2. Stays(card, m) => Stays(new, m)
      BY <1>2, <2>1 DEF Stays, Loads, SameMap
    <2> QED
      BY <2>1, <2>2
  <1> QED
    BY <1>5, <1>6, <1>7 DEF new, LoadsNoLess

(* What a merge makes of the maps so far.                                    *)
Merges(new, result, map, R) ==
  /\ new \in Seq(Cards(R)) /\ Len(new) >= Len(result)
  /\ \A i \in 1..Len(result) : LoadsNoLess(new[i], result[i])
  /\ \E i \in 1..Len(new) : Loads(new[i], map)

LEMMA MergeMapFacts ==
  ASSUME NEW R, NEW result \in Seq(Cards(R)), NEW map \in Cards(R), map.category = "Workshop"
  PROVE  Merges(MergeMap(result, map), result, map, R)
  <1> DEFINE known == {i \in DOMAIN result : SameMap(result[i], map)}
             new == MergeMap(result, map)
  <1>1. Len(result) \in Nat /\ DOMAIN result = 1..Len(result)
    OBVIOUS
  <1>2. CASE known = {}
    <2>1. new = Append(result, map)
      BY <1>2 DEF MergeMap
    <2>2. /\ new \in Seq(Cards(R)) /\ Len(new) = Len(result) + 1 /\ new[Len(result) + 1] = map
          /\ \A i \in 1..Len(result) : new[i] = result[i]
      BY <2>1
    <2>3. Loads(map, map)
      BY DEF Loads
    <2>4. \A i \in 1..Len(result) : LoadsNoLess(new[i], result[i])
      BY <2>2 DEF LoadsNoLess
    <2> HIDE DEF new
    <2>5. Len(new) \in 1..Len(new) /\ Loads(new[Len(new)], map) /\ Len(new) >= Len(result)
      BY <1>1, <2>2, <2>3
    <2> QED
      BY <2>2, <2>4, <2>5 DEF Merges, new
  <1>3. CASE known # {}
    <2> DEFINE k == Min(known)
    <2>1. new = [result EXCEPT ![k] = Retitled(result[k], map)]
      BY <1>3 DEF MergeMap, Retitled
    <2>2. k \in 1..Len(result) /\ SameMap(result[k], map)
      <3>1. PICK i \in known : \A j \in known : i <= j
        <4> HIDE DEF known
        <4>1. known \subseteq Nat
          BY <1>1 DEF known
        <4> QED
          BY <1>3, <4>1, LeastNumber
      <3>2. k \in known
        BY <3>1 DEF Min
      <3> QED
        BY <1>1, <3>2
    <2> HIDE DEF k
    <2>3. result[k] \in Cards(R)
      BY <2>2
    <2>4. /\ Retitled(result[k], map) \in Cards(R)
          /\ Loads(Retitled(result[k], map), map)
          /\ LoadsNoLess(Retitled(result[k], map), result[k])
      BY <2>2, <2>3, RetitledFacts
    <2>5. /\ new \in Seq(Cards(R)) /\ Len(new) = Len(result) /\ new[k] = Retitled(result[k], map)
          /\ \A i \in 1..Len(result) : i # k => new[i] = result[i]
      BY <2>1, <2>2, <2>4
    <2> HIDE DEF new
    <2>6. \A i \in 1..Len(result) : LoadsNoLess(new[i], result[i])
      <3>1. ASSUME NEW i \in 1..Len(result), i # k
            PROVE  LoadsNoLess(new[i], result[i])
        BY <2>5, <3>1 DEF LoadsNoLess
      <3> QED
        BY <2>4, <2>5, <3>1
    <2> QED
      BY <1>1, <2>2, <2>4, <2>5, <2>6 DEF Merges, new
  <1> QED
    BY <1>2, <1>3

MergesAll(merged, R, N, installed, inventory) ==
  /\ Len(inventory) = N /\ merged \in [0..N -> Seq(Cards(R))] /\ merged[0] = installed
  /\ \A n \in 1..N : merged[n] = MergeMap(merged[n - 1], inventory[n])

LEMMA MergedDef ==
  ASSUME NEW R, NEW N \in Nat, NEW installed \in Seq(Cards(R)), NEW inventory \in [1..N -> Cards(R)],
         \A n \in 1..N : inventory[n].category = "Workshop"
  PROVE  MergesAll(MergedUpTo(installed, inventory), R, N, installed, inventory)
  <1> DEFINE X == Seq(Cards(R))
             step == [n \in 1..N |-> [result \in X |-> MergeMap(result, inventory[n])]]
             Body(f, n) == IF n = 0 THEN installed ELSE MergeMap(f[n - 1], inventory[n])
  <1>0. Len(inventory) = N
    OBVIOUS
  <1>1. ASSUME NEW result \in X, NEW n \in 1..N
        PROVE  MergeMap(result, inventory[n]) \in X
    <2>1. Merges(MergeMap(result, inventory[n]), result, inventory[n], R)
      <3>1. inventory[n] \in Cards(R) /\ inventory[n].category = "Workshop"
        OBVIOUS
      <3> QED
        BY <3>1, MergeMapFacts
    <2> QED
      BY <2>1 DEF Merges
  <1> HIDE DEF X
  <1>2. step \in [1..N -> [X -> X]] /\ installed \in X
    BY <1>1 DEF X
  <1>3. PICK f \in [0..N -> X] : f[0] = installed /\ \A n \in 1..N : f[n] = step[n][f[n - 1]]
    <2>1. \E f : GoesBy(f, N, X, installed, step)
      <3> HIDE DEF step
      <3> QED
        BY <1>2, StepByStep
    <2> QED
      BY <2>1 DEF GoesBy
  <1>4. \A n \in 1..N : f[n] = MergeMap(f[n - 1], inventory[n])
    <2> TAKE n \in 1..N
    <2>1. n - 1 \in 0..N
      OBVIOUS
    <2>2. f[n - 1] \in X
      BY <2>1
    <2>3. \A result \in X : step[n][result] = MergeMap(result, inventory[n])
      OBVIOUS
    <2> HIDE DEF step
    <2> QED
      BY <1>3, <2>2, <2>3
  <1>5. f = [n \in 0..N |-> Body(f, n)]
    <2>1. \A n \in 0..N : f[n] = Body(f, n)
      BY <1>3, <1>4
    <2> HIDE DEF Body
    <2> QED
      BY <2>1
  <1> HIDE DEF step
  <1>6. \E g : g = [n \in 0..Len(inventory) |-> Body(g, n)]
    BY <1>0, <1>5
  <1> DEFINE U == MergedUpTo(installed, inventory)
             S == {n \in 0..N : U[n] \in X}
  <1>7. U = [n \in 0..N |-> Body(U, n)]
    BY <1>0, <1>6, Zenon DEF MergedUpTo
  <1>8. U[0] = installed /\ \A n \in 1..N : U[n] = MergeMap(U[n - 1], inventory[n])
    <2>1. 0 \in 0..N /\ \A n \in 1..N : n \in 0..N /\ n # 0
      OBVIOUS
    <2> HIDE DEF U
    <2> QED
      BY <1>7, <2>1
  <1> HIDE DEF U
  <1>9. ASSUME NEW n \in 0..N
        PROVE  U[n] \in X
    <2>1. 0 \in S
      BY <1>2, <1>8
    <2>2. ASSUME NEW k \in 1..N, k - 1 \in S
          PROVE  k \in S
      BY <1>1, <1>8, <2>2
    <2>3. \A k \in 1..n : k - 1 \in S => k \in S
      BY <2>2
    <2>4. n \in S
      <3> HIDE DEF S
      <3> QED
        BY <2>1, <2>3, AlongList
    <2> QED
      BY <2>4
  <1>10. U \in [0..N -> X]
    BY <1>7, <1>9
  <1> QED
    BY <1>0, <1>8, <1>10 DEF MergesAll, U, X

(* Every map of the two lists, in what they are merged to.                   *)
LosesNoMap(result, N, M, installed, inventory) ==
  /\ DOMAIN result = 1..Len(result)
  /\ \A i \in 1..M : \E k \in 1..Len(result) : Stays(result[k], installed[i])
  /\ \A n \in 1..N : \E k \in 1..Len(result) : Loads(result[k], inventory[n])

LEMMA MergedFacts ==
  ASSUME NEW R, NEW N \in Nat, NEW M \in Nat,
         NEW installed \in [1..M -> Cards(R)], NEW inventory \in [1..N -> Cards(R)],
         \A n \in 1..N : inventory[n].category = "Workshop"
  PROVE  LosesNoMap(MergedUpTo(installed, inventory)[Len(inventory)], N, M, installed, inventory)
  <1> DEFINE U == MergedUpTo(installed, inventory)
             Right(n) ==
               /\ \A i \in 1..M : \E k \in 1..Len(U[n]) : Stays(U[n][k], installed[i])
               /\ \A j \in 1..n : \E k \in 1..Len(U[n]) : Loads(U[n][k], inventory[j])
             S == {n \in 0..N : Right(n)}
  <1>0. installed \in Seq(Cards(R)) /\ Len(installed) = M /\ DOMAIN installed = 1..M
    OBVIOUS
  <1>1. /\ Len(inventory) = N /\ U \in [0..N -> Seq(Cards(R))] /\ U[0] = installed
        /\ \A n \in 1..N : U[n] = MergeMap(U[n - 1], inventory[n])
    <2>1. MergesAll(U, R, N, installed, inventory)
      BY <1>0, MergedDef
    <2> QED
      BY <2>1 DEF MergesAll
  <1> HIDE DEF U
  <1>2. Right(0)
    <2>1. \A i \in 1..M : Stays(installed[i], installed[i])
      BY DEF Stays, Loads
    <2> QED
      BY <1>0, <1>1, <2>1
  <1>3. ASSUME NEW n \in 1..N, n - 1 \in S
        PROVE  n \in S
    <2> DEFINE old == U[n - 1]
               new == U[n]
    <2>1. n \in 0..N /\ n - 1 \in 0..N /\ old \in Seq(Cards(R)) /\ new = MergeMap(old, inventory[n])
      BY <1>1
    <2>2. inventory[n] \in Cards(R) /\ inventory[n].category = "Workshop"
      OBVIOUS
    <2>3. Merges(new, old, inventory[n], R)
      <3> HIDE DEF old, new
      <3> QED
        BY <2>1, <2>2, MergeMapFacts
    <2>4. /\ Len(new) >= Len(old) /\ \A k \in 1..Len(old) : LoadsNoLess(new[k], old[k])
          /\ \E k \in 1..Len(new) : Loads(new[k], inventory[n])
      BY <2>3 DEF Merges
    <2>5. /\ \A i \in 1..M : \E k \in 1..Len(old) : Stays(old[k], installed[i])
          /\ \A j \in 1..(n - 1) : \E k \in 1..Len(old) : Loads(old[k], inventory[j])
      BY <1>3
    <2>6. Len(old) \in Nat /\ Len(new) \in Nat
      BY <1>1, <2>1
    <2>7. \A k \in 1..Len(old) : k \in 1..Len(new)
      BY <2>4, <2>6
    <2> HIDE DEF old, new
    <2>8. \A i \in 1..M : \E k \in 1..Len(new) : Stays(new[k], installed[i])
      BY <2>4, <2>5, <2>7 DEF LoadsNoLess
    <2>9. \A j \in 1..(n - 1) : \E k \in 1..Len(new) : Loads(new[k], inventory[j])
      BY <2>4, <2>5, <2>7 DEF LoadsNoLess
    <2>10. \A j \in 1..n : j = n \/ j \in 1..(n - 1)
      OBVIOUS
    <2>11. \A j \in 1..n : \E k \in 1..Len(new) : Loads(new[k], inventory[j])
      BY <2>4, <2>9, <2>10
    <2> QED
      BY <2>1, <2>8, <2>11 DEF new
  <1>4. Right(N) /\ U[N] \in Seq(Cards(R))
    <2>1. 0 \in S
      <3> HIDE DEF Right
      <3> QED
        BY <1>2
    <2>2. N \in S
      <3> HIDE DEF S
      <3> QED
        BY <1>3, <2>1, AlongList
    <2> QED
      BY <1>1, <2>2
  <1>5. DOMAIN U[N] = 1..Len(U[N])
    BY <1>4
  <1> QED
    BY <1>1, <1>4, <1>5 DEF LosesNoMap, U

(* Merging the two lists loses no map.                                       *)
MergeKeepsMaps(installed, inventory) ==
  LET cards == MergeServerMaps(installed, inventory)
      commands == {GetMapChangeCommand(card) : card \in cards}
      CanLoad(map) ==
        IF map.workshopId # NoId THEN GetMapChangeCommand(map) \in commands
        ELSE \E card \in cards :
               /\ card.category = "Workshop"
               /\ card.name = map.name \/ (map.name \in Numeric /\ card.workshopId = map.name)
  IN /\ \A map \in ToSet(installed) : GetMapChangeCommand(map) \in commands \/ CanLoad(map)
     /\ \A map \in ToSet(inventory) : CanLoad(map)

LEMMA MergingLosesNoMap ==
  ASSUME NEW R, NEW N \in Nat, NEW M \in Nat, \A map \in R : IsCard(map),
         NEW installed \in [1..M -> R], NEW inventory \in [1..N -> R],
         \A n \in 1..N : inventory[n].category = "Workshop"
  PROVE  MergeKeepsMaps(installed, inventory)
  <1> DEFINE result == MergedUpTo(installed, inventory)[Len(inventory)]
             cards == MergeServerMaps(installed, inventory)
             commands == {GetMapChangeCommand(card) : card \in cards}
             CanLoad(map) ==
               IF map.workshopId # NoId THEN GetMapChangeCommand(map) \in commands
               ELSE \E card \in cards :
                      /\ card.category = "Workshop"
                      /\ card.name = map.name \/ (map.name \in Numeric /\ card.workshopId = map.name)
  <1>1. LosesNoMap(result, N, M, installed, inventory)
    <2>1. R \subseteq Cards(R)
      BY DEF Cards
    <2>2. installed \in [1..M -> Cards(R)] /\ inventory \in [1..N -> Cards(R)]
      BY <2>1
    <2> QED
      BY <2>2, MergedFacts
  <1>2. cards = ToSet(result)
    BY DEF MergeServerMaps
  <1> HIDE DEF result, cards
  <1>3. \A k \in 1..Len(result) : result[k] \in cards
    BY <1>1, <1>2 DEF LosesNoMap, ToSet
  <1>4. ASSUME NEW card \in cards, NEW map, Loads(card, map)
        PROVE  CanLoad(map)
    <2>1. CASE map.workshopId # NoId
      <3>1. GetMapChangeCommand(card) = GetMapChangeCommand(map)
        BY <1>4, <2>1 DEF Loads, GetMapChangeCommand
      <3> QED
        BY <2>1, <3>1
    <2>2. CASE map.workshopId = NoId
      BY <1>4, <2>2 DEF Loads
    <2> QED
      BY <2>1, <2>2
  <1>5. ASSUME NEW card \in cards, NEW map, Stays(card, map)
        PROVE  GetMapChangeCommand(map) \in commands \/ CanLoad(map)
    <2>1. CASE Loads(card, map)
      BY <1>4, <2>1
    <2>2. CASE ~Loads(card, map)
      <3>1. GetMapChangeCommand(card) = GetMapChangeCommand(map)
        BY <1>5, <2>2 DEF Stays, GetMapChangeCommand
      <3> QED
        BY <3>1
    <2> QED
      BY <2>1, <2>2
  <1> HIDE DEF CanLoad, commands
  <1>6. ASSUME NEW map \in ToSet(installed)
        PROVE  GetMapChangeCommand(map) \in commands \/ CanLoad(map)
    <2>1. PICK i \in 1..M : map = installed[i]
      BY DEF ToSet
    <2>2. PICK k \in 1..Len(result) : Stays(result[k], installed[i])
      BY <1>1 DEF LosesNoMap
    <2> QED
      BY <1>3, <1>5, <2>1, <2>2
  <1>7. ASSUME NEW map \in ToSet(inventory)
        PROVE  CanLoad(map)
    <2>1. PICK n \in 1..N : map = inventory[n]
      BY DEF ToSet
    <2>2. PICK k \in 1..Len(result) : Loads(result[k], inventory[n])
      BY <1>1 DEF LosesNoMap
    <2> QED
      BY <1>3, <1>4, <2>1, <2>2
  <1> QED
    BY <1>6, <1>7 DEF MergeKeepsMaps, cards, commands, CanLoad

-----------------------------------------------------------------------------
(* The table.  Its maps have keys of their own.                              *)
IsTable(maps, N) ==
  /\ maps \in [1..N -> ToSet(maps)]
  /\ \A i \in 1..N : Place(maps[i]) \in Int
  /\ \A i, j \in 1..N : MapKey(maps[i]) = MapKey(maps[j]) => i = j

LEMMA TableFacts ==
  ASSUME NEW N, NEW maps, IsTable(maps, N)
  PROVE  /\ DOMAIN maps = 1..N /\ ToSet(maps) = {maps[i] : i \in 1..N}
         /\ \A i \in 1..N : Place(maps[i]) \in Int
         /\ \A i, j \in 1..N : MapKey(maps[i]) = MapKey(maps[j]) => i = j
  <1>1. DOMAIN maps = 1..N
    BY DEF IsTable
  <1> QED
    BY <1>1 DEF IsTable, ToSet

(* Sorting puts the maps in an order, one after the other.                   *)
LEMMA Ordered ==
  ASSUME NEW N \in Nat, NEW maps, IsTable(maps, N), NEW favorites,
         NEW i \in 1..N, NEW j \in 1..N, NEW k \in 1..N
  PROVE  /\ ~Before(maps, favorites, i, i)
         /\ i # j => Before(maps, favorites, i, j) \/ Before(maps, favorites, j, i)
         /\ Before(maps, favorites, i, j) /\ Before(maps, favorites, j, k)
              => Before(maps, favorites, i, k)
  <1> DEFINE F(l) == maps[l].name \in favorites
             P(l) == Place(maps[l])
             B(a, b) == \/ F(a) /\ ~F(b)
                        \/ (F(a) <=> F(b)) /\ (P(a) < P(b) \/ (P(a) = P(b) /\ a < b))
  <1>1. P(i) \in Int /\ P(j) \in Int /\ P(k) \in Int
    BY TableFacts
  <1>2. ASSUME NEW a \in {i, j, k}, NEW b \in {i, j, k}
        PROVE  Before(maps, favorites, a, b) <=> B(a, b)
    <2>1. P(a) \in Int /\ P(b) \in Int
      BY <1>1
    <2> QED
      BY <2>1 DEF Before, Above
  <1> HIDE DEF P, F
  <1>3. ~B(i, i) /\ (i # j => B(i, j) \/ B(j, i)) /\ (B(i, j) /\ B(j, k) => B(i, k))
    BY <1>1
  <1> HIDE DEF B
  <1> QED
    BY <1>2, <1>3

Smaller(maps, favorites, j) == {i \in DOMAIN maps : Before(maps, favorites, i, j)}

LEMMA RankFacts ==
  ASSUME NEW N \in Nat, NEW maps, IsTable(maps, N), NEW favorites
  PROVE  /\ \A j \in 1..N : Rank(maps, favorites, j) \in 1..N
         /\ \A i, j \in 1..N : Rank(maps, favorites, i) = Rank(maps, favorites, j) => i = j
  <1> DEFINE A(j) == Smaller(maps, favorites, j)
  <1>1. DOMAIN maps = 1..N
    BY TableFacts
  <1>2. \A j \in 1..N : Rank(maps, favorites, j) = Cardinality(A(j)) + 1
    BY DEF Rank, Smaller
  <1>3. ASSUME NEW j \in 1..N
        PROVE  /\ IsFiniteSet(A(j)) /\ Cardinality(A(j)) \in Nat /\ j \notin A(j)
               /\ A(j) \subseteq (1..N) \ {j}
    <2>1. j \notin A(j) /\ A(j) \subseteq 1..N
      BY <1>1, Ordered DEF Smaller
    <2>2. IsFiniteSet(1..N)
      BY FS_Interval
    <2> HIDE DEF A
    <2>3. IsFiniteSet(A(j))
      BY <2>1, <2>2, FS_Subset
    <2> QED
      BY <2>1, <2>3, FS_CardinalityType
  <1>4. ASSUME NEW j \in 1..N
        PROVE  Rank(maps, favorites, j) \in 1..N
    <2> DEFINE T == (1..N) \ {j}
    <2>1. IsFiniteSet(T) /\ Cardinality(T) = N - 1
      <3>1. IsFiniteSet(1..N) /\ Cardinality(1..N) = N
        BY FS_Interval
      <3> QED
        BY <3>1, FS_RemoveElement
    <2>2. A(j) \in SUBSET T
      BY <1>3
    <2> HIDE DEF T, A
    <2>3. Cardinality(A(j)) <= N - 1
      BY <2>1, <2>2, FS_Subset
    <2> QED
      BY <1>2, <1>3, <2>3
  <1>5. ASSUME NEW i \in 1..N, NEW j \in 1..N, Before(maps, favorites, i, j)
        PROVE  Rank(maps, favorites, i) # Rank(maps, favorites, j)
    <2>1. A(i) \in SUBSET A(j) /\ i \in A(j) /\ i \notin A(i)
      <3>1. \A k \in 1..N : Before(maps, favorites, k, i) => Before(maps, favorites, k, j)
        BY <1>5, Ordered
      <3> QED
        BY <1>1, <1>3, <1>5, <3>1 DEF Smaller
    <2>2. IsFiniteSet(A(j)) /\ Cardinality(A(i)) \in Nat /\ Cardinality(A(j)) \in Nat
      BY <1>3
    <2> HIDE DEF A
    <2>3. Cardinality(A(i)) # Cardinality(A(j))
      <3>1. Cardinality(A(j)) = Cardinality(A(i)) => A(j) = A(i)
        BY <2>1, <2>2, FS_Subset
      <3> QED
        BY <2>1, <3>1
    <2> QED
      BY <1>2, <2>2, <2>3
  <1>6. \A i, j \in 1..N : Rank(maps, favorites, i) = Rank(maps, favorites, j) => i = j
    <2> TAKE i, j \in 1..N
    <2>1. i # j => Before(maps, favorites, i, j) \/ Before(maps, favorites, j, i)
      BY Ordered
    <2> QED
      BY <1>5, <2>1
  <1> QED
    BY <1>4, <1>6

(* What is sorted are the maps of the list, each in one place.               *)
Permutes(sorted, maps, N) ==
  /\ sorted \in [1..N -> ToSet(maps)]
  /\ \A j \in 1..N : \E k \in 1..N : sorted[k] = maps[j]
  /\ \A k, l \in 1..N : MapKey(sorted[k]) = MapKey(sorted[l]) => k = l

LEMMA SortFacts ==
  ASSUME NEW N \in Nat, NEW maps, IsTable(maps, N), NEW favorites
  PROVE  Permutes(SortMaps(maps, favorites), maps, N)
  <1> DEFINE rank == [j \in 1..N |-> Rank(maps, favorites, j)]
             At(k) == CHOOSE j \in 1..N : Rank(maps, favorites, j) = k
             sorted == SortMaps(maps, favorites)
  <1>1. DOMAIN maps = 1..N /\ ToSet(maps) = {maps[i] : i \in 1..N}
    BY TableFacts
  <1>2. /\ rank \in [1..N -> 1..N]
        /\ \A i, j \in 1..N : rank[i] = rank[j] => i = j
    <2>1. /\ \A j \in 1..N : Rank(maps, favorites, j) \in 1..N
          /\ \A i, j \in 1..N : Rank(maps, favorites, i) = Rank(maps, favorites, j) => i = j
      BY RankFacts
    <2> QED
      BY <2>1
  <1>3. \A k \in 1..N : \E j \in 1..N : rank[j] = k
    <2> HIDE DEF rank
    <2>1. rank \in Injection(1..N, 1..N)
      BY <1>2 DEF Injection, IsInjective
    <2>2. IsFiniteSet(1..N)
      BY FS_Interval
    <2>3. rank \in Surjection(1..N, 1..N)
      BY <2>1, <2>2, FS_Injection
    <2> QED
      BY <2>3 DEF Surjection
  <1>4. \A j \in 1..N : rank[j] = Rank(maps, favorites, j)
    OBVIOUS
  <1>5. sorted = [k \in 1..N |-> maps[At(k)]]
    BY <1>1 DEF SortMaps
  <1>6. ASSUME NEW k \in 1..N
        PROVE  At(k) \in 1..N /\ rank[At(k)] = k /\ sorted[k] = maps[At(k)]
    <2>1. PICK j \in 1..N : Rank(maps, favorites, j) = k
      BY <1>3, <1>4
    <2>2. At(k) \in 1..N /\ Rank(maps, favorites, At(k)) = k
      BY <2>1
    <2>3. sorted[k] = maps[At(k)]
      BY <1>5
    <2> QED
      BY <1>4, <2>2, <2>3
  <1> HIDE DEF At, rank, sorted
  <1>7. sorted \in [1..N -> ToSet(maps)]
    BY <1>1, <1>5, <1>6
  <1>8. ASSUME NEW j \in 1..N
        PROVE  \E k \in 1..N : sorted[k] = maps[j]
    <2>1. rank[j] \in 1..N /\ At(rank[j]) = j
      BY <1>2, <1>6
    <2> QED
      BY <1>6, <2>1
  <1>9. ASSUME NEW k \in 1..N, NEW l \in 1..N, MapKey(sorted[k]) = MapKey(sorted[l])
        PROVE  k = l
    <2>1. \A i, j \in 1..N : MapKey(maps[i]) = MapKey(maps[j]) => i = j
      BY TableFacts
    <2>2. At(k) \in 1..N /\ At(l) \in 1..N /\ MapKey(maps[At(k)]) = MapKey(maps[At(l)])
      BY <1>6, <1>9
    <2>3. At(k) = At(l)
      BY <2>1, <2>2
    <2> QED
      BY <1>6, <2>3
  <1> QED
    BY <1>7, <1>8, <1>9 DEF Permutes, sorted

-----------------------------------------------------------------------------
(* The pages.                                                                *)
LEMMA DivisionFacts ==
  ASSUME NEW k \in Nat, NEW size \in Nat \ {0}
  PROVE  LET q == k \div size IN q \in Nat /\ q * size <= k /\ k < q * size + size
  OBVIOUS

LEMMA PagesApart ==
  ASSUME NEW m \in Nat, NEW n \in Nat, NEW size \in Nat \ {0}, m < n
  PROVE  m * size + size <= n * size /\ m * size \in Nat
  OBVIOUS

LEMMA LesserOfTwo ==
  ASSUME NEW a \in Int, NEW b \in Int
  PROVE  Min({a, b}) = IF a <= b THEN a ELSE b
  BY DEF Min

LEMMA PartFacts ==
  ASSUME NEW R, NEW N \in Nat, NEW s \in [1..N -> R], NEW lo \in 0..N, NEW hi \in 0..N, lo <= hi
  PROVE  LET t == SubSeq(s, lo + 1, hi)
         IN t \in Seq(R) /\ Len(t) = hi - lo /\ \A i \in 1..(hi - lo) : t[i] = s[lo + i]
  OBVIOUS

(* Where a page begins, and which page a place is on.                        *)
LEMMA PageOfPlace ==
  ASSUME NEW R, NEW N \in Nat, NEW maps \in [1..N -> R], NEW size \in Nat \ {0}
  PROVE  /\ PageCount(maps, size) \in Nat \ {0}
         /\ \A n \in 0..(PageCount(maps, size) - 1) : n * size \in 0..N
         /\ \A k \in 1..N : (k - 1) \div size \in 0..(PageCount(maps, size) - 1)
  <1> DEFINE C == PageCount(maps, size)
  <1>1. Len(maps) = N /\ (maps = <<>> <=> N = 0)
    OBVIOUS
  <1>2. CASE N = 0
    <2>1. C = 1
      BY <1>1, <1>2 DEF PageCount
    <2>2. 0 * size = 0
      OBVIOUS
    <2> HIDE DEF C
    <2> QED
      BY <1>2, <2>1, <2>2 DEF C
  <1>3. CASE N # 0
    <2>1. C = (N + size - 1) \div size
      BY <1>1, <1>3 DEF PageCount
    <2>2. N + size - 1 \in Nat /\ N - 1 \in Nat
      BY <1>3
    <2> HIDE DEF C
    <2>3. C \in Nat /\ C * size <= N + size - 1 /\ N + size - 1 < C * size + size /\ C * size \in Nat
      <3>1. C \in Nat /\ C * size <= N + size - 1 /\ N + size - 1 < C * size + size
        BY <2>1, <2>2, DivisionFacts
      <3> QED
        BY <3>1
    <2>4. C # 0
      <3>1. 0 * size = 0
        OBVIOUS
      <3> QED
        BY <1>3, <2>3, <3>1
    <2>5. ASSUME NEW n \in 0..(C - 1)
          PROVE  n * size \in 0..N
      <3>1. n \in Nat /\ n < C
        BY <2>3
      <3>2. n * size + size <= C * size /\ n * size \in Nat
        BY <2>3, <3>1, PagesApart
      <3> QED
        BY <2>3, <3>2
    <2>6. ASSUME NEW k \in 1..N
          PROVE  (k - 1) \div size \in 0..(C - 1)
      <3> DEFINE q == (k - 1) \div size
      <3>1. k - 1 \in Nat
        OBVIOUS
      <3>2. q \in Nat /\ q * size <= k - 1
        BY <3>1, DivisionFacts
      <3> HIDE DEF q
      <3>3. q * size \in Nat
        BY <3>2
      <3>4. ~(C < q)
        <4>1. C < q => C * size + size <= q * size
          BY <2>3, <3>2, PagesApart
        <4> QED
          BY <2>3, <3>1, <3>2, <3>3, <4>1
      <3>5. C # q
        BY <2>3, <3>1, <3>2, <3>3
      <3> QED
        BY <2>3, <3>2, <3>4, <3>5 DEF q
    <2> QED
      BY <2>3, <2>4, <2>5, <2>6 DEF C
  <1> QED
    BY <1>2, <1>3

(* What a page shows of what is sorted.                                      *)
OnPage(N, size, n) == {k \in 1..N : n * size < k /\ k <= n * size + size}

PageShows(list, sorted, N, size, n) ==
  Len(list) <= size /\ ToSet(list) = {sorted[k] : k \in OnPage(N, size, n)}

LEMMA PageFacts ==
  ASSUME NEW N \in Nat, NEW maps, IsTable(maps, N), NEW favorites, NEW size \in Nat \ {0},
         NEW page \in Nat
  PROVE  LET n == CurrentPage(maps, size, page)
         IN  /\ n \in 0..(PageCount(maps, size) - 1)
             /\ page \in 0..(PageCount(maps, size) - 1) => n = page
             /\ PageShows(VisibleMaps(maps, favorites, size, page), SortMaps(maps, favorites), N, size, n)
  <1> DEFINE C == PageCount(maps, size)
             n == CurrentPage(maps, size, page)
             sorted == SortMaps(maps, favorites)
             list == VisibleMaps(maps, favorites, size, page)
             lo == n * size
             hi == IF lo + size <= N THEN lo + size ELSE N
  <1>1. maps \in [1..N -> ToSet(maps)] /\ Len(maps) = N
    BY DEF IsTable
  <1>2. sorted \in [1..N -> ToSet(maps)]
    BY SortFacts DEF Permutes
  <1>3. C \in Nat \ {0} /\ \A m \in 0..(C - 1) : m * size \in 0..N
    BY <1>1, PageOfPlace
  <1>4. n = IF page <= C - 1 THEN page ELSE C - 1
    <2> HIDE DEF C
    <2>1. C - 1 \in Int /\ page \in Int
      BY <1>3
    <2>2. Min({page, C - 1}) = IF page <= C - 1 THEN page ELSE C - 1
      BY <2>1, LesserOfTwo
    <2> QED
      BY <2>2 DEF CurrentPage, C
  <1> HIDE DEF C, n, sorted
  <1>5. n \in 0..(C - 1) /\ (page \in 0..(C - 1) => n = page)
    BY <1>3, <1>4
  <1>6. lo \in 0..N
    BY <1>3, <1>5
  <1> HIDE DEF lo
  <1>7. hi \in 0..N /\ lo <= hi /\ hi - lo <= size
    BY <1>6
  <1>8. list = SubSeq(sorted, lo + 1, hi)
    <2>1. Min({lo + size, N}) = hi
      BY <1>6, LesserOfTwo
    <2> HIDE DEF hi
    <2> QED
      BY <1>1, <2>1 DEF VisibleMaps, lo, n, sorted
  <1>9. list \in Seq(ToSet(maps)) /\ Len(list) = hi - lo /\ \A i \in 1..(hi - lo) : list[i] = sorted[lo + i]
    <2> HIDE DEF hi, list
    <2> QED
      BY <1>2, <1>6, <1>7, <1>8, PartFacts
  <1>10. OnPage(N, size, n) = (lo + 1)..hi
    BY <1>6 DEF OnPage, lo
  <1> HIDE DEF hi, list
  <1>11. ToSet(list) = {list[i] : i \in 1..(hi - lo)}
    BY <1>7, <1>9 DEF ToSet
  <1>12. \A k \in (lo + 1)..hi : k - lo \in 1..(hi - lo) /\ lo + (k - lo) = k
    BY <1>6, <1>7
  <1>13. \A i \in 1..(hi - lo) : lo + i \in (lo + 1)..hi
    BY <1>6, <1>7
  <1>14. ToSet(list) = {sorted[k] : k \in OnPage(N, size, n)}
    <2>1. ASSUME NEW x \in ToSet(list)
          PROVE  x \in {sorted[k] : k \in OnPage(N, size, n)}
      BY <1>9, <1>10, <1>11, <1>13
    <2>2. ASSUME NEW k \in OnPage(N, size, n)
          PROVE  sorted[k] \in ToSet(list)
      <3>1. k - lo \in 1..(hi - lo) /\ lo + (k - lo) = k
        BY <1>10, <1>12
      <3>2. list[k - lo] = sorted[k]
        BY <1>9, <3>1
      <3> QED
        BY <1>11, <3>1, <3>2
    <2> QED
      BY <2>1, <2>2
  <1> QED
    BY <1>5, <1>7, <1>9, <1>14 DEF PageShows, C, n, sorted, list

(* The pages show every map of a list once.                                  *)
LEMMA PagesShowAllMaps ==
  ASSUME NEW N \in Nat, NEW maps, IsTable(maps, N), NEW favorites, NEW size \in Nat \ {0}
  PROVE  PagesShowAll(maps, favorites, size)
  <1> DEFINE Page(n) == VisibleMaps(maps, favorites, size, n)
             C == PageCount(maps, size)
             sorted == SortMaps(maps, favorites)
  <1>1. /\ maps \in [1..N -> ToSet(maps)] /\ ToSet(maps) = {maps[i] : i \in 1..N}
        /\ C \in Nat \ {0} /\ \A k \in 1..N : (k - 1) \div size \in 0..(C - 1)
    <2>1. maps \in [1..N -> ToSet(maps)]
      BY DEF IsTable
    <2> QED
      BY <2>1, TableFacts, PageOfPlace
  <1>2. /\ sorted \in [1..N -> ToSet(maps)]
        /\ \A j \in 1..N : \E k \in 1..N : sorted[k] = maps[j]
        /\ \A k, l \in 1..N : MapKey(sorted[k]) = MapKey(sorted[l]) => k = l
    BY SortFacts DEF Permutes
  <1>3. ASSUME NEW n \in 0..(C - 1)
        PROVE  Len(Page(n)) <= size /\ ToSet(Page(n)) = {sorted[k] : k \in OnPage(N, size, n)}
    <2>1. n \in Nat
      BY <1>1
    <2>2. PageShows(Page(n), sorted, N, size, n)
      BY <2>1, PageFacts
    <2> QED
      BY <2>2 DEF PageShows
  <1> HIDE DEF Page, C, sorted
  <1>4. UNION {ToSet(Page(n)) : n \in 0..(C - 1)} = ToSet(maps)
    <2>1. ASSUME NEW n \in 0..(C - 1)
          PROVE  ToSet(Page(n)) \subseteq ToSet(maps)
      BY <1>2, <1>3 DEF OnPage
    <2>2. ASSUME NEW j \in 1..N
          PROVE  \E n \in 0..(C - 1) : maps[j] \in ToSet(Page(n))
      <3>1. PICK k \in 1..N : sorted[k] = maps[j]
        BY <1>2
      <3> DEFINE q == (k - 1) \div size
      <3>2. q \in 0..(C - 1)
        BY <1>1
      <3>3. k - 1 \in Nat
        OBVIOUS
      <3>4. q \in Nat /\ q * size <= k - 1 /\ k - 1 < q * size + size
        BY <3>3, DivisionFacts
      <3> HIDE DEF q
      <3>5. k \in OnPage(N, size, q)
        <4>1. q * size \in Nat
          BY <3>4
        <4> HIDE DEF q
        <4> DEFINE lo == q * size
        <4> HIDE DEF lo
        <4>2. lo < k /\ k <= lo + size
          BY <3>4, <4>1 DEF lo
        <4> QED
          BY <4>2 DEF OnPage, lo
      <3> QED
        BY <1>3, <3>1, <3>2, <3>5
    <2> QED
      BY <1>1, <2>1, <2>2
  <1>5. ASSUME NEW m \in 0..(C - 1), NEW n \in 0..(C - 1), m # n
        PROVE  ToSet(Page(m)) \cap ToSet(Page(n)) = {}
    <2>1. OnPage(N, size, m) \cap OnPage(N, size, n) = {}
      <3>1. m \in Nat /\ n \in Nat
        BY <1>1
      <3>2. m < n => m * size + size <= n * size
        BY <3>1, PagesApart
      <3>3. n < m => n * size + size <= m * size
        BY <3>1, PagesApart
      <3>4. m * size \in Nat /\ n * size \in Nat
        BY <3>1
      <3> DEFINE a == m * size
                 b == n * size
      <3> HIDE DEF a, b
      <3>5. a + size <= b \/ b + size <= a
        BY <1>5, <3>1, <3>2, <3>3 DEF a, b
      <3>6. a \in Nat /\ b \in Nat
        BY <3>4 DEF a, b
      <3>7. \A k \in 1..N : ~(a < k /\ k <= a + size /\ b < k /\ k <= b + size)
        BY <3>5, <3>6
      <3> QED
        BY <3>7 DEF OnPage, a, b
    <2> SUFFICES ASSUME NEW x, x \in ToSet(Page(m)), x \in ToSet(Page(n))
                 PROVE  FALSE
      OBVIOUS
    <2>2. PICK k \in OnPage(N, size, m) : x = sorted[k]
      BY <1>3
    <2>3. PICK l \in OnPage(N, size, n) : x = sorted[l]
      BY <1>3
    <2>4. k \in 1..N /\ l \in 1..N
      BY DEF OnPage
    <2>5. k = l
      BY <1>2, <2>2, <2>3, <2>4
    <2> QED
      BY <2>1, <2>5
  <1> QED
    BY <1>3, <1>4, <1>5 DEF PagesShowAll, Page, C

(* What is selected, found by its key.                                       *)
LEMMA SelectionFacts ==
  ASSUME NEW N \in Nat, NEW maps, IsTable(maps, N), NEW row \in ToSet(maps), NEW view
  PROVE  /\ view.selectedId = MapKey(row) => SelectedMap(maps, view) = {row}
         /\ view.selectedId = <<>> => SelectedMap(maps, view) = {}
  <1> DEFINE at == {i \in DOMAIN maps : MapKey(maps[i]) = view.selectedId}
  <1>1. /\ DOMAIN maps = 1..N /\ ToSet(maps) = {maps[i] : i \in 1..N}
        /\ \A i, j \in 1..N : MapKey(maps[i]) = MapKey(maps[j]) => i = j
    BY TableFacts
  <1>2. ASSUME view.selectedId = MapKey(row)
        PROVE  SelectedMap(maps, view) = {row}
    <2>1. PICK i \in 1..N : row = maps[i]
      BY <1>1
    <2>2. at = {i}
      BY <1>1, <1>2, <2>1
    <2>3. Min({i}) = i
      BY DEF Min
    <2> HIDE DEF at
    <2> QED
      BY <2>1, <2>2, <2>3 DEF SelectedMap, at
  <1>3. ASSUME view.selectedId = <<>>
        PROVE  SelectedMap(maps, view) = {}
    <2>1. \A i \in 1..N : MapKey(maps[i]) # <<>>
      BY DEF MapKey
    <2>2. at = {}
      BY <1>1, <1>3, <2>1
    <2> QED
      BY <2>2 DEF SelectedMap
  <1> QED
    BY <1>2, <1>3

(* A row is in sight on the page its star turns to.                          *)
LEMMA StarredInSight ==
  ASSUME NEW N \in Nat, NEW maps, IsTable(maps, N), NEW favorites, NEW size \in Nat \ {0},
         NEW row \in ToSet(maps)
  PROVE  row \in ToSet(VisibleMaps(maps, ToggledFavorites(favorites, row.name), size,
                                   ToggleFavorite(maps, favorites, size, row)))
  <1> DEFINE starred == ToggledFavorites(favorites, row.name)
             sorted == SortMaps(maps, starred)
             turned == ToggleFavorite(maps, favorites, size, row)
             at == {i \in DOMAIN maps : MapKey(sorted[i]) = MapKey(row)}
  <1>1. /\ maps \in [1..N -> ToSet(maps)] /\ DOMAIN maps = 1..N
        /\ ToSet(maps) = {maps[i] : i \in 1..N}
    BY TableFacts DEF IsTable
  <1>2. /\ \A j \in 1..N : \E k \in 1..N : sorted[k] = maps[j]
        /\ \A k, l \in 1..N : MapKey(sorted[k]) = MapKey(sorted[l]) => k = l
    <2> HIDE DEF starred
    <2> QED
      BY SortFacts DEF Permutes
  <1>3. PICK k \in 1..N : sorted[k] = row
    <2> HIDE DEF sorted
    <2>1. PICK j \in 1..N : row = maps[j]
      BY <1>1
    <2> QED
      BY <1>2, <2>1
  <1>4. turned = (Min(at) - 1) \div size
    BY DEF ToggleFavorite
  <1> HIDE DEF starred, sorted, turned
  <1>5. at = {k}
    BY <1>1, <1>2, <1>3
  <1>6. Min({k}) = k
    BY DEF Min
  <1> HIDE DEF at
  <1>7. turned = (k - 1) \div size
    BY <1>4, <1>5, <1>6
  <1>8. turned \in 0..(PageCount(maps, size) - 1)
    BY <1>1, <1>7, PageOfPlace
  <1>9. turned \in Nat /\ turned * size <= k - 1 /\ k - 1 < turned * size + size
    <2>1. k - 1 \in Nat
      OBVIOUS
    <2> QED
      BY <1>7, <2>1, DivisionFacts
  <1>10. k \in OnPage(N, size, turned)
    <2> DEFINE lo == turned * size
    <2>1. lo \in Nat
      BY <1>9
    <2>2. lo <= k - 1 /\ k - 1 < lo + size
      BY <1>9
    <2> HIDE DEF lo
    <2>3. lo < k /\ k <= lo + size
      BY <2>1, <2>2
    <2> QED
      BY <2>3 DEF OnPage, lo
  <1> DEFINE page == CurrentPage(maps, size, turned)
             list == VisibleMaps(maps, starred, size, turned)
  <1>11. page = turned /\ PageShows(list, sorted, N, size, page)
    <2>1. PageShows(list, SortMaps(maps, starred), N, size, page)
      BY <1>9, PageFacts
    <2>2. page = turned
      BY <1>8, <1>9, PageFacts
    <2> QED
      BY <2>1, <2>2 DEF sorted
  <1> HIDE DEF page, list
  <1>12. ToSet(list) = {sorted[l] : l \in OnPage(N, size, turned)}
    BY <1>11 DEF PageShows
  <1> QED
    BY <1>3, <1>10, <1>12 DEF list, starred, turned

(* A row acts on its map.                                                    *)
LEMMA RowsActOnTheirOwn ==
  ASSUME NEW N \in Nat, NEW maps, IsTable(maps, N), NEW favorites, NEW size \in Nat \ {0},
         NEW page \in Nat, NEW currentMap
  PROVE  RowsActOnTheirMap(maps, favorites, size, page, currentMap)
  <1>1. ToSet(VisibleMaps(maps, favorites, size, page)) \subseteq ToSet(maps)
    <2> DEFINE list == VisibleMaps(maps, favorites, size, page)
               sorted == SortMaps(maps, favorites)
               n == CurrentPage(maps, size, page)
    <2>1. PageShows(list, sorted, N, size, n)
      BY PageFacts
    <2>2. sorted \in [1..N -> ToSet(maps)]
      BY SortFacts DEF Permutes
    <2> HIDE DEF list, sorted, n
    <2>3. ToSet(list) \subseteq ToSet(maps)
      BY <2>1, <2>2 DEF PageShows, OnPage
    <2> QED
      BY <2>3 DEF list
  <1>2. ASSUME NEW row \in ToSet(maps)
        PROVE  LET view == Select(NewView("list"), row)
               IN  /\ ChangeLevel(maps, view, currentMap) =
                        IF row.category # "Workshop" /\ row.name = currentMap THEN {} ELSE {row}
                   /\ ChangeLevel(maps, ViewOf(view, "other list"), currentMap) = {}
    <2> DEFINE view == Select(NewView("list"), row)
               other == ViewOf(view, "other list")
    <2>1. view.selectedId = MapKey(row) /\ view.datasetKey = "list"
      BY DEF Select, NewView
    <2>2. other.selectedId = <<>>
      BY <2>1 DEF ViewOf, NewView
    <2> HIDE DEF view, other
    <2>3. SelectedMap(maps, view) = {row} /\ SelectedMap(maps, other) = {}
      BY <2>1, <2>2, SelectionFacts
    <2> QED
      BY <2>3 DEF ChangeLevel, view, other
  <1> QED
    BY <1>1, <1>2, StarredInSight DEF RowsActOnTheirMap

-----------------------------------------------------------------------------
(* What the inputs are.                                                      *)
InputInv ==
  /\ input.what = "address" => input.address \in Addresses
  /\ input.what \in {"answers", "host"} => \E n \in Nat : input.answers \in [1..n -> Addresses]
  /\ input.what = "host" => input.deployment \in Deployments
  /\ input.what = "status" =>
       \E n, m \in Nat : input.rows \in [1..n -> SomeRows] /\ input.clients \in [1..m -> SomeClients]
  /\ input.what = "maps" =>
       \E m, n \in Nat : /\ input.installed \in [1..m -> Installable]
                        /\ input.inventory \in [1..n -> Listed]
  /\ input.what = "table" => input.maps \in Tables /\ input.size \in PageSizes /\ input.page \in Nat

LEMMA UpToFacts ==
  ASSUME NEW S, NEW n \in Nat, NEW list \in UpTo(S, n)
  PROVE  \E k \in Nat : list \in [1..k -> S]
BY DEF UpTo

LEMMA AnswersFacts ==
  ASSUME NEW n \in Nat, NEW answers \in UpTo(FewAnswers, n)
  PROVE  \E k \in Nat : answers \in [1..k -> Addresses]
<1>1. PICK k \in 0..n : answers \in [1..k -> FewAnswers]
  BY DEF UpTo
<1>2. QED
  BY <1>1, BoundaryAssumption

LEMMA InputAlways == BoundarySpec => []InputInv
<1>1. BoundaryInit => InputInv
  BY DEF BoundaryInit, InputInv, None
<1>2. InputInv /\ [BoundaryNext]_boundaryVars => InputInv'
  <2> SUFFICES ASSUME InputInv, [BoundaryNext]_boundaryVars PROVE InputInv'
    OBVIOUS
  <2>1. CASE ResolveAddress
    BY <2>1, BoundaryAssumption DEF ResolveAddress, InputInv
  <2>2. CASE ResolveName
    <3>1. PICK answers \in UpTo(FewAnswers, MaxAnswers) :
            input' = [what |-> "answers", answers |-> answers]
      BY <2>2 DEF ResolveName
    <3>2. \E k \in Nat : answers \in [1..k -> Addresses]
      BY AnswersFacts, BoundaryAssumption
    <3>3. QED
      BY <3>1, <3>2 DEF InputInv
  <2>3. CASE AskHelper \/ AskHosted
    <3>1. input'.what \in {"request", "hosted"}
      BY <2>3 DEF AskHelper, AskHosted
    <3>2. QED
      BY <3>1 DEF InputInv
  <2>4. CASE ResolveHost
    <3>1. PICK deployment \in Deployments, host \in SomeHosts, answers \in UpTo(FewAnswers, 1) :
            input' = [what |-> "host", deployment |-> deployment, host |-> host, answers |-> answers]
      BY <2>4 DEF ResolveHost
    <3>2. \E k \in Nat : answers \in [1..k -> Addresses]
      BY AnswersFacts
    <3>3. QED
      BY <3>1, <3>2 DEF InputInv
  <2>5. CASE ReadStatus
    <3>1. PICK rows \in UpTo(SomeRows, MaxRows), clients \in UpTo(SomeClients, MaxRows) :
            input' = [what |-> "status", rows |-> rows, clients |-> clients]
      BY <2>5 DEF ReadStatus
    <3>2. (\E n \in Nat : rows \in [1..n -> SomeRows]) /\ (\E m \in Nat : clients \in [1..m -> SomeClients])
      BY UpToFacts, BoundaryAssumption
    <3>3. QED
      BY <3>1, <3>2 DEF InputInv
  <2>6. CASE ReadMaps
    <3>1. PICK installed \in UpTo(Installable, MaxMaps), inventory \in UpTo(Listed, MaxMaps) :
            input' = [what |-> "maps", installed |-> installed, inventory |-> inventory]
      BY <2>6 DEF ReadMaps
    <3>2. /\ \E m \in Nat : installed \in [1..m -> Installable]
          /\ \E n \in Nat : inventory \in [1..n -> Listed]
      BY UpToFacts, BoundaryAssumption
    <3>3. QED
      BY <3>1, <3>2 DEF InputInv
  <2>7. CASE ShowTable
    <3>1. PICK maps \in Tables :
            \E favorites \in SUBSET {map.name : map \in ToSet(maps)},
               size \in PageSizes, page \in 0..Len(maps) :
              input' = [what |-> "table", maps |-> maps, favorites |-> favorites,
                        size |-> size, page |-> page]
      BY <2>7 DEF ShowTable
    <3>2. QED
      BY <3>1 DEF InputInv
  <2>8. CASE UNCHANGED input
    BY <2>8 DEF InputInv
  <2>9. QED
    BY <2>1, <2>2, <2>3, <2>4, <2>5, <2>6, <2>7, <2>8 DEF BoundaryNext, boundaryVars
<1>3. QED
  BY <1>1, <1>2, PTL DEF BoundarySpec

(* The two address policies fit together on every address and every list of  *)
(* answers, and for every deployment the hosted one opens a private address  *)
(* by an exact name only (security.ts lines 40-156, rcon.go lines 63-110).   *)
THEOREM AddressesAlwaysJudgedAlike == BoundarySpec => []AddressesJudgedAlike
<1>1. InputInv => AddressesJudgedAlike
  BY HostedAlwaysWithinHelper, MappedAlwaysJudgedAsIPv4, ResolversFit, PrivateByName
  DEF InputInv, AddressesJudgedAlike
<1>2. QED
  BY <1>1, InputAlways, PTL

(* No request of any browser or website is served without a secret of this   *)
(* run of the helper, or without the access key of a private deployment, or  *)
(* from a page of another site (main.go lines 186-303, route.ts lines 23-28, *)
(* security.ts lines 16-38).                                                 *)
THEOREM EveryRequestAlwaysNeedsSecret == BoundarySpec => []EveryRequestNeedsSecret
<1>1. EveryRequestNeedsSecret
  BY ServedWithSecret, ServedWithKey DEF EveryRequestNeedsSecret
<1>2. QED
  BY <1>1, PTL

(* Whatever rows and clients a server lists, and in whatever order, a ban    *)
(* goes to the player it is clicked for (parsers.ts lines 135-141 and        *)
(* 187-203).                                                                 *)
THEOREM SteamIdsAlwaysTheirOwn == BoundarySpec => []SteamIdsAreTheirOwn
<1>1. InputInv => SteamIdsAreTheirOwn
  <2> SUFFICES ASSUME InputInv, input.what = "status"
               PROVE  SteamIdsAreTheirOwn
    BY DEF SteamIdsAreTheirOwn
  <2>1. PICK n \in Nat, m \in Nat :
          input.rows \in [1..n -> SomeRows] /\ input.clients \in [1..m -> SomeClients]
    BY DEF InputInv
  <2>2. \A row \in SomeRows : "steamId" \in DOMAIN row
    BY BoundaryAssumption
  <2>3. BansFit(input.rows, input.clients)
    BY <2>1, <2>2, BansFitPlayers
  <2>4. QED
    BY <2>3 DEF SteamIdsAreTheirOwn, BansFit
<1>2. QED
  BY <1>1, InputAlways, PTL

(* Whatever maps are installed and listed, merging loses none; and in the    *)
(* table of any maps that have keys of their own, with any favourites and    *)
(* pages of any size, every map is on one page, is what the level is changed *)
(* to when it is selected, and stays in sight when it becomes a favourite    *)
(* (parsers.ts lines 306-321, commands.ts lines 91-95, maps-view.tsx lines   *)
(* 84-123).                                                                  *)
THEOREM EveryMapCanAlwaysBeLoaded == BoundarySpec => []EveryMapCanBeLoaded
<1>1. ASSUME InputInv, input.what = "table"
      PROVE  /\ PagesShowAll(input.maps, input.favorites, input.size)
             /\ \A map \in ToSet(input.maps) :
                  RowsActOnTheirMap(input.maps, input.favorites, input.size, input.page, map.name)
  <2>1. input.maps \in Tables /\ input.size \in Nat \ {0} /\ input.page \in Nat
    BY <1>1, BoundaryAssumption DEF InputInv
  <2>2. /\ input.maps \in Seq(ToSet(input.maps))
        /\ \A map \in ToSet(input.maps) : Place(map) \in Int
        /\ \A i, j \in DOMAIN input.maps :
             MapKey(input.maps[i]) = MapKey(input.maps[j]) => i = j
    BY <2>1, BoundaryAssumption
  <2> DEFINE N == Len(input.maps)
  <2>3. N \in Nat /\ input.maps \in [1..N -> ToSet(input.maps)]
    BY <2>2
  <2>4. IsTable(input.maps, N)
    BY <2>2, <2>3 DEF IsTable
  <2> HIDE DEF N
  <2>5. QED
    BY <2>1, <2>3, <2>4, PagesShowAllMaps, RowsActOnTheirOwn
<1>2. ASSUME InputInv, input.what = "maps"
      PROVE  MergeKeepsMaps(input.installed, input.inventory)
  <2> DEFINE R == Installable \cup Listed
  <2>1. PICK m \in Nat, n \in Nat :
          input.installed \in [1..m -> Installable] /\ input.inventory \in [1..n -> Listed]
    BY <1>2 DEF InputInv
  <2>2. /\ input.installed \in [1..m -> R] /\ input.inventory \in [1..n -> R]
        /\ \A i \in 1..n : input.inventory[i].category = "Workshop"
    BY <2>1, BoundaryAssumption
  <2>3. \A map \in R : IsCard(map)
    BY BoundaryAssumption DEF IsCard
  <2> HIDE DEF R
  <2>4. QED
    BY <2>2, <2>3, MergingLosesNoMap
<1>3. InputInv => EveryMapCanBeLoaded
  BY <1>1, <1>2 DEF EveryMapCanBeLoaded, MergeKeepsMaps
<1>4. QED
  BY <1>3, InputAlways, PTL

-----------------------------------------------------------------------------
(* The Workshop route.                                                       *)

Outcomes == Errors \cup {"pending", "parsed"}

WorkshopTypes ==
  /\ pending \in Seq(Nat) /\ bytesSent \in Nat /\ length \in Nat
  /\ stream \in {"open", "ended", "broken", "cancelled"}
  /\ complete \in BOOLEAN /\ timedOut \in BOOLEAN /\ aborted \in BOOLEAN
  /\ outcome \in Outcomes
  /\ stage \in {"idle", "request", "fetch", "steam", "answered"}

(* The bytes read and those of the chunks still to be read are those sent:   *)
(* offsets[i] is where chunk i ends.                                         *)
Adds(offsets, chunks, from, to) ==
  /\ offsets \in [0..Len(chunks) -> Nat]
  /\ offsets[0] = from /\ offsets[Len(chunks)] = to
  /\ \A i \in 1..Len(chunks) : offsets[i] = offsets[i - 1] + chunks[i]
  /\ \A i \in 0..Len(chunks) : offsets[i] <= to
NothingLost == \E offsets : Adds(offsets, pending, length, bytesSent)

(* While the outcome is open, the stream is cancelled only by the timer or   *)
(* the signal, and nothing is missing from one that is not.                  *)
ReadInv ==
  /\ outcome = "pending" =>
       /\ stream = "cancelled" => Interrupted
       /\ stream = "ended" => complete
       /\ stream \in {"open", "ended"} => NothingLost
  /\ outcome = "parsed" => complete /\ length = bytesSent /\ stream = "ended"
  /\ outcome = "REQUEST_TOO_LARGE" => bytesSent > Limit
  /\ outcome = "REQUEST_TIMEOUT" => Interrupted
  /\ outcome # "pending" => stream # "open"
  /\ stream \in {"broken", "cancelled"} => pending = <<>>
  /\ length <= Limit

(* Steam is asked only after the request was read.                           *)
StageInv ==
  /\ stage \in {"idle", "request"} => ~asked
  /\ stage = "fetch" => outcome = "parsed"
  /\ stage = "answered" =>
       /\ answer \in Errors => ~asked
       /\ answer = "items" => complete /\ length = bytesSent
       /\ answer = "REQUEST_TIMEOUT" => Interrupted

WorkshopInv == WorkshopTypes /\ ReadInv /\ StageInv

-----------------------------------------------------------------------------
LEMMA AddsNothing ==
  ASSUME NEW n \in Nat
  PROVE  \E offsets : Adds(offsets, <<>>, n, n)
<1>1. Adds([i \in 0..0 |-> n], <<>>, n, n)
  BY DEF Adds
<1>2. QED
  BY <1>1

LEMMA AddsChunk ==
  ASSUME NEW chunks \in Seq(Nat), NEW from \in Nat, NEW to \in Nat, NEW size \in Nat,
         NEW offsets, Adds(offsets, chunks, from, to)
  PROVE  \E new : Adds(new, Append(chunks, size), from, to + size)
<1> DEFINE n == Len(chunks)
           new == [i \in 0..(n + 1) |-> IF i <= n THEN offsets[i] ELSE to + size]
<1>1. n \in Nat /\ Len(Append(chunks, size)) = n + 1
  OBVIOUS
<1>2. \A i \in 0..n : offsets[i] \in Nat
  BY DEF Adds
<1>3. \A i \in 1..n : Append(chunks, size)[i] = chunks[i] /\ chunks[i] \in Nat
  OBVIOUS
<1>4. Append(chunks, size)[n + 1] = size
  OBVIOUS
<1>5. /\ offsets[0] = from /\ offsets[n] = to
      /\ \A i \in 1..n : offsets[i] = offsets[i - 1] + chunks[i]
      /\ \A i \in 0..n : offsets[i] <= to
  BY DEF Adds
<1> HIDE DEF n
<1>6. new \in [0..(n + 1) -> Nat]
  BY <1>1, <1>2
<1>7. new[0] = from /\ new[n + 1] = to + size
  BY <1>1, <1>5
<1>8. ASSUME NEW i \in 1..(n + 1) PROVE new[i] = new[i - 1] + Append(chunks, size)[i]
  <2>1. CASE i <= n
    BY <1>1, <1>3, <1>5, <2>1
  <2>2. CASE i = n + 1
    BY <1>1, <1>4, <1>5, <2>2
  <2>3. QED
    BY <1>1, <2>1, <2>2
<1>9. ASSUME NEW i \in 0..(n + 1) PROVE new[i] <= to + size
  BY <1>1, <1>2, <1>5
<1>10. Adds(new, Append(chunks, size), from, to + size)
  BY <1>1, <1>6, <1>7, <1>8, <1>9 DEF Adds
<1>11. QED
  BY <1>10

LEMMA AddsTail ==
  ASSUME NEW chunks \in Seq(Nat), chunks # <<>>, NEW from \in Nat, NEW to \in Nat,
         NEW offsets, Adds(offsets, chunks, from, to)
  PROVE  /\ from + Head(chunks) <= to
         /\ \E new : Adds(new, Tail(chunks), from + Head(chunks), to)
<1> DEFINE n == Len(chunks)
           new == [i \in 0..(n - 1) |-> offsets[i + 1]]
<1>1. n \in Nat \ {0} /\ Len(Tail(chunks)) = n - 1 /\ Head(chunks) = chunks[1]
  OBVIOUS
<1>2. \A i \in 1..(n - 1) : Tail(chunks)[i] = chunks[i + 1]
  OBVIOUS
<1>3. /\ offsets \in [0..n -> Nat]
      /\ offsets[0] = from /\ offsets[n] = to
      /\ \A i \in 1..n : offsets[i] = offsets[i - 1] + chunks[i]
      /\ \A i \in 0..n : offsets[i] <= to
  BY DEF Adds
<1>4. \A i \in 1..n : chunks[i] \in Nat
  OBVIOUS
<1> HIDE DEF n
<1>5. offsets[1] = from + Head(chunks)
  BY <1>1, <1>3
<1>6. new \in [0..(n - 1) -> Nat]
  BY <1>1, <1>3
<1>7. new[0] = from + Head(chunks) /\ new[n - 1] = to
  BY <1>1, <1>3, <1>5
<1>8. \A i \in 1..(n - 1) : new[i] = new[i - 1] + Tail(chunks)[i]
  <2> TAKE i \in 1..(n - 1)
  <2>1. i \in 0..(n - 1) /\ i - 1 \in 0..(n - 1) /\ i + 1 \in 1..n /\ (i - 1) + 1 = i /\ (i + 1) - 1 = i
    BY <1>1
  <2>2. new[i] = offsets[i + 1] /\ new[i - 1] = offsets[i]
    BY <2>1
  <2>3. offsets[i + 1] = offsets[i] + chunks[i + 1]
    BY <1>3, <2>1
  <2>4. QED
    BY <1>2, <2>2, <2>3
<1>9. \A i \in 0..(n - 1) : new[i] <= to
  BY <1>1, <1>3
<1>10. Adds(new, Tail(chunks), from + Head(chunks), to)
  BY <1>1, <1>6, <1>7, <1>8, <1>9 DEF Adds
<1>11. from + Head(chunks) <= to
  BY <1>1, <1>3, <1>5
<1>12. QED
  BY <1>10, <1>11

LEMMA NothingPending ==
  ASSUME NEW from, NEW to, NEW offsets, Adds(offsets, <<>>, from, to)
  PROVE  from = to
BY DEF Adds

-----------------------------------------------------------------------------
LEMMA WorkshopStarts == Init => WorkshopInv
<1> SUFFICES ASSUME Init PROVE WorkshopInv
  OBVIOUS
<1>1. WorkshopTypes
  <2>1. <<>> \in Seq(Nat)
    OBVIOUS
  <2>2. QED
    BY <2>1 DEF Init, BodyInit, WorkshopTypes, Outcomes
<1>2. ReadInv
  <2>1. NothingLost
    BY AddsNothing DEF Init, BodyInit, NothingLost
  <2>2. QED
    BY <2>1, BodyAssumption DEF Init, BodyInit, ReadInv, Interrupted
<1>3. StageInv
  BY DEF Init, StageInv
<1>4. QED
  BY <1>1, <1>2, <1>3 DEF WorkshopInv

(* The reader.                                                               *)
LEMMA ReadSteps ==
  ASSUME WorkshopInv, Reader, stage' = stage
  PROVE  WorkshopTypes' /\ ReadInv'
<1>1. CASE ReadChunk /\ TooLarge(Head(pending))
  <2>1. /\ outcome = "pending" /\ pending # <<>> /\ pending' = <<>>
        /\ stream' \in {"broken", "cancelled"}
        /\ outcome' = "REQUEST_TOO_LARGE"
        /\ UNCHANGED <<length, bytesSent, complete, timedOut, aborted>>
    BY <1>1 DEF ReadChunk, Cancel
  <2>2. NothingLost
    BY <2>1 DEF WorkshopInv, WorkshopTypes, ReadInv
  <2>3. length + Head(pending) <= bytesSent
    BY <2>1, <2>2, AddsTail DEF NothingLost, WorkshopInv, WorkshopTypes
  <2>4. Head(pending) \in Nat
    BY <2>1 DEF WorkshopInv, WorkshopTypes
  <2>5. bytesSent > Limit
    BY <1>1, <2>3, <2>4, BodyAssumption DEF TooLarge, WorkshopInv, WorkshopTypes
  <2>6. WorkshopTypes'
    BY <2>1 DEF WorkshopInv, WorkshopTypes, Outcomes, Errors
  <2>7. QED
    BY <2>1, <2>5, <2>6 DEF WorkshopInv, ReadInv
<1>2. CASE ReadChunk /\ ~TooLarge(Head(pending))
  <2>1. /\ outcome = "pending" /\ pending # <<>>
        /\ length' = length + Head(pending) /\ pending' = Tail(pending)
        /\ UNCHANGED <<stream, outcome, bytesSent, complete, timedOut, aborted>>
    BY <1>2 DEF ReadChunk
  <2>2. NothingLost /\ stream \in {"open", "ended"}
    BY <2>1 DEF WorkshopInv, WorkshopTypes, ReadInv
  <2>3. NothingLost'
    BY <2>1, <2>2, AddsTail DEF NothingLost, WorkshopInv, WorkshopTypes
  <2>4. Head(pending) \in Nat /\ Tail(pending) \in Seq(Nat)
    BY <2>1 DEF WorkshopInv, WorkshopTypes
  <2>5. length' <= Limit
    BY <1>2, <2>1, <2>4, BodyAssumption DEF TooLarge, WorkshopInv, WorkshopTypes
  <2>6. WorkshopTypes'
    BY <2>1, <2>4 DEF WorkshopInv, WorkshopTypes
  <2>7. QED
    BY <2>1, <2>2, <2>3, <2>5, <2>6 DEF WorkshopInv, ReadInv, Interrupted
<1>3. CASE ReadDone
  <2>1. /\ outcome = "pending" /\ pending = <<>> /\ stream \in {"ended", "cancelled"}
        /\ outcome' \in AfterDone
        /\ UNCHANGED <<pending, bytesSent, stream, complete, timedOut, aborted, length>>
    BY <1>3 DEF ReadDone
  <2>2. /\ outcome' = "REQUEST_TIMEOUT" => Interrupted
        /\ outcome' # "REQUEST_TIMEOUT" => ~Interrupted /\ outcome' \in {"parsed", "INVALID_JSON"}
    BY <2>1 DEF AfterDone
  <2>3. outcome' = "parsed" => stream = "ended" /\ complete /\ length = bytesSent
    <3>1. stream = "ended" => NothingLost /\ complete
      BY <2>1 DEF WorkshopInv, ReadInv
    <3>2. NothingLost => length = bytesSent
      BY <2>1, NothingPending DEF NothingLost
    <3>3. QED
      BY <2>1, <2>2, <3>1, <3>2 DEF WorkshopInv, ReadInv
  <2>4. WorkshopTypes'
    BY <2>1, <2>2 DEF WorkshopInv, WorkshopTypes, Outcomes, Errors
  <2>5. QED
    BY <2>1, <2>2, <2>3, <2>4 DEF WorkshopInv, ReadInv, Interrupted
<1>4. CASE ReadFails
  <2>1. /\ outcome = "pending" /\ stream = "broken"
        /\ outcome' \in {"REQUEST_TIMEOUT", "INVALID_JSON"}
        /\ outcome' = "REQUEST_TIMEOUT" => Interrupted
        /\ UNCHANGED <<pending, bytesSent, stream, complete, timedOut, aborted, length>>
    BY <1>4 DEF ReadFails
  <2>2. WorkshopTypes'
    BY <2>1 DEF WorkshopInv, WorkshopTypes, Outcomes, Errors
  <2>3. QED
    BY <2>1, <2>2 DEF WorkshopInv, ReadInv, Interrupted
<1>5. QED
  BY <1>1, <1>2, <1>3, <1>4 DEF Reader

(* The sender, the timer and the signal.                                     *)
LEMMA OtherSteps ==
  ASSUME WorkshopInv, Sender \/ Timer \/ Abort, stage' = stage
  PROVE  WorkshopTypes' /\ ReadInv'
<1>1. CASE Sender
  <2>1. /\ stream = "open" /\ UNCHANGED <<timedOut, aborted, length, outcome>>
        /\ outcome = "pending" /\ NothingLost
    BY <1>1 DEF Sender, WorkshopInv, ReadInv
  <2>2. CASE \E size \in ChunkSizes : /\ bytesSent' = bytesSent + size
                                      /\ pending' = Append(pending, size)
                                      /\ UNCHANGED <<stream, complete>>
    <3>1. PICK size \in Nat : /\ bytesSent' = bytesSent + size
                              /\ pending' = Append(pending, size)
                              /\ UNCHANGED <<stream, complete>>
      BY <2>2, BodyAssumption
    <3>2. NothingLost'
      BY <2>1, <3>1, AddsChunk DEF NothingLost, WorkshopInv, WorkshopTypes
    <3>3. WorkshopTypes'
      BY <2>1, <3>1 DEF WorkshopInv, WorkshopTypes
    <3>4. QED
      BY <2>1, <3>1, <3>2, <3>3 DEF WorkshopInv, ReadInv, Interrupted
  <2>3. CASE stream' = "ended" /\ complete' = TRUE /\ UNCHANGED <<bytesSent, pending>>
    <3>1. NothingLost'
      BY <2>1, <2>3 DEF NothingLost
    <3>2. WorkshopTypes'
      BY <2>1, <2>3 DEF WorkshopInv, WorkshopTypes
    <3>3. QED
      BY <2>1, <2>3, <3>1, <3>2 DEF WorkshopInv, ReadInv, Interrupted
  <2>4. CASE stream' = "broken" /\ pending' = <<>> /\ UNCHANGED <<bytesSent, complete>>
    <3>1. WorkshopTypes'
      BY <2>1, <2>4 DEF WorkshopInv, WorkshopTypes
    <3>2. QED
      BY <2>1, <2>4, <3>1 DEF WorkshopInv, ReadInv, Interrupted
  <2>5. QED
    BY <1>1, <2>2, <2>3, <2>4 DEF Sender
<1>2. CASE Timer \/ Abort
  <2>1. /\ outcome = "pending" /\ Interrupted'
        /\ pending' = <<>> /\ stream' \in {"broken", "cancelled"}
        /\ UNCHANGED <<bytesSent, complete, length, outcome>>
        /\ timedOut' \in BOOLEAN /\ aborted' \in BOOLEAN
    BY <1>2 DEF Timer, Abort, Cancel, Interrupted, WorkshopInv, WorkshopTypes
  <2>2. WorkshopTypes'
    BY <2>1 DEF WorkshopInv, WorkshopTypes
  <2>3. QED
    BY <2>1, <2>2 DEF WorkshopInv, ReadInv
<1>3. QED
  BY <1>1, <1>2

(* A step of the handler that leaves the body alone.                         *)
LEMMA SameBody ==
  ASSUME WorkshopInv, UNCHANGED bodyVars, stage' \in {"idle", "request", "fetch", "steam", "answered"}
  PROVE  WorkshopTypes' /\ ReadInv'
<1>1. UNCHANGED <<pending, bytesSent, stream, complete, timedOut, aborted, length, outcome>>
  BY DEF bodyVars
<1>2. WorkshopTypes'
  BY <1>1 DEF WorkshopInv, WorkshopTypes
<1>3. NothingLost => NothingLost'
  BY <1>1 DEF NothingLost
<1>4. QED
  BY <1>1, <1>2, <1>3 DEF WorkshopInv, ReadInv, Interrupted

LEMMA WorkshopSteps == WorkshopInv /\ [Next]_vars => WorkshopInv'
<1> SUFFICES ASSUME WorkshopInv, [Next]_vars PROVE WorkshopInv'
  OBVIOUS
<1>1. CASE Read \/ Send \/ BodyTimer \/ Signal
  <2>1. Reading /\ UNCHANGED <<stage, slot, answer, asked>>
    BY <1>1 DEF Read, Send, BodyTimer, Signal
  <2>2. Reader \/ Sender \/ Timer \/ Abort
    BY <1>1 DEF Read, Send, BodyTimer, Signal
  <2>3. WorkshopTypes' /\ ReadInv'
    BY <2>1, <2>2, ReadSteps, OtherSteps
  <2>4. StageInv'
    BY <2>1 DEF Reading, WorkshopInv, StageInv
  <2>5. QED
    BY <2>3, <2>4 DEF WorkshopInv
<1>2. CASE Arrive
  <2>1. /\ stage = "idle" /\ UNCHANGED <<bodyVars, asked>> /\ ~asked
        /\ \/ stage' = "request"
           \/ stage' = "answered" /\ answer' \in {"RATE_LIMITED", "INVALID_CONTENT_TYPE", "REQUEST_TOO_LARGE", "INVALID_JSON"}
    BY <1>2 DEF Arrive, Respond, WorkshopInv, StageInv
  <2>2. WorkshopTypes' /\ ReadInv'
    BY <2>1, SameBody
  <2>3. StageInv'
    BY <2>1 DEF StageInv
  <2>4. QED
    BY <2>2, <2>3 DEF WorkshopInv
<1>3. CASE RequestRead \/ RequestRefused
  <2>1. /\ stage = "request" /\ UNCHANGED bodyVars /\ ~asked
        /\ \/ /\ stage' = "fetch" /\ outcome = "parsed"
           \/ /\ stage' = "answered" /\ UNCHANGED asked
              /\ answer' = "no items" \/ (answer' = outcome /\ outcome \in Errors)
    BY <1>3 DEF RequestRead, RequestRefused, Respond, WorkshopInv, StageInv
  <2>2. WorkshopTypes' /\ ReadInv'
    BY <2>1, SameBody
  <2>3. outcome' = outcome
    BY <2>1 DEF bodyVars
  <2>4. StageInv'
    <3>1. CASE stage' = "fetch" /\ outcome = "parsed"
      BY <2>3, <3>1 DEF StageInv
    <3>2. CASE stage' = "answered" /\ answer' = "no items"
      BY <3>2 DEF StageInv, Errors
    <3>3. CASE stage' = "answered" /\ asked' = asked /\ answer' = outcome /\ outcome \in Errors
      BY <2>1, <2>2, <2>3, <3>3 DEF StageInv, ReadInv, Errors
    <3>4. QED
      BY <2>1, <3>1, <3>2, <3>3
  <2>5. QED
    BY <2>2, <2>4 DEF WorkshopInv
<1>4. CASE FetchSignal
  <2>1. /\ stage = "fetch" /\ aborted' = TRUE
        /\ UNCHANGED <<pending, bytesSent, stream, complete, timedOut, length, outcome, stage, answer, asked>>
        /\ outcome = "parsed"
    BY <1>4 DEF FetchSignal, WorkshopInv, StageInv
  <2>2. WorkshopTypes'
    BY <2>1 DEF WorkshopInv, WorkshopTypes
  <2>3. ReadInv'
    BY <2>1 DEF WorkshopInv, ReadInv
  <2>4. StageInv'
    BY <2>1 DEF WorkshopInv, StageInv
  <2>5. QED
    BY <2>2, <2>3, <2>4 DEF WorkshopInv
<1>5. CASE Fetched
  <2>1. /\ stage' = "steam" /\ pending' = <<>> /\ bytesSent' = 0 /\ stream' = "open"
        /\ complete' = FALSE /\ timedOut' = FALSE /\ length' = 0 /\ outcome' = "pending"
        /\ UNCHANGED <<aborted, answer, asked>>
    BY <1>5 DEF Fetched
  <2>2. WorkshopTypes'
    <3>1. <<>> \in Seq(Nat)
      OBVIOUS
    <3>2. QED
      BY <2>1, <3>1 DEF WorkshopInv, WorkshopTypes, Outcomes
  <2>3. NothingLost'
    BY <2>1, AddsNothing DEF NothingLost
  <2>4. ReadInv'
    BY <2>1, <2>3, BodyAssumption DEF ReadInv
  <2>5. StageInv'
    BY <2>1 DEF StageInv
  <2>6. QED
    BY <2>2, <2>4, <2>5 DEF WorkshopInv
<1>6. CASE FetchFails \/ SteamRead \/ SteamUnusable
  <2>1. /\ stage' = "answered" /\ UNCHANGED bodyVars
        /\ \/ answer' = "STEAM_API_ERROR"
           \/ answer' = "items" /\ outcome = "parsed"
    BY <1>6 DEF FetchFails, SteamRead, SteamUnusable, SteamError, Respond
  <2>2. WorkshopTypes' /\ ReadInv'
    BY <2>1, SameBody
  <2>3. StageInv'
    BY <2>1, <2>2 DEF StageInv, ReadInv, Errors, bodyVars
  <2>4. QED
    BY <2>2, <2>3 DEF WorkshopInv
<1>7. CASE Answered \/ UNCHANGED vars
  <2>1. UNCHANGED <<bodyVars, stage, slot, answer, asked>>
    BY <1>7 DEF Answered, vars
  <2>2. WorkshopTypes' /\ ReadInv'
    BY <2>1, SameBody DEF WorkshopInv, WorkshopTypes
  <2>3. StageInv'
    BY <2>1 DEF bodyVars, WorkshopInv, StageInv, Interrupted
  <2>4. QED
    BY <2>2, <2>3 DEF WorkshopInv
<1>8. QED
  BY <1>1, <1>2, <1>3, <1>4, <1>5, <1>6, <1>7 DEF Next, Handler

-----------------------------------------------------------------------------
(* Whatever the sizes and the order of chunks, timers and signals, a body    *)
(* that was cut off is never parsed, and the client is blamed for its own    *)
(* body alone (request.ts lines 18-50, workshop/route.ts lines 22-70).       *)
THEOREM AnswerAlwaysFits == Spec => []AnswerFitsTheBody
<1>1. WorkshopInv => AnswerFitsTheBody
  BY DEF WorkshopInv, ReadInv, StageInv, AnswerFitsTheBody, VerdictIsRight
<1>2. QED
  BY <1>1, WorkshopStarts, WorkshopSteps, PTL DEF Spec
=============================================================================
