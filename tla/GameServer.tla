----------------------------- MODULE GameServer -----------------------------
(* The game server a RCON session talks to, and the two byte streams between *)
(* them.  It is not part of the repository: it is modelled from what         *)
(* src/lib/server/rcon.ts and src/helper/rcon.go send and what they accept.  *)
(* It reads one request at a time and answers in that order; it may also     *)
(* stay silent, ignore a request, or emit packets nobody asked for.          *)
(*                                                                           *)
(* A packet is reduced to what the clients look at: its type, the id it      *)
(* echoes, its length in units, which fragment of the answer it is, and      *)
(* whether its body is the 4-byte terminator.  The n-th command of a batch   *)
(* uses id n, the authentication id 0.                                       *)
EXTENDS Integers, Sequences

CONSTANTS
  Commands,       \* the batch: a sequence over Kinds
  MaxFragments,   \* bound: fragments the game server answers a command with
  FragmentSizes,  \* bound: the lengths of these fragments, in units
  MaxFaults       \* bound: foreign or malformed packets the server emits

Kinds == {"plain", "transition", "oversized"}

ASSUME BatchAssumption ==
  /\ Commands \in Seq(Kinds)
  /\ MaxFragments \in Nat /\ MaxFaults \in Nat /\ FragmentSizes \subseteq Nat

VARIABLES
  toServer,  \* requests on their way to the server
  stream,    \* packets on their way to the client
  granted,   \* the server accepted the password
  served,    \* for each command, the lengths of the fragments it was answered with
  faults     \* packets emitted that answer nothing

wireVars == <<toServer, stream, granted, served, faults>>

Packets == [type : {"auth", "value", "malformed"}, id : Int, size : Nat,
            part : Nat, term : BOOLEAN]
Packet(type, id, size, part, term) ==
  [type |-> type, id |-> id, size |-> size, part |-> part, term |-> term]

Rejection == -1
Foreign == -2
AuthReply(id)         == Packet("auth", id, 0, 0, FALSE)
Fragment(id, size, n) == Packet("value", id, size, n, FALSE)
Empty(id)             == Packet("value", id, 0, 0, FALSE)
Terminator(id)        == Packet("value", id, 1, 0, TRUE)
Malformed             == Packet("malformed", Foreign, 0, 0, FALSE)

Requests == [what : {"auth", "command", "probe"}, id : Nat]
Request(what, id) == [what |-> what, id |-> id]

WireInit ==
  /\ toServer = <<>> /\ stream = <<>>
  /\ granted = FALSE
  /\ served = [n \in 1..Len(Commands) |-> <<>>]
  /\ faults = 0

WireTypeOK ==
  /\ toServer \in Seq(Requests)
  /\ stream \in Seq(Packets)
  /\ granted \in BOOLEAN
  /\ served \in [1..Len(Commands) -> Seq(FragmentSizes)]
  /\ faults \in 0..MaxFaults

Takes(what) ==
  /\ toServer # <<>> /\ Head(toServer).what = what
  /\ toServer' = Tail(toServer)

ServerAuth ==
  /\ Takes("auth")
  /\ \E accept \in BOOLEAN :
       /\ granted' = accept
       /\ stream' = stream \o <<Empty(0), AuthReply(IF accept THEN 0 ELSE Rejection)>>
  /\ UNCHANGED <<served, faults>>

ServerCommand ==
  /\ Takes("command")
  /\ LET id == Head(toServer).id IN
     \E count \in 0..MaxFragments : \E sizes \in [1..count -> FragmentSizes] :
       /\ served' = [served EXCEPT ![id] = sizes]
       /\ stream' = stream \o [n \in 1..count |-> Fragment(id, sizes[n], n)]
  /\ UNCHANGED <<granted, faults>>

ServerProbe ==
  /\ Takes("probe")
  /\ LET id == Head(toServer).id IN stream' = stream \o <<Empty(id), Terminator(id)>>
  /\ UNCHANGED <<granted, served, faults>>

ServerIgnores ==
  /\ Takes("command") \/ Takes("probe")
  /\ UNCHANGED <<stream, granted, served, faults>>

ServerFault ==
  /\ faults < MaxFaults
  /\ faults' = faults + 1
  /\ \E p \in {Malformed, Empty(Foreign), Terminator(Foreign)} : stream' = Append(stream, p)
  /\ UNCHANGED <<toServer, granted, served>>

ServerNext == ServerAuth \/ ServerCommand \/ ServerProbe \/ ServerIgnores \/ ServerFault

-----------------------------------------------------------------------------
(* What a client kept of an answer: whose fragment, which one, how much.     *)

Chunks == [id : Int, part : Nat, take : Nat]

(* The beginning of the text of command n: own fragments in the order they   *)
(* were sent, none that carries text left out before the last one, and all   *)
(* of them whole but perhaps the last.                                       *)
PrefixOfServed(n, chunks) ==
  \A i \in 1..Len(chunks) :
    /\ chunks[i].id = n
    /\ chunks[i].part \in 1..Len(served[n])
    /\ chunks[i].take \in 1..served[n][chunks[i].part]
    /\ \A j \in 1..(i - 1) :
         /\ chunks[j].part < chunks[i].part
         /\ chunks[j].take = served[n][chunks[j].part]
    /\ \A k \in 1..(chunks[i].part - 1) :
         served[n][k] > 0 => \E j \in 1..(i - 1) : chunks[j].part = k

(* Every fragment of command n that carries text is there, and whole.        *)
WholeOfServed(n, chunks) ==
  \A k \in 1..Len(served[n]) :
    served[n][k] > 0 =>
      \E i \in 1..Len(chunks) : chunks[i].part = k /\ chunks[i].take = served[n][k]
=============================================================================
