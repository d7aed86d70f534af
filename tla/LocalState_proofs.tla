------------------------- MODULE LocalState_proofs --------------------------
(* Proofs about the stored document, for any profiles, limits and documents  *)
(* that earlier pages and other tabs may leave.                              *)
EXTENDS LocalState, WellFoundedInduction, SequenceTheorems, TLAPS

-----------------------------------------------------------------------------
(* Lists.                                                                    *)

(* Induction along a list, from the least counterexample: the theorem of the *)
(* library takes a predicate, this one a set of positions.                   *)
LEMMA AlongList ==
  ASSUME NEW N \in Nat, NEW S, 0 \in S, \A n \in 1..N : n - 1 \in S => n \in S
  PROVE  N \in S
  <1> DEFINE R == {pair \in Nat \X Nat : pair[1] < pair[2]}
             T == {n \in 0..N : n \notin S}
  <1>1. IsWellFoundedOn(R, Nat)
    BY NatLessThanWellFounded, Zenon DEF OpToRel
  <1> SUFFICES ASSUME N \notin S PROVE FALSE
    OBVIOUS
  <1>0. T # {}
    BY N \in 0..N
  <1>2. T \subseteq Nat
    OBVIOUS
  <1>3. \A m, n \in Nat : m < n => <<m, n>> \in R
    OBVIOUS
  <1> HIDE DEF R
  <1>4. PICK n \in T : \A m \in T : <<m, n>> \notin R
    BY <1>0, <1>1, <1>2, WFMin
  <1>5. n \in 1..N /\ n - 1 \in 0..N
    OBVIOUS
  <1>6. n - 1 \in T
    BY <1>5
  <1>7. <<n - 1, n>> \in R
    BY <1>3, <1>5
  <1> QED
    BY <1>4, <1>6, <1>7

(* What the filter does with the n-th item.                                  *)
Filters(kept, list, id, n) ==
  IF n = 0 THEN <<>>
  ELSE IF list[n].id = id THEN kept[n - 1] ELSE Append(kept[n - 1], list[n])

(* The filter goes through the list from its first item to its last.         *)
LEMMA FilteredDef ==
  ASSUME NEW list, NEW id, Len(list) \in Nat
  PROVE  /\ Filtered(list, id)[0] = <<>>
         /\ \A n \in 1..Len(list) :
              Filtered(list, id)[n] = IF list[n].id = id THEN Filtered(list, id)[n - 1]
                                      ELSE Append(Filtered(list, id)[n - 1], list[n])
  <1> DEFINE S == {n \in 0..Len(list) :
                     \E kept : kept = [k \in 0..n |-> Filters(kept, list, id, k)]}
  <1>1. 0 \in S
    <2> DEFINE kept == [k \in 0..0 |-> <<>>]
    <2>1. \A k \in 0..0 : Filters(kept, list, id, k) = <<>>
      BY DEF Filters
    <2>2. kept = [k \in 0..0 |-> Filters(kept, list, id, k)]
      BY <2>1
    <2>3. 0 \in 0..Len(list)
      OBVIOUS
    <2> HIDE DEF kept
    <2> QED
      BY <2>2, <2>3
  <1>2. ASSUME NEW n \in 1..Len(list), n - 1 \in S
        PROVE  n \in S
    <2>1. PICK kept : kept = [k \in 0..(n - 1) |-> Filters(kept, list, id, k)]
      BY <1>2
    <2> DEFINE next == [k \in 0..n |-> IF k = n THEN Filters(kept, list, id, n) ELSE kept[k]]
    <2>2. \A k \in 0..n : next[k] = Filters(kept, list, id, k)
      <3> TAKE k \in 0..n
      <3>1. CASE k = n
        BY <3>1
      <3>2. CASE k # n
        <4>1. k \in 0..(n - 1)
          BY <3>2
        <4>2. kept[k] = Filters(kept, list, id, k)
          BY <2>1, <4>1
        <4> QED
          BY <3>2, <4>2
      <3> QED
        BY <3>1, <3>2
    <2>3. \A k \in 1..n : next[k - 1] = kept[k - 1]
      OBVIOUS
    <2>4. next = [k \in 0..n |-> next[k]]
      OBVIOUS
    <2> HIDE DEF next
    <2>5. \A k \in 0..n : next[k] = Filters(next, list, id, k)
      BY <2>2, <2>3 DEF Filters
    <2>6. next = [k \in 0..n |-> Filters(next, list, id, k)]
      BY <2>4, <2>5
    <2> QED
      BY <2>6
  <1>3. Len(list) \in S
    <2> HIDE DEF S
    <2> QED
      BY <1>1, <1>2, AlongList
  <1>4. \E kept : kept = [k \in 0..Len(list) |-> Filters(kept, list, id, k)]
    BY <1>3
  <1>5. Filtered(list, id) =
          [n \in 0..Len(list) |-> Filters(Filtered(list, id), list, id, n)]
    BY <1>4, Zenon DEF Filtered, Filters
  <1>6. \A n \in 0..Len(list) : Filtered(list, id)[n] = Filters(Filtered(list, id), list, id, n)
    BY <1>5
  <1>7. 0 \in 0..Len(list) /\ \A n \in 1..Len(list) : n \in 0..Len(list) /\ n # 0
    OBVIOUS
  <1> QED
    BY <1>6, <1>7 DEF Filters

(* What is left are items of the list with another id, as far apart as the   *)
(* list keeps them.                                                          *)
LEMMA OthersFacts ==
  ASSUME NEW R, NEW list \in Seq(R), NEW id
  PROVE  /\ Others(list, id) \in Seq(R)
         /\ \A i \in DOMAIN Others(list, id) :
              /\ Others(list, id)[i].id # id
              /\ \E j \in DOMAIN list : Others(list, id)[i] = list[j]
         /\ Distinct(list) => Distinct(Others(list, id))
  <1> DEFINE f == Filtered(list, id)
             Good(n) ==
               /\ f[n] \in Seq(R)
               /\ \A i \in 1..Len(f[n]) : f[n][i].id # id /\ \E j \in 1..n : f[n][i] = list[j]
               /\ Distinct(list) =>
                    \A i, j \in 1..Len(f[n]) : f[n][i].id = f[n][j].id => i = j
             S == {n \in 0..Len(list) : Good(n)}
  <1>1. /\ f[0] = <<>>
        /\ \A n \in 1..Len(list) : f[n] = IF list[n].id = id THEN f[n - 1]
                                          ELSE Append(f[n - 1], list[n])
    BY FilteredDef
  <1>2. Others(list, id) = f[Len(list)]
    BY DEF Others
  <1> HIDE DEF f
  <1>3. 0 \in S
    <2>1. f[0] \in Seq(R) /\ Len(f[0]) = 0 /\ 0 \in 0..Len(list)
      BY <1>1
    <2>2. 1..0 = {}
      OBVIOUS
    <2>3. Good(0)
      BY <2>1, <2>2
    <2> QED
      BY <2>1, <2>3
  <1>4. ASSUME NEW n \in 1..Len(list), n - 1 \in S
        PROVE  n \in S
    <2>1. Good(n - 1)
      BY <1>4
    <2>5. Len(f[n - 1]) \in Nat
      BY <2>1
    <2>2. list[n] \in R /\ n \in 0..Len(list) /\ \A j \in 1..(n - 1) : j \in 1..n
      OBVIOUS
    <2>3. CASE list[n].id = id
      <3>1. f[n] = f[n - 1]
        BY <1>1, <2>3
      <3>2. Good(n)
        BY <2>1, <2>2, <3>1
      <3> QED
        BY <2>2, <3>2
    <2>4. CASE list[n].id # id
      <3>1. f[n] = Append(f[n - 1], list[n])
        BY <1>1, <2>4
      <3>2. f[n] \in Seq(R) /\ Len(f[n]) = Len(f[n - 1]) + 1
        BY <2>1, <2>2, <2>5, <3>1
      <3>3. \A i \in 1..Len(f[n]) :
              \/ i = Len(f[n]) /\ f[n][i] = list[n]
              \/ i \in 1..Len(f[n - 1]) /\ f[n][i] = f[n - 1][i]
        BY <2>1, <2>2, <2>5, <3>1, <3>2
      <3>4. \A i \in 1..Len(f[n]) : f[n][i].id # id /\ \E j \in 1..n : f[n][i] = list[j]
        <4> TAKE i \in 1..Len(f[n])
        <4>1. CASE i = Len(f[n]) /\ f[n][i] = list[n]
          <5>1. n \in 1..n
            OBVIOUS
          <5> QED
            BY <2>4, <4>1, <5>1
        <4>2. CASE i \in 1..Len(f[n - 1]) /\ f[n][i] = f[n - 1][i]
          <5>1. PICK j \in 1..(n - 1) : f[n - 1][i] = list[j]
            BY <2>1, <4>2
          <5> QED
            BY <2>1, <2>2, <4>2, <5>1
        <4> QED
          BY <3>3, <4>1, <4>2
      <3>5. ASSUME Distinct(list)
            PROVE  \A i, j \in 1..Len(f[n]) : f[n][i].id = f[n][j].id => i = j
        <4>1. \A i \in 1..Len(f[n - 1]) : f[n - 1][i].id # list[n].id
          <5> TAKE i \in 1..Len(f[n - 1])
          <5>1. PICK j \in 1..(n - 1) : f[n - 1][i] = list[j]
            BY <2>1
          <5>2. j \in DOMAIN list /\ n \in DOMAIN list /\ j # n
            OBVIOUS
          <5> QED
            BY <3>5, <5>1, <5>2 DEF Distinct
        <4> QED
          BY <2>1, <3>3, <3>5, <4>1
      <3> QED
        BY <2>2, <3>2, <3>4, <3>5
    <2> QED
      BY <2>3, <2>4
  <1>5. Good(Len(list))
    <2>1. Len(list) \in S
      <3>1. Len(list) \in Nat
        OBVIOUS
      <3> HIDE DEF S
      <3> QED
        BY <1>3, <1>4, <3>1, AlongList
    <2> QED
      BY <2>1
  <1>6. DOMAIN f[Len(list)] = 1..Len(f[Len(list)]) /\ DOMAIN list = 1..Len(list)
    BY <1>5
  <1> QED
    BY <1>2, <1>5, <1>6 DEF Distinct

(* It leaves a list alone that has nothing with the id.                      *)
LEMMA OthersAll ==
  ASSUME NEW R, NEW list \in Seq(R), NEW id, \A i \in DOMAIN list : list[i].id # id
  PROVE  Others(list, id) = list
  <1> DEFINE f == Filtered(list, id)
             Good(n) == f[n] \in Seq(R) /\ Len(f[n]) = n /\ \A i \in 1..n : f[n][i] = list[i]
             S == {n \in 0..Len(list) : Good(n)}
  <1>1. /\ f[0] = <<>>
        /\ \A n \in 1..Len(list) : f[n] = IF list[n].id = id THEN f[n - 1]
                                          ELSE Append(f[n - 1], list[n])
    BY FilteredDef
  <1>2. Others(list, id) = f[Len(list)]
    BY DEF Others
  <1> HIDE DEF f
  <1>3. 0 \in S
    <2>1. f[0] \in Seq(R) /\ Len(f[0]) = 0 /\ 0 \in 0..Len(list)
      BY <1>1
    <2>2. 1..0 = {}
      OBVIOUS
    <2>3. Good(0)
      BY <2>1, <2>2
    <2> QED
      BY <2>1, <2>3
  <1>4. ASSUME NEW n \in 1..Len(list), n - 1 \in S
        PROVE  n \in S
    <2>1. Good(n - 1)
      BY <1>4
    <2>2. list[n] \in R /\ list[n].id # id /\ n \in 0..Len(list)
      OBVIOUS
    <2>3. f[n] = Append(f[n - 1], list[n])
      BY <1>1, <2>2
    <2>4. f[n] \in Seq(R) /\ Len(f[n]) = n
      BY <2>1, <2>2, <2>3
    <2>5. \A i \in 1..n : f[n][i] = IF i = n THEN list[n] ELSE f[n - 1][i]
      BY <2>1, <2>2, <2>3
    <2>6. \A i \in 1..n : i # n => i \in 1..(n - 1)
      OBVIOUS
    <2> QED
      BY <2>1, <2>2, <2>4, <2>5, <2>6
  <1>5. Good(Len(list))
    <2>1. Len(list) \in S
      <3>1. Len(list) \in Nat
        OBVIOUS
      <3> HIDE DEF S
      <3> QED
        BY <1>3, <1>4, <3>1, AlongList
    <2> QED
      BY <2>1
  <1> QED
    BY <1>2, <1>5

-----------------------------------------------------------------------------
(* The invariant.                                                            *)

TypeInv ==
  /\ disk \in Document \cup {Unreadable} /\ stored \in Document
  /\ page \in {"closed", "loading", "open"} /\ dirty \in BOOLEAN
  /\ connected \in BOOLEAN /\ connecting \in Connection \cup {None}
  /\ dialog \in Dialog \cup {None}
  /\ entries \in Nat /\ running \in Nat \cup {None} /\ mine \in BOOLEAN

(* What the tab wrote last is what it shows.                                 *)
DiskInv == Settled => disk = stored

(* A profile in memory is none of the demo and keeps its password only if    *)
(* the user wants that.                                                      *)
ProfilesInv ==
  \A i \in DOMAIN stored.profiles :
    /\ stored.profiles[i].id # Demo
    /\ stored.profiles[i].password =>
         stored.profiles[i].remember /\ stored.profiles[i].id \in choice

(* A log whose entries are all of this page or an earlier one.               *)
Made(log) == Distinct(log) /\ \A i \in DOMAIN log : log[i].id <= entries

HistoryInv ==
  /\ Made(stored.history) /\ Len(stored.history) <= MaxHistory
  /\ disk # Unreadable => Made(disk.history)
  /\ running # None => running <= entries
  /\ page = "closed" => started = {}
  /\ \A i \in DOMAIN stored.history :
       stored.history[i].status = "pending" /\ stored.history[i].id \in started =>
         running = stored.history[i].id

(* No connection that is being made brings back what was deleted.            *)
DeletedInv ==
  /\ DeletedStaysDeleted
  /\ connecting # None =>
       /\ connecting.done => connecting.keep
       /\ connecting.keep => connecting.id \notin deleted \cup gone

Inv == TypeInv /\ DiskInv /\ ProfilesInv /\ HistoryInv /\ DeletedInv

(* Constants that are not mistaken for each other.                           *)
LEMMA Constants ==
  /\ Demo \notin Ids /\ None \notin Ids /\ Demo # None
  /\ None \notin Int /\ None \notin Nat /\ None \notin Connection /\ None \notin Dialog
  /\ Unreadable \notin Document
  /\ Default \in Document /\ Default # Unreadable
  /\ MaxProfiles \in Nat /\ MaxHistory \in Nat
  <1>1. /\ Demo \notin Ids /\ None \notin Ids /\ Demo # None
        /\ None \notin Int /\ None \notin Connection /\ None \notin Dialog
        /\ Unreadable \notin Document
        /\ MaxProfiles \in Nat /\ MaxHistory \in Nat
    BY StorageAssumption
  <1>2. <<>> \in Seq(Profile) /\ <<>> \in Seq(Entry)
    OBVIOUS
  <1>3. Default \in Document
    BY <1>2 DEF Default, Document
  <1> QED
    BY <1>1, <1>3

(* slice(0, n).                                                              *)
LEMMA FirstFacts ==
  ASSUME NEW R, NEW s \in Seq(R), NEW n \in Nat
  PROVE  /\ First(s, n) \in Seq(R) /\ Len(First(s, n)) <= n
         /\ \A i \in DOMAIN First(s, n) : i \in DOMAIN s /\ First(s, n)[i] = s[i]
         /\ Len(s) <= n => First(s, n) = s
  <1> DEFINE k == IF Len(s) < n THEN Len(s) ELSE n
  <1>1. k \in Nat /\ k <= n /\ k <= Len(s) /\ (Len(s) <= n => k = Len(s))
    OBVIOUS
  <1>2. First(s, n) = SubSeq(s, 1, k)
    BY DEF First
  <1> HIDE DEF k
  <1>3. SubSeq(s, 1, k) = [i \in 1..k |-> s[i]]
    BY <1>1
  <1>4. \A i \in 1..k : i \in 1..Len(s) /\ s[i] \in R
    BY <1>1
  <1>5. SubSeq(s, 1, k) \in Seq(R) /\ Len(SubSeq(s, 1, k)) = k
    BY <1>1, <1>3, <1>4
  <1>6. k = Len(s) => SubSeq(s, 1, k) = s
    BY <1>3
  <1> QED
    BY <1>1, <1>2, <1>3, <1>4, <1>5, <1>6

(* A new entry stands before the others; an old one is replaced.             *)
LEMMA AddFacts ==
  ASSUME NEW log \in Seq(Entry), NEW entry \in Entry
  PROVE  /\ AddHistory(log, entry) \in Seq(Entry)
         /\ Len(AddHistory(log, entry)) <= MaxHistory
         /\ \A i \in DOMAIN AddHistory(log, entry) :
              \/ AddHistory(log, entry)[i] = entry
              \/ /\ AddHistory(log, entry)[i].id # entry.id
                 /\ \E j \in DOMAIN log : AddHistory(log, entry)[i] = log[j]
         /\ Distinct(log) => Distinct(AddHistory(log, entry))
  <1> DEFINE rest == Others(log, entry.id)
             all == <<entry>> \o rest
  <1>1. /\ rest \in Seq(Entry)
        /\ \A i \in DOMAIN rest : rest[i].id # entry.id /\ \E j \in DOMAIN log : rest[i] = log[j]
        /\ Distinct(log) => Distinct(rest)
    BY OthersFacts
  <1>2. AddHistory(log, entry) = First(all, MaxHistory)
    BY DEF AddHistory
  <1> HIDE DEF rest
  <1>3. all \in Seq(Entry) /\ Len(all) = Len(rest) + 1
    BY <1>1
  <1>4. \A i \in DOMAIN all : \/ i = 1 /\ all[i] = entry
                              \/ i - 1 \in DOMAIN rest /\ all[i] = rest[i - 1]
    BY <1>1, <1>3
  <1>5. \A i \in DOMAIN all :
          \/ all[i] = entry
          \/ all[i].id # entry.id /\ \E j \in DOMAIN log : all[i] = log[j]
    BY <1>1, <1>4
  <1>6. ASSUME Distinct(log) PROVE Distinct(all)
    <2>1. Distinct(rest)
      BY <1>1, <1>6
    <2>2. \A i \in DOMAIN all : i \in Nat
      BY <1>3
    <2> SUFFICES ASSUME NEW i \in DOMAIN all, NEW j \in DOMAIN all, all[i].id = all[j].id
                 PROVE  i = j
      BY DEF Distinct
    <2>3. CASE i = 1 /\ all[i] = entry
      BY <1>1, <1>4, <2>3
    <2>4. CASE i - 1 \in DOMAIN rest /\ all[i] = rest[i - 1]
      <3>1. j - 1 \in DOMAIN rest /\ all[j] = rest[j - 1]
        BY <1>1, <1>4, <2>4
      <3>2. i - 1 = j - 1
        BY <2>1, <2>4, <3>1 DEF Distinct
      <3> QED
        BY <2>2, <3>2
    <2> QED
      BY <1>4, <2>3, <2>4
  <1> HIDE DEF all
  <1>7. /\ First(all, MaxHistory) \in Seq(Entry) /\ Len(First(all, MaxHistory)) <= MaxHistory
        /\ \A i \in DOMAIN First(all, MaxHistory) :
             i \in DOMAIN all /\ First(all, MaxHistory)[i] = all[i]
    BY <1>3, Constants, FirstFacts
  <1>8. Distinct(all) => Distinct(First(all, MaxHistory))
    BY <1>7 DEF Distinct
  <1> QED
    BY <1>2, <1>5, <1>6, <1>7, <1>8

(* loadStoredState() returns a document as the page keeps it, whatever is on *)
(* the disk.                                                                 *)
LEMMA LoadFacts ==
  ASSUME NEW raw \in Document \cup {Unreadable}
  PROVE  /\ LoadStoredState(raw) \in Document
         /\ \A i \in DOMAIN LoadStoredState(raw).profiles :
              /\ LoadStoredState(raw).profiles[i].id # Demo
              /\ LoadStoredState(raw).profiles[i].password =>
                   LoadStoredState(raw).profiles[i].remember
              /\ raw # Unreadable
              /\ \E j \in DOMAIN raw.profiles :
                   /\ raw.profiles[j].id = LoadStoredState(raw).profiles[i].id
                   /\ raw.profiles[j].remember = LoadStoredState(raw).profiles[i].remember
         /\ Len(LoadStoredState(raw).history) <= MaxHistory
         /\ \A i \in DOMAIN LoadStoredState(raw).history :
              /\ raw # Unreadable
              /\ i \in DOMAIN raw.history
              /\ LoadStoredState(raw).history[i] = raw.history[i]
  <1>1. CASE raw = Unreadable
    <2>1. LoadStoredState(raw) = Default
      BY <1>1 DEF LoadStoredState
    <2>2. Default.profiles = <<>> /\ Default.history = <<>>
      BY DEF Default
    <2> QED
      BY <2>1, <2>2, Constants
  <1>2. CASE raw # Unreadable
    <2> DEFINE valid == First(Others(raw.profiles, Demo), MaxProfiles)
               profiles == [i \in DOMAIN valid |-> LoadedProfile(valid[i])]
               ids == {valid[i].id : i \in DOMAIN valid}
               active == IF raw.active \in ids THEN raw.active ELSE None
               log == First(raw.history, MaxHistory)
    <2>1. LoadStoredState(raw) = [profiles |-> profiles, active |-> active, history |-> log]
      BY <1>2 DEF LoadStoredState
    <2>2. /\ raw.profiles \in Seq(Profile) /\ raw.active \in Ids \cup {Demo, None}
          /\ raw.history \in Seq(Entry)
      BY <1>2 DEF Document
    <2>3. /\ Others(raw.profiles, Demo) \in Seq(Profile)
          /\ \A i \in DOMAIN Others(raw.profiles, Demo) :
               /\ Others(raw.profiles, Demo)[i].id # Demo
               /\ \E j \in DOMAIN raw.profiles : Others(raw.profiles, Demo)[i] = raw.profiles[j]
      BY <2>2, OthersFacts
    <2>4. /\ valid \in Seq(Profile)
          /\ \A i \in DOMAIN valid :
               /\ valid[i].id # Demo
               /\ \E j \in DOMAIN raw.profiles : valid[i] = raw.profiles[j]
      BY <2>3, Constants, FirstFacts
    <2>5. /\ log \in Seq(Entry) /\ Len(log) <= MaxHistory
          /\ \A i \in DOMAIN log : i \in DOMAIN raw.history /\ log[i] = raw.history[i]
      BY <2>2, Constants, FirstFacts
    <2>6. active \in Ids \cup {Demo, None}
      BY <2>2
    <2> HIDE DEF valid, log, active
    <2>7. \A i \in DOMAIN valid :
            /\ LoadedProfile(valid[i]) \in Profile
            /\ LoadedProfile(valid[i]).id = valid[i].id
            /\ LoadedProfile(valid[i]).remember = valid[i].remember
            /\ LoadedProfile(valid[i]).password => valid[i].remember
      <3> TAKE i \in DOMAIN valid
      <3>1. valid[i] \in Profile
        BY <2>4
      <3> QED
        BY <3>1 DEF LoadedProfile, Profile
    <2>8. profiles \in Seq(Profile) /\ DOMAIN profiles = DOMAIN valid
      <3>1. DOMAIN valid = 1..Len(valid) /\ Len(valid) \in Nat
        BY <2>4
      <3> QED
        BY <2>7, <3>1
    <2>9. \A i \in DOMAIN profiles :
            /\ profiles[i].id # Demo
            /\ profiles[i].password => profiles[i].remember
            /\ \E j \in DOMAIN raw.profiles : /\ raw.profiles[j].id = profiles[i].id
                                              /\ raw.profiles[j].remember = profiles[i].remember
      <3> TAKE i \in DOMAIN profiles
      <3>1. i \in DOMAIN valid /\ profiles[i] = LoadedProfile(valid[i])
        BY <2>8
      <3> QED
        BY <2>4, <2>7, <3>1
    <2> HIDE DEF profiles
    <2>10. LoadStoredState(raw) \in Document
      BY <2>1, <2>5, <2>6, <2>8 DEF Document
    <2> QED
      BY <1>2, <2>1, <2>5, <2>9, <2>10
  <1> QED
    BY <1>1, <1>2

-----------------------------------------------------------------------------
(* The steps.                                                                *)

(* The page opens on a disk that no page of this run has written.            *)
LEMMA InitInv == Init => Inv
  <1> SUFFICES ASSUME Init PROVE Inv
    OBVIOUS
  <1>1. /\ disk \in Documents /\ page = "closed" /\ stored = Default /\ dirty = FALSE
        /\ connected = FALSE /\ connecting = None /\ running = None /\ dialog = None
        /\ entries = 0 /\ mine = FALSE /\ started = {} /\ gone = {}
    BY DEF Init
  <1>2. /\ disk \in Document \cup {Unreadable}
        /\ disk # Unreadable => /\ Distinct(disk.history)
                                /\ \A i \in DOMAIN disk.history : disk.history[i].id <= 0
    BY <1>1, StorageAssumption
  <1>3. TypeInv
    BY <1>1, <1>2, Constants DEF TypeInv
  <1>4. DiskInv
    BY <1>1 DEF DiskInv, Settled
  <1>5. stored.profiles = <<>> /\ stored.history = <<>>
    BY <1>1 DEF Default
  <1>6. ProfilesInv
    BY <1>5 DEF ProfilesInv
  <1>7. HistoryInv
    <2>1. Made(stored.history) /\ Len(stored.history) <= MaxHistory
      BY <1>5, Constants DEF Made, Distinct
    <2>2. disk # Unreadable => Made(disk.history)
      BY <1>1, <1>2 DEF Made
    <2> QED
      BY <1>1, <1>5, <2>1, <2>2 DEF HistoryInv
  <1>8. DeletedInv
    BY <1>1 DEF DeletedInv, DeletedStaysDeleted
  <1> QED
    BY <1>3, <1>4, <1>6, <1>7, <1>8 DEF Inv

(* The profiles do not change.                                               *)
LEMMA ProfilesKept ==
  ASSUME ProfilesInv, stored'.profiles = stored.profiles, choice' = choice
  PROVE  ProfilesInv'
  BY DEF ProfilesInv

(* The history does not change, and the command that runs goes on or belongs *)
(* to a session that ended.                                                  *)
LEMMA HistoryKept ==
  ASSUME HistoryInv, stored'.history = stored.history, UNCHANGED <<disk, page, entries>>,
         \/ UNCHANGED <<running, started>>
         \/ running' = None /\ started' = {}
  PROVE  HistoryInv'
  <1>1. Made(stored.history)' /\ (disk # Unreadable => Made(disk.history))'
    BY DEF HistoryInv, Made
  <1> QED
    BY <1>1 DEF HistoryInv

(* Nothing that was deleted is written or comes back.                        *)
LEMMA DeletedKept ==
  ASSUME DeletedStaysDeleted, UNCHANGED disk, gone' \subseteq gone,
         IdsOf(stored') \subseteq IdsOf(stored)
  PROVE  DeletedStaysDeleted'
  BY DEF DeletedStaysDeleted, OnDisk

(* The active profile is one of the user's.                                  *)
LEMMA ActiveFacts ==
  ASSUME TypeInv, ProfilesInv
  PROVE  ActiveOf(stored) \in Ids \cup {None} /\ IdsOf(stored) \subseteq Ids
  <1>1. stored.profiles \in Seq(Profile)
    BY DEF TypeInv, Document
  <1>2. \A i \in DOMAIN stored.profiles : stored.profiles[i].id \in Ids
    <2> TAKE i \in DOMAIN stored.profiles
    <2>1. stored.profiles[i] \in Profile
      BY <1>1
    <2> QED
      BY <2>1 DEF Profile, ProfilesInv
  <1>3. IdsOf(stored) \subseteq Ids
    BY <1>2 DEF IdsOf
  <1> QED
    BY <1>3 DEF ActiveOf

(* A tab opens, whatever is on the disk.                                     *)
LEMMA OpenStep ==
  ASSUME Inv, Open
  PROVE  Inv'
  <1> USE DEF Inv
  <1>1. /\ page = "closed" /\ page' = "loading"
        /\ stored' = LoadStoredState(disk)
        /\ choice' = Remembered(OnDisk) \cap Ids
        /\ UNCHANGED <<disk, dirty, connected, connecting, running, dialog, entries,
                       mine, started, deleted, gone>>
    BY DEF Open
  <1>2. disk \in Document \cup {Unreadable}
    BY DEF TypeInv
  <1> DEFINE load == LoadStoredState(disk)
  <1>3. /\ load \in Document
        /\ \A i \in DOMAIN load.profiles :
             /\ load.profiles[i].id # Demo
             /\ load.profiles[i].password => load.profiles[i].remember
             /\ disk # Unreadable
             /\ \E j \in DOMAIN disk.profiles :
                  /\ disk.profiles[j].id = load.profiles[i].id
                  /\ disk.profiles[j].remember = load.profiles[i].remember
        /\ Len(load.history) <= MaxHistory
        /\ \A i \in DOMAIN load.history :
             /\ disk # Unreadable
             /\ i \in DOMAIN disk.history
             /\ load.history[i] = disk.history[i]
    BY <1>2, LoadFacts
  <1> HIDE DEF load
  <1>4. TypeInv'
    BY <1>1, <1>3 DEF TypeInv, load
  <1>5. DiskInv'
    BY <1>1 DEF DiskInv, Settled
  <1>6. ProfilesInv'
    <2> SUFFICES ASSUME NEW i \in DOMAIN load.profiles
                 PROVE  /\ load.profiles[i].id # Demo
                        /\ load.profiles[i].password =>
                             load.profiles[i].remember /\ load.profiles[i].id \in choice'
      BY <1>1 DEF ProfilesInv, load
    <2>1. load.profiles[i].id \in Ids
      <3>1. load.profiles \in Seq(Profile)
        BY <1>3 DEF Document
      <3>2. load.profiles[i] \in Profile
        BY <3>1
      <3> QED
        BY <1>3, <3>2 DEF Profile
    <2>2. ASSUME load.profiles[i].remember
          PROVE  load.profiles[i].id \in Remembered(OnDisk)
      <3>1. OnDisk = disk
        BY <1>3 DEF OnDisk
      <3> QED
        BY <1>3, <2>2, <3>1 DEF Remembered
    <2> QED
      BY <1>1, <1>3, <2>1, <2>2
  <1>7. HistoryInv'
    <2>1. (disk # Unreadable => Made(disk.history))'
      BY <1>1 DEF HistoryInv, Made
    <2>2. Distinct(load.history)
      BY <1>3 DEF HistoryInv, Made, Distinct
    <2>3. \A i \in DOMAIN load.history : load.history[i].id <= entries
      BY <1>3 DEF HistoryInv, Made
    <2>4. stored'.history = load.history
      BY <1>1 DEF load
    <2>5. Made(stored.history)' /\ Len(stored'.history) <= MaxHistory
      BY <1>1, <1>3, <2>2, <2>3, <2>4 DEF Made
    <2>6. started' = {}
      BY <1>1 DEF HistoryInv
    <2> QED
      BY <1>1, <2>1, <2>5, <2>6 DEF HistoryInv
  <1>8. DeletedInv'
    <2>1. IdsOf(load) \subseteq IdsOf(OnDisk)
      BY <1>3 DEF IdsOf, OnDisk
    <2>2. DeletedStaysDeleted'
      BY <1>1, <2>1 DEF DeletedInv, DeletedStaysDeleted, OnDisk, load
    <2> QED
      BY <1>1, <2>2 DEF DeletedInv
  <1> QED
    BY <1>4, <1>5, <1>6, <1>7, <1>8

(* Its document is written, or the write fails.                              *)
LEMMA SaveStep ==
  ASSUME Inv, Save
  PROVE  Inv'
  <1> USE DEF Inv
  <1>1. /\ dirty' = FALSE
        /\ \/ disk' = stored /\ mine' = TRUE /\ gone' = gone \cup (deleted \ IdsOf(stored))
           \/ mine' = FALSE /\ UNCHANGED <<disk, gone>>
        /\ UNCHANGED <<page, stored, connected, connecting, running, dialog, entries,
                       started, deleted, choice>>
    BY DEF Save
  <1>2. TypeInv'
    BY <1>1 DEF TypeInv
  <1>3. DiskInv'
    BY <1>1 DEF DiskInv, Settled
  <1>4. ProfilesInv'
    BY <1>1, ProfilesKept
  <1>5. HistoryInv'
    <2>1. Made(stored.history)' /\ (disk # Unreadable => Made(disk.history))'
      BY <1>1 DEF HistoryInv, Made
    <2> QED
      BY <1>1, <2>1 DEF HistoryInv
  <1>6. DeletedInv'
    <2>1. CASE disk' = stored /\ gone' = gone \cup (deleted \ IdsOf(stored))
      <3>1. OnDisk' = stored
        BY <2>1, Constants DEF OnDisk, TypeInv
      <3>2. DeletedStaysDeleted'
        BY <1>1, <2>1, <3>1 DEF DeletedInv, DeletedStaysDeleted
      <3> QED
        BY <1>1, <2>1, <3>2 DEF DeletedInv
    <2>2. CASE UNCHANGED <<disk, gone>>
      BY <1>1, <2>2, DeletedKept DEF DeletedInv
    <2> QED
      BY <1>1, <2>1, <2>2
  <1> QED
    BY <1>2, <1>3, <1>4, <1>5, <1>6

(* Another tab writes; this one will not notice.                             *)
LEMMA OtherTabStep ==
  ASSUME Inv, OtherTabSaves
  PROVE  Inv'
  <1> USE DEF Inv
  <1>1. PICK document \in Documents : disk' = LoadStoredState(document)
    BY DEF OtherTabSaves
  <1>2. /\ mine' = FALSE /\ gone' = {}
        /\ UNCHANGED <<page, stored, dirty, connected, connecting, running, dialog, entries,
                       started, deleted, choice>>
    BY DEF OtherTabSaves
  <1>3. /\ document \in Document \cup {Unreadable}
        /\ document # Unreadable =>
             /\ Distinct(document.history)
             /\ \A i \in DOMAIN document.history : document.history[i].id <= 0
    BY StorageAssumption
  <1>4. /\ disk' \in Document
        /\ \A i \in DOMAIN disk'.history : /\ document # Unreadable
                                          /\ i \in DOMAIN document.history
                                          /\ disk'.history[i] = document.history[i]
    BY <1>1, <1>3, LoadFacts
  <1>5. TypeInv'
    BY <1>2, <1>4 DEF TypeInv
  <1>6. DiskInv'
    BY <1>2 DEF DiskInv, Settled
  <1>7. ProfilesInv'
    BY <1>2, ProfilesKept
  <1>8. HistoryInv'
    <2>1. \A i \in DOMAIN disk'.history : disk'.history[i].id <= entries
      <3> TAKE i \in DOMAIN disk'.history
      <3>1. disk'.history \in Seq(Entry)
        BY <1>4 DEF Document
      <3>2. disk'.history[i] \in Entry
        BY <3>1
      <3>3. disk'.history[i].id \in Int
        BY <3>2 DEF Entry
      <3>4. disk'.history[i].id <= 0
        BY <1>3, <1>4
      <3>5. entries \in Nat
        BY DEF TypeInv
      <3> QED
        BY <3>3, <3>4, <3>5
    <2>2. Made(disk.history)'
      BY <1>2, <1>3, <1>4, <2>1 DEF Made, Distinct
    <2>3. Made(stored.history)'
      BY <1>2 DEF HistoryInv, Made
    <2> QED
      BY <1>2, <2>2, <2>3 DEF HistoryInv
  <1>9. DeletedInv'
    BY <1>2 DEF DeletedInv, DeletedStaysDeleted
  <1> QED
    BY <1>5, <1>6, <1>7, <1>8, <1>9


(* The first effect runs: the document is to be written.                     *)
LEMMA HydrateStep ==
  ASSUME Inv, Hydrate
  PROVE  Inv'
  <1> USE DEF Inv
  <1>1. /\ page' = "open" /\ dirty' = TRUE
        /\ UNCHANGED <<disk, stored, connected, connecting, running, dialog, entries,
                       mine, started, deleted, gone, choice>>
    BY DEF Hydrate, history
  <1>2. page = "loading"
    BY DEF Hydrate
  <1>3. TypeInv'
    BY <1>1 DEF TypeInv
  <1>4. DiskInv'
    BY <1>1 DEF DiskInv, Settled
  <1>5. ProfilesInv'
    BY <1>1, ProfilesKept
  <1>6. HistoryInv'
    <2>1. Made(stored.history)' /\ (disk # Unreadable => Made(disk.history))'
      BY <1>1 DEF HistoryInv, Made
    <2> QED
      BY <1>1, <2>1 DEF HistoryInv
  <1>7. DeletedInv'
    BY <1>1, DeletedKept DEF DeletedInv
  <1> QED
    BY <1>3, <1>4, <1>5, <1>6, <1>7

(* Everything in memory is lost; the disk stays.                             *)
LEMMA CloseStep ==
  ASSUME Inv, Close
  PROVE  Inv'
  <1> USE DEF Inv
  <1>1. /\ page' = "closed" /\ stored' = Default /\ dirty' = FALSE
        /\ connected' = FALSE /\ connecting' = None /\ running' = None /\ dialog' = None
        /\ mine' = FALSE /\ started' = {} /\ deleted' = {} /\ choice' = {}
        /\ UNCHANGED <<disk, entries, gone>>
    BY DEF Close
  <1>2. stored'.profiles = <<>> /\ stored'.history = <<>>
    BY <1>1 DEF Default
  <1>3. TypeInv'
    BY <1>1, Constants DEF TypeInv
  <1>4. DiskInv'
    BY <1>1 DEF DiskInv, Settled
  <1>5. ProfilesInv'
    BY <1>2 DEF ProfilesInv
  <1>6. HistoryInv'
    <2>1. Made(stored.history)' /\ Len(stored'.history) <= MaxHistory
      BY <1>2, Constants DEF Made, Distinct
    <2>2. (disk # Unreadable => Made(disk.history))'
      BY <1>1 DEF HistoryInv, Made
    <2>3. started' = {} /\ running' = None
      BY <1>1
    <2> QED
      BY <2>1, <2>2, <2>3 DEF HistoryInv
  <1>7. DeletedInv'
    <2>1. IdsOf(stored') = {}
      BY <1>2 DEF IdsOf
    <2>2. DeletedStaysDeleted'
      BY <1>1, <2>1, DeletedKept DEF DeletedInv
    <2> QED
      BY <1>1, <2>2 DEF DeletedInv
  <1> QED
    BY <1>3, <1>4, <1>5, <1>6, <1>7

(* A step that leaves the document and the history variables alone but for   *)
(* an end of the session.                                                    *)
LEMMA QuietStep ==
  ASSUME Inv, UNCHANGED <<disk, page, stored, entries, mine, deleted, gone, choice>>,
         dirty' \in BOOLEAN, dirty => dirty',
         connected' \in BOOLEAN, dialog' \in Dialog \cup {None},
         \/ UNCHANGED <<running, started>>
         \/ running' = None /\ started' = {},
         connecting' \in Connection \cup {None},
         connecting' # None => \/ connecting' = connecting
                               \/ ~connecting'.keep /\ ~connecting'.done
  PROVE  Inv'
  <1> USE DEF Inv
  <1>1. TypeInv'
    BY DEF TypeInv
  <1>2. DiskInv'
    BY DEF DiskInv, Settled, TypeInv
  <1>3. ProfilesInv'
    BY ProfilesKept
  <1>4. HistoryInv'
    BY HistoryKept
  <1>5. DeletedInv'
    BY DeletedKept DEF DeletedInv
  <1> QED
    BY <1>1, <1>2, <1>3, <1>4, <1>5

LEMMA ChangeOptionStep ==
  ASSUME Inv, ChangeOption
  PROVE  Inv'
  <1>1. /\ UNCHANGED <<disk, page, stored, entries, mine, deleted, gone, choice>>
        /\ dirty' = TRUE /\ UNCHANGED <<connected, connecting, running, dialog, started>>
    BY DEF ChangeOption, history
  <1> QED
    BY <1>1, QuietStep DEF Inv, TypeInv

LEMMA DisconnectStep ==
  ASSUME Inv, Disconnect
  PROVE  Inv'
  <1>1. /\ UNCHANGED <<disk, page, stored, dirty, entries, mine, deleted, gone, choice>>
        /\ running' = None /\ started' = {} /\ connected' = FALSE /\ dialog' = None
        /\ connecting' = None
    BY DEF Disconnect, EndSession
  <1> QED
    BY <1>1, QuietStep DEF Inv, TypeInv

LEMMA SwitchProfileStep ==
  ASSUME Inv, NEW i \in DOMAIN stored.profiles, SwitchProfile(stored.profiles[i])
  PROVE  Inv'
  <1>1. Connect(stored.profiles[i].id, FALSE, FALSE)
    BY DEF SwitchProfile
  <1>2. stored.profiles[i].id \in Ids
    BY ActiveFacts DEF Inv, IdsOf
  <1>3. /\ UNCHANGED <<disk, page, stored, dirty, entries, mine, deleted, gone, choice>>
        /\ running' = None /\ started' = {} /\ connected' = FALSE /\ dialog' = None
        /\ connecting' = [id |-> stored.profiles[i].id, keep |-> FALSE,
                          remember |-> FALSE, done |-> FALSE]
    BY <1>1 DEF Connect, EndSession
  <1>4. connecting' \in Connection /\ ~connecting'.keep /\ ~connecting'.done
    BY <1>2, <1>3 DEF Connection
  <1> QED
    BY <1>3, <1>4, QuietStep DEF Inv, TypeInv

LEMMA ConnectFailsStep ==
  ASSUME Inv, ConnectFails
  PROVE  Inv'
  <1>1. /\ UNCHANGED <<disk, page, stored, dirty, entries, mine, deleted, gone, choice>>
        /\ UNCHANGED <<connected, running, dialog, started>> /\ connecting' = None
    BY DEF ConnectFails, history
  <1> QED
    BY <1>1, QuietStep DEF Inv, TypeInv

LEMMA OpenDialogStep ==
  ASSUME Inv, NEW id \in IdsOf(stored) \cup {None}, OpenDialog(id)
  PROVE  Inv'
  <1>1. /\ UNCHANGED <<disk, page, stored, dirty, entries, mine, deleted, gone, choice>>
        /\ UNCHANGED <<connected, connecting, running, started>>
        /\ dialog' = [id |-> id, active |-> ActiveOf(stored)]
    BY DEF OpenDialog, history
  <1>2. dialog' \in Dialog
    BY <1>1, ActiveFacts DEF Inv, Dialog
  <1> QED
    BY <1>1, <1>2, QuietStep DEF Inv, TypeInv

LEMMA CancelDialogStep ==
  ASSUME Inv, CancelDialog
  PROVE  Inv'
  <1>1. /\ UNCHANGED <<disk, page, stored, dirty, entries, mine, deleted, gone, choice>>
        /\ UNCHANGED <<connected, connecting, running, started>> /\ dialog' = None
    BY DEF CancelDialog, history
  <1> QED
    BY <1>1, QuietStep DEF Inv, TypeInv

(* The form's connection takes back an earlier deletion.                     *)
LEMMA ConnectStep ==
  ASSUME Inv, NEW id \in Ids, NEW remember \in BOOLEAN, Connect(id, TRUE, remember)
  PROVE  Inv'
  <1> USE DEF Inv
  <1>1. /\ UNCHANGED <<disk, page, stored, dirty, entries, mine, choice>>
        /\ running' = None /\ started' = {} /\ connected' = FALSE /\ dialog' = None
        /\ connecting' = [id |-> id, keep |-> TRUE, remember |-> remember, done |-> FALSE]
        /\ deleted' = deleted \ {id} /\ gone' = gone \ {id}
    BY DEF Connect, EndSession
  <1>2. connecting' \in Connection
    BY <1>1 DEF Connection
  <1>3. TypeInv'
    BY <1>1, <1>2 DEF TypeInv
  <1>4. DiskInv'
    BY <1>1 DEF DiskInv, Settled
  <1>5. ProfilesInv'
    BY <1>1, ProfilesKept
  <1>6. HistoryInv'
    BY <1>1, HistoryKept
  <1>7. DeletedInv'
    <2>1. DeletedStaysDeleted'
      BY <1>1, DeletedKept DEF DeletedInv
    <2>2. connecting'.id = id /\ ~connecting'.done
      BY <1>1
    <2> QED
      BY <1>1, <2>1, <2>2 DEF DeletedInv
  <1> QED
    BY <1>3, <1>4, <1>5, <1>6, <1>7

-----------------------------------------------------------------------------
(* Steps that log an entry.                                                  *)

(* More entries are made; those on the disk are still among them.            *)
LEMMA DiskStaysMade ==
  ASSUME TypeInv, HistoryInv, entries' \in Nat, entries <= entries', UNCHANGED disk
  PROVE  (disk # Unreadable => Made(disk.history))'
  <1> SUFFICES ASSUME disk # Unreadable PROVE Made(disk.history)'
    OBVIOUS
  <1>1. disk \in Document /\ entries \in Nat
    BY DEF TypeInv
  <1>2. disk.history \in Seq(Entry)
    BY <1>1 DEF Document
  <1>3. \A i \in DOMAIN disk.history : disk.history[i].id <= entries'
    <2> TAKE i \in DOMAIN disk.history
    <2>1. disk.history[i] \in Entry
      BY <1>2
    <2>2. disk.history[i].id \in Int
      BY <2>1 DEF Entry
    <2>3. disk.history[i].id <= entries
      BY DEF HistoryInv, Made
    <2> QED
      BY <1>1, <2>2, <2>3
  <1> QED
    BY <1>3 DEF HistoryInv, Made

(* The document keeps its profiles and its limit; its log has the entry and  *)
(* what it had under other ids.                                              *)
LEMMA Logged ==
  ASSUME TypeInv, HistoryInv, NEW base \in Document, NEW entry \in Entry,
         base.history = stored.history, base.profiles = stored.profiles,
         stored' = Logs(base, entry),
         entries' \in Nat, entries <= entries', entry.id <= entries', UNCHANGED disk
  PROVE  /\ stored' \in Document
         /\ stored'.profiles = stored.profiles
         /\ Made(stored.history)' /\ Len(stored'.history) <= MaxHistory
         /\ (disk # Unreadable => Made(disk.history))'
         /\ \A i \in DOMAIN stored'.history :
              \/ stored'.history[i] = entry
              \/ /\ stored'.history[i].id # entry.id
                 /\ \E j \in DOMAIN stored.history : stored'.history[i] = stored.history[j]
  <1>1. /\ stored.history \in Seq(Entry) /\ base.profiles \in Seq(Profile)
        /\ base.active \in Ids \cup {Demo, None} /\ entries \in Nat
    BY DEF TypeInv, Document
  <1>2. /\ stored'.profiles = stored.profiles
        /\ stored'.history = AddHistory(stored.history, entry)
        /\ stored' = [profiles |-> base.profiles, active |-> base.active,
                      history |-> AddHistory(stored.history, entry)]
    BY DEF Logs, Document
  <1> DEFINE log == AddHistory(stored.history, entry)
  <1>3. /\ log \in Seq(Entry) /\ Len(log) <= MaxHistory
        /\ \A i \in DOMAIN log : \/ log[i] = entry
                                 \/ /\ log[i].id # entry.id
                                    /\ \E j \in DOMAIN stored.history : log[i] = stored.history[j]
        /\ Distinct(log)
    BY <1>1, AddFacts DEF HistoryInv, Made
  <1> HIDE DEF log
  <1>4. \A i \in DOMAIN log : log[i].id <= entries'
    <2> TAKE i \in DOMAIN log
    <2>1. CASE log[i] = entry
      BY <2>1
    <2>2. ASSUME NEW j \in DOMAIN stored.history, log[i] = stored.history[j]
          PROVE  log[i].id <= entries'
      <3>1. stored.history[j] \in Entry
        BY <1>1
      <3>2. stored.history[j].id \in Int
        BY <3>1 DEF Entry
      <3>3. stored.history[j].id <= entries
        BY DEF HistoryInv, Made
      <3> QED
        BY <1>1, <2>2, <3>2, <3>3
    <2> QED
      BY <1>3, <2>1, <2>2
  <1>5. stored'.history = log
    BY <1>2 DEF log
  <1>6. Made(stored.history)'
    BY <1>3, <1>4, <1>5 DEF Made
  <1>7. (disk # Unreadable => Made(disk.history))'
    BY DiskStaysMade
  <1>8. stored' \in Document
    BY <1>1, <1>2, <1>3 DEF Document, log
  <1> QED
    BY <1>2, <1>3, <1>5, <1>6, <1>7, <1>8

(* Neither the disk nor what was deleted is touched.                         *)
LEMMA LogKeepsRest ==
  ASSUME Inv, stored'.profiles = stored.profiles, dirty' = TRUE,
         UNCHANGED <<disk, choice, deleted, gone>>,
         \/ UNCHANGED connecting
         \/ connecting' = None
         \/ /\ connecting # None /\ connecting' # None
            /\ connecting'.keep = connecting.keep /\ connecting'.id = connecting.id
            /\ connecting'.done => connecting.keep
  PROVE  DiskInv' /\ ProfilesInv' /\ DeletedInv'
  <1> USE DEF Inv
  <1>1. DiskInv'
    BY DEF DiskInv, Settled
  <1>2. ProfilesInv'
    BY ProfilesKept
  <1>3. IdsOf(stored') = IdsOf(stored)
    BY DEF IdsOf
  <1>4. DeletedStaysDeleted'
    BY <1>3, DeletedKept DEF DeletedInv
  <1>5. DeletedInv'
    BY <1>4 DEF DeletedInv
  <1> QED
    BY <1>1, <1>2, <1>5

(* The entry of a connection, which is done.                                 *)
LEMMA ConnectDemoStep ==
  ASSUME Inv, ConnectDemo
  PROVE  Inv'
  <1> USE DEF Inv
  <1> DEFINE entry == [id |-> entries + 1, status |-> "done"]
  <1>1. /\ entries' = entries + 1 /\ stored' = Logs(stored, entry) /\ dirty' = TRUE
        /\ connected' = TRUE /\ running' = None /\ started' = {}
        /\ UNCHANGED <<disk, page, connecting, dialog, mine, deleted, gone, choice>>
    BY DEF ConnectDemo, SetStored
  <1>2. /\ entries \in Nat /\ entries' \in Nat /\ entries <= entries' /\ entry.id <= entries'
        /\ stored \in Document
    BY <1>1 DEF TypeInv
  <1>3. entry \in Entry
    BY <1>2 DEF Entry
  <1> HIDE DEF entry
  <1>4. /\ stored' \in Document /\ stored'.profiles = stored.profiles
        /\ Made(stored.history)' /\ Len(stored'.history) <= MaxHistory
        /\ (disk # Unreadable => Made(disk.history))'
    BY <1>1, <1>2, <1>3, Logged
  <1>5. TypeInv'
    BY <1>1, <1>2, <1>4 DEF TypeInv
  <1>6. HistoryInv'
    BY <1>1, <1>4 DEF HistoryInv
  <1>7. DiskInv' /\ ProfilesInv' /\ DeletedInv'
    BY <1>1, <1>4, LogKeepsRest
  <1> QED
    BY <1>5, <1>6, <1>7

LEMMA ConnectSucceedsStep ==
  ASSUME Inv, ConnectSucceeds
  PROVE  Inv'
  <1> USE DEF Inv
  <1> DEFINE entry == [id |-> entries + 1, status |-> "done"]
             base == [stored EXCEPT !.active = connecting.id]
  <1>1. /\ page = "open" /\ connecting # None /\ ~connecting.done
        /\ entries' = entries + 1 /\ stored' = Logs(base, entry) /\ dirty' = TRUE
        /\ connected' = TRUE
        /\ connecting' = IF connecting.keep THEN [connecting EXCEPT !.done = TRUE] ELSE None
        /\ UNCHANGED <<disk, page, running, dialog, mine, started, deleted, gone, choice>>
    BY DEF ConnectSucceeds, SetStored, history
  <1>2. /\ entries \in Nat /\ entries' \in Nat /\ entries <= entries' /\ entry.id <= entries'
        /\ stored \in Document /\ connecting \in Connection
    BY <1>1 DEF TypeInv
  <1>3. entry \in Entry
    BY <1>2 DEF Entry
  <1>4. /\ base \in Document /\ base.history = stored.history
        /\ base.profiles = stored.profiles
    BY <1>2 DEF Document, Connection
  <1>5. entry.status = "done"
    OBVIOUS
  <1> HIDE DEF entry, base
  <1>6. /\ stored' \in Document /\ stored'.profiles = stored.profiles
        /\ Made(stored.history)' /\ Len(stored'.history) <= MaxHistory
        /\ (disk # Unreadable => Made(disk.history))'
        /\ \A i \in DOMAIN stored'.history :
             \/ stored'.history[i] = entry
             \/ \E j \in DOMAIN stored.history : stored'.history[i] = stored.history[j]
    BY <1>1, <1>2, <1>3, <1>4, Logged
  <1>7. \/ connecting' = None
        \/ /\ connecting' \in Connection
           /\ connecting'.done => connecting.keep
           /\ connecting'.keep = connecting.keep /\ connecting'.id = connecting.id
    BY <1>1, <1>2 DEF Connection
  <1>8. TypeInv'
    <2>1. connecting' \in Connection \cup {None}
      BY <1>7
    <2>2. /\ dirty' = TRUE /\ connected' = TRUE
          /\ UNCHANGED <<disk, page, running, dialog, mine>>
      BY <1>1
    <2> QED
      BY <1>2, <1>6, <2>1, <2>2 DEF TypeInv
  <1>9. HistoryInv'
    <2>1. running # None => running <= entries'
      BY <1>2 DEF HistoryInv, TypeInv
    <2>2. \A i \in DOMAIN stored'.history :
            stored'.history[i].status = "pending" /\ stored'.history[i].id \in started =>
              running = stored'.history[i].id
      BY <1>5, <1>6 DEF HistoryInv
    <2> QED
      BY <1>1, <1>6, <2>1, <2>2 DEF HistoryInv
  <1>10. DiskInv' /\ ProfilesInv' /\ DeletedInv'
    BY <1>1, <1>6, <1>7, LogKeepsRest
  <1> QED
    BY <1>8, <1>9, <1>10

(* A command starts: its entry is the only one of its session that may say   *)
(* so, because nothing else runs.                                            *)
LEMMA ExecuteConsoleStep ==
  ASSUME Inv, ExecuteConsole
  PROVE  Inv'
  <1> USE DEF Inv
  <1> DEFINE entry == [id |-> entries + 1, status |-> "pending"]
  <1>1. /\ page = "open" /\ running = None
        /\ entries' = entries + 1 /\ running' = entries + 1
        /\ started' = started \cup {entries + 1}
        /\ stored' = Logs(stored, entry) /\ dirty' = TRUE
        /\ UNCHANGED <<disk, page, connected, connecting, dialog, mine, deleted, gone, choice>>
    BY DEF ExecuteConsole, SetStored, Ready
  <1>2. /\ entries \in Nat /\ entries' \in Nat /\ entries <= entries' /\ entry.id <= entries'
        /\ stored \in Document
    BY <1>1 DEF TypeInv
  <1>3. entry \in Entry
    BY <1>2 DEF Entry
  <1>4. entry.id = entries + 1
    OBVIOUS
  <1> HIDE DEF entry
  <1>5. /\ stored' \in Document /\ stored'.profiles = stored.profiles
        /\ Made(stored.history)' /\ Len(stored'.history) <= MaxHistory
        /\ (disk # Unreadable => Made(disk.history))'
        /\ \A i \in DOMAIN stored'.history :
             \/ stored'.history[i] = entry
             \/ \E j \in DOMAIN stored.history : stored'.history[i] = stored.history[j]
    BY <1>1, <1>2, <1>3, Logged
  <1>6. TypeInv'
    BY <1>1, <1>2, <1>5 DEF TypeInv
  <1>7. HistoryInv'
    <2>1. ASSUME NEW i \in DOMAIN stored'.history,
                 stored'.history[i].status = "pending", stored'.history[i].id \in started'
          PROVE  running' = stored'.history[i].id
      <3>1. CASE stored'.history[i] = entry
        BY <1>1, <1>4, <3>1
      <3>2. ASSUME NEW j \in DOMAIN stored.history, stored'.history[i] = stored.history[j]
            PROVE  FALSE
        <4>1. stored.history \in Seq(Entry)
          BY DEF TypeInv, Document
        <4>2. stored.history[j] \in Entry
          BY <4>1
        <4>3. stored.history[j].id \in Int /\ stored.history[j].id <= entries
          BY <4>2 DEF Entry, HistoryInv, Made
        <4>4. stored.history[j].id # entries + 1
          BY <1>2, <4>3
        <4>5. running = stored.history[j].id
          BY <1>1, <2>1, <3>2, <4>4 DEF HistoryInv
        <4> QED
          BY <1>1, <4>3, <4>5, Constants
      <3> QED
        BY <1>5, <3>1, <3>2
    <2>2. running' <= entries' /\ page' # "closed"
      BY <1>1, <1>2
    <2> QED
      BY <1>5, <2>1, <2>2 DEF HistoryInv
  <1>8. DiskInv' /\ ProfilesInv' /\ DeletedInv'
    BY <1>1, <1>5, LogKeepsRest
  <1> QED
    BY <1>6, <1>7, <1>8

(* Its verdict replaces that entry, or is a new one if the history was       *)
(* cleared meanwhile.                                                        *)
LEMMA ConsoleEndsStep ==
  ASSUME Inv, ConsoleEnds
  PROVE  Inv'
  <1> USE DEF Inv
  <1> DEFINE entry == [id |-> running, status |-> "done"]
  <1>1. /\ page = "open" /\ running # None /\ running' = None
        /\ stored' = Logs(stored, entry) /\ dirty' = TRUE
        /\ UNCHANGED <<disk, page, connected, connecting, dialog, entries,
                       mine, started, deleted, gone, choice>>
    BY DEF ConsoleEnds, SetStored, history
  <1>2. /\ entries' \in Nat /\ entries <= entries' /\ entry.id <= entries'
        /\ stored \in Document /\ running \in Nat
    BY <1>1 DEF TypeInv, HistoryInv
  <1>3. entry \in Entry /\ entry.id = running /\ entry.status = "done"
    BY <1>2 DEF Entry
  <1> HIDE DEF entry
  <1>4. /\ stored' \in Document /\ stored'.profiles = stored.profiles
        /\ Made(stored.history)' /\ Len(stored'.history) <= MaxHistory
        /\ (disk # Unreadable => Made(disk.history))'
        /\ \A i \in DOMAIN stored'.history :
             \/ stored'.history[i] = entry
             \/ /\ stored'.history[i].id # entry.id
                /\ \E j \in DOMAIN stored.history : stored'.history[i] = stored.history[j]
    BY <1>1, <1>2, <1>3, Logged
  <1>5. TypeInv'
    BY <1>1, <1>2, <1>4 DEF TypeInv
  <1>6. HistoryInv'
    <2>1. \A i \in DOMAIN stored'.history :
            ~(stored'.history[i].status = "pending" /\ stored'.history[i].id \in started')
      BY <1>1, <1>3, <1>4 DEF HistoryInv
    <2> QED
      BY <1>1, <1>4, <2>1 DEF HistoryInv
  <1>7. DiskInv' /\ ProfilesInv' /\ DeletedInv'
    BY <1>1, <1>4, LogKeepsRest
  <1> QED
    BY <1>5, <1>6, <1>7

(* Answers of other commands add entries that are done, and none that says   *)
(* "pending"; some of the old ones are pushed out.                           *)
Answers(document, n) ==
  /\ document \in Document /\ document.profiles = stored.profiles
  /\ Len(document.history) <= MaxHistory /\ Distinct(document.history)
  /\ \A i \in DOMAIN document.history :
       /\ document.history[i].id <= entries + n
       /\ document.history[i].status = "pending" =>
            \E j \in DOMAIN stored.history : document.history[i] = stored.history[j]

LEMMA NoAnswerYet ==
  ASSUME TypeInv, HistoryInv
  PROVE  Answers(stored, 0)
  <1>1. stored \in Document /\ entries + 0 = entries
    BY DEF TypeInv
  <1> QED
    BY <1>1 DEF Answers, HistoryInv, Made

LEMMA OneMoreAnswer ==
  ASSUME TypeInv, NEW n \in Nat, NEW document, Answers(document, n)
  PROVE  Answers(Logs(document, Verdict(n + 1)), n + 1)
  <1> DEFINE entry == Verdict(n + 1)
             log == AddHistory(document.history, entry)
  <1>1. /\ document \in Document /\ document.history \in Seq(Entry) /\ entries \in Nat
        /\ document.profiles \in Seq(Profile) /\ document.active \in Ids \cup {Demo, None}
    BY DEF TypeInv, Answers, Document
  <1>2. /\ entry \in Entry /\ entry.status = "done"
        /\ entry.id = entries + (n + 1)
    BY <1>1 DEF Verdict, Entry
  <1> HIDE DEF entry
  <1>3. /\ log \in Seq(Entry) /\ Len(log) <= MaxHistory /\ Distinct(log)
        /\ \A i \in DOMAIN log :
             log[i] = entry \/ \E j \in DOMAIN document.history : log[i] = document.history[j]
    BY <1>1, <1>2, AddFacts DEF Answers
  <1> HIDE DEF log
  <1>4. \A i \in DOMAIN log :
          /\ log[i].id <= entries + (n + 1)
          /\ log[i].status = "pending" => \E j \in DOMAIN stored.history : log[i] = stored.history[j]
    <2> TAKE i \in DOMAIN log
    <2>1. CASE log[i] = entry
      BY <1>1, <1>2, <2>1
    <2>2. ASSUME NEW j \in DOMAIN document.history, log[i] = document.history[j]
          PROVE  /\ log[i].id <= entries + (n + 1)
                 /\ log[i].status = "pending" => \E k \in DOMAIN stored.history : log[i] = stored.history[k]
      <3>1. document.history[j] \in Entry
        BY <1>1
      <3>2. document.history[j].id \in Int /\ document.history[j].id <= entries + n
        BY <3>1 DEF Entry, Answers
      <3>3. log[i].id <= entries + (n + 1)
        BY <1>1, <2>2, <3>2
      <3> QED
        BY <2>2, <3>3 DEF Answers
    <2> QED
      BY <1>3, <2>1, <2>2
  <1>5. Logs(document, entry) =
          [profiles |-> document.profiles, active |-> document.active, history |-> log]
    BY <1>1 DEF Logs, Document, log
  <1>6. Logs(document, entry) \in Document
    BY <1>1, <1>3, <1>5 DEF Document
  <1> QED
    BY <1>3, <1>4, <1>5, <1>6 DEF Answers, entry

(* Whatever such answers did to the entry of the command that still runs.    *)
LEMMA AnsweredStep ==
  ASSUME Inv, Answered, NEW n \in Nat, entries' = entries + n,
         Answers(stored', n), dirty' = TRUE
  PROVE  Inv'
  <1> USE DEF Inv
  <1>1. /\ page = "open"
        /\ UNCHANGED <<disk, page, connected, connecting, running, dialog,
                       mine, started, deleted, gone, choice>>
    BY DEF Answered, history
  <1>2. /\ entries \in Nat /\ entries' \in Nat /\ entries <= entries'
        /\ stored' \in Document /\ stored'.profiles = stored.profiles
    BY DEF TypeInv, Answers
  <1>3. TypeInv'
    BY <1>1, <1>2 DEF TypeInv
  <1>4. HistoryInv'
    <2>1. Made(stored.history)' /\ Len(stored'.history) <= MaxHistory
      BY DEF Answers, Made
    <2>2. (disk # Unreadable => Made(disk.history))'
      BY <1>1, <1>2, DiskStaysMade
    <2>3. (running # None => running <= entries)'
      BY <1>1, <1>2 DEF HistoryInv, TypeInv
    <2>4. \A i \in DOMAIN stored'.history :
            stored'.history[i].status = "pending" /\ stored'.history[i].id \in started =>
              running = stored'.history[i].id
      BY DEF Answers, HistoryInv
    <2> QED
      BY <1>1, <2>1, <2>2, <2>3, <2>4 DEF HistoryInv
  <1>5. DiskInv' /\ ProfilesInv' /\ DeletedInv'
    BY <1>1, <1>2, LogKeepsRest
  <1> QED
    BY <1>3, <1>4, <1>5

LEMMA RunQuickStep ==
  ASSUME Inv, RunQuick
  PROVE  Inv'
  <1>1. Answers(Logs(stored, Verdict(1)), 1)
    BY NoAnswerYet, OneMoreAnswer DEF Inv
  <1> QED
    BY <1>1, AnsweredStep DEF RunQuick, SetStored

LEMMA StageGameModeStep ==
  ASSUME Inv, StageGameMode
  PROVE  Inv'
  <1>1. Answers(Logs(stored, Verdict(1)), 1)
    BY NoAnswerYet, OneMoreAnswer DEF Inv
  <1>2. Answers(Logs(Logs(stored, Verdict(1)), Verdict(2)), 2)
    BY <1>1, OneMoreAnswer DEF Inv
  <1> QED
    BY <1>2, AnsweredStep DEF StageGameMode, SetStored

-----------------------------------------------------------------------------
(* Steps that change the document.                                           *)

(* switchProfile() of a profile without a password.                          *)
LEMMA SelectProfileStep ==
  ASSUME Inv, NEW i \in DOMAIN stored.profiles, SelectProfile(stored.profiles[i])
  PROVE  Inv'
  <1> USE DEF Inv
  <1> DEFINE id == stored.profiles[i].id
  <1>1. /\ stored' = [stored EXCEPT !.active = id] /\ dirty' = TRUE
        /\ running' = None /\ started' = {} /\ connected' = FALSE /\ dialog' = None
        /\ connecting' = None
        /\ UNCHANGED <<disk, page, entries, mine, deleted, gone, choice>>
    BY DEF SelectProfile, EndSession, SetStored
  <1>2. id \in Ids
    BY ActiveFacts DEF IdsOf
  <1> HIDE DEF id
  <1>3. stored \in Document
    BY DEF TypeInv
  <1>4. /\ stored' \in Document /\ stored'.profiles = stored.profiles
        /\ stored'.history = stored.history
    BY <1>1, <1>2, <1>3 DEF Document
  <1>5. TypeInv'
    BY <1>1, <1>4 DEF TypeInv
  <1>6. HistoryInv'
    BY <1>1, <1>4, HistoryKept
  <1>7. DiskInv' /\ ProfilesInv' /\ DeletedInv'
    BY <1>1, <1>4, LogKeepsRest
  <1> QED
    BY <1>5, <1>6, <1>7

(* clearConsole().                                                           *)
LEMMA ClearConsoleStep ==
  ASSUME Inv, ClearConsole
  PROVE  Inv'
  <1> USE DEF Inv
  <1>1. /\ stored' = [stored EXCEPT !.history = <<>>] /\ dirty' = TRUE
        /\ UNCHANGED <<disk, page, connected, connecting, running, dialog, entries,
                       mine, started, deleted, gone, choice>>
    BY DEF ClearConsole, SetStored, history
  <1>2. stored \in Document /\ <<>> \in Seq(Entry)
    BY DEF TypeInv
  <1>3. /\ stored' \in Document /\ stored'.profiles = stored.profiles
        /\ stored'.history = <<>>
    BY <1>1, <1>2 DEF Document
  <1>4. TypeInv'
    BY <1>1, <1>3 DEF TypeInv
  <1>5. HistoryInv'
    <2>1. Made(stored.history)' /\ Len(stored'.history) <= MaxHistory
      BY <1>3, Constants DEF Made, Distinct
    <2>2. (disk # Unreadable => Made(disk.history))'
      BY <1>1 DEF HistoryInv, Made
    <2> QED
      BY <1>1, <1>3, <2>1, <2>2 DEF HistoryInv
  <1>6. DiskInv' /\ ProfilesInv' /\ DeletedInv'
    BY <1>1, <1>3, LogKeepsRest
  <1> QED
    BY <1>4, <1>5, <1>6

(* The form's profile stands first, with the password only if it asked for   *)
(* that; it has not been deleted since the form was submitted.               *)
LEMMA SaveProfileStep ==
  ASSUME Inv, SaveProfile
  PROVE  Inv'
  <1> USE DEF Inv
  <1> DEFINE new == connecting
             profile == [id |-> new.id, remember |-> new.remember, password |-> new.remember]
             rest == Others(stored.profiles, new.id)
             profiles == <<profile>> \o rest
  <1>1. /\ page = "open" /\ connecting # None /\ connecting.done
        /\ stored' = [stored EXCEPT !.active = new.id, !.profiles = profiles]
        /\ dirty' = TRUE /\ connecting' = None
        /\ choice' = IF new.remember THEN choice \cup {new.id} ELSE choice \ {new.id}
        /\ UNCHANGED <<disk, page, connected, running, dialog, entries,
                       mine, started, deleted, gone>>
    BY DEF SaveProfile, SetStored, SavedProfile
  <1>2. /\ stored \in Document /\ stored.profiles \in Seq(Profile)
        /\ new.id \in Ids /\ new.remember \in BOOLEAN
    BY <1>1 DEF TypeInv, Document, Connection
  <1>3. /\ rest \in Seq(Profile)
        /\ \A i \in DOMAIN rest : /\ rest[i].id # new.id
                                  /\ \E j \in DOMAIN stored.profiles : rest[i] = stored.profiles[j]
    BY <1>2, OthersFacts
  <1>4. profile \in Profile
    BY <1>2 DEF Profile
  <1>5. /\ profile.id = new.id /\ profile.password = new.remember
        /\ profile.remember = new.remember
    OBVIOUS
  <1> HIDE DEF profile, rest
  <1>6. profiles \in Seq(Profile)
    BY <1>3, <1>4
  <1>7. \A i \in DOMAIN profiles :
          \/ profiles[i] = profile
          \/ /\ profiles[i].id # new.id
             /\ \E j \in DOMAIN stored.profiles : profiles[i] = stored.profiles[j]
    <2>1. \A i \in DOMAIN profiles : \/ profiles[i] = profile
                                     \/ i - 1 \in DOMAIN rest /\ profiles[i] = rest[i - 1]
      BY <1>3, <1>4
    <2> QED
      BY <1>3, <2>1
  <1> HIDE DEF profiles
  <1>8. /\ stored' \in Document /\ stored'.profiles = profiles
        /\ stored'.history = stored.history
    BY <1>1, <1>2, <1>6 DEF Document
  <1>9. TypeInv'
    BY <1>1, <1>8 DEF TypeInv
  <1>10. DiskInv'
    BY <1>1 DEF DiskInv, Settled
  <1>11. ProfilesInv'
    <2> SUFFICES ASSUME NEW i \in DOMAIN profiles
                 PROVE  /\ profiles[i].id # Demo
                        /\ profiles[i].password =>
                             profiles[i].remember /\ profiles[i].id \in choice'
      BY <1>8 DEF ProfilesInv
    <2>1. CASE profiles[i] = profile
      BY <1>1, <1>2, <1>5, <2>1, Constants
    <2>2. CASE /\ profiles[i].id # new.id
               /\ \E j \in DOMAIN stored.profiles : profiles[i] = stored.profiles[j]
      BY <1>1, <2>2 DEF ProfilesInv
    <2> QED
      BY <1>7, <2>1, <2>2
  <1>12. HistoryInv'
    BY <1>1, <1>8, HistoryKept
  <1>13. DeletedInv'
    <2>1. IdsOf(stored') \subseteq IdsOf(stored) \cup {new.id}
      BY <1>5, <1>7, <1>8 DEF IdsOf
    <2>2. new.id \notin gone
      BY <1>1 DEF DeletedInv
    <2>3. DeletedStaysDeleted'
      BY <1>1, <2>1, <2>2 DEF DeletedInv, DeletedStaysDeleted, OnDisk
    <2> QED
      BY <1>1, <2>3 DEF DeletedInv
  <1> QED
    BY <1>9, <1>10, <1>11, <1>12, <1>13

(* A profile leaves the document; one that the form is saving is excepted.   *)
LEMMA ConfirmDeleteStep ==
  ASSUME Inv, ConfirmDelete
  PROVE  Inv'
  <1> USE DEF Inv
  <1> DEFINE id == dialog.id
             rest == Others(stored.profiles, id)
             active == IF stored.active = id THEN None ELSE stored.active
  <1>1. /\ page = "open" /\ dialog # None
        /\ stored' = [stored EXCEPT !.active = active, !.profiles = rest] /\ dirty' = TRUE
        /\ dialog' = None
        /\ UNCHANGED <<disk, page, entries, mine, gone, choice>>
        /\ \/ /\ running' = None /\ started' = {} /\ connected' = FALSE /\ connecting' = None
              /\ deleted' = deleted \cup {id}
           \/ /\ UNCHANGED <<connected, connecting, running, started>>
              /\ deleted' = IF BeingSaved(id) THEN deleted ELSE deleted \cup {id}
    BY DEF ConfirmDelete, SetStored, EndSession, Ready, Without
  <1>2. /\ stored \in Document /\ stored.profiles \in Seq(Profile)
        /\ stored.active \in Ids \cup {Demo, None}
    BY DEF TypeInv, Document
  <1>3. /\ rest \in Seq(Profile)
        /\ \A i \in DOMAIN rest : \E j \in DOMAIN stored.profiles : rest[i] = stored.profiles[j]
    BY <1>2, OthersFacts
  <1>4. active \in Ids \cup {Demo, None}
    BY <1>2
  <1> HIDE DEF id, rest, active
  <1>5. /\ stored' \in Document /\ stored'.profiles = rest
        /\ stored'.history = stored.history
    BY <1>1, <1>2, <1>3, <1>4 DEF Document
  <1>6. TypeInv'
    BY <1>1, <1>5 DEF TypeInv
  <1>7. DiskInv'
    BY <1>1 DEF DiskInv, Settled
  <1>8. ProfilesInv'
    BY <1>1, <1>3, <1>5 DEF ProfilesInv
  <1>9. HistoryInv'
    BY <1>1, <1>5, HistoryKept
  <1>10. DeletedInv'
    <2>1. IdsOf(stored') \subseteq IdsOf(stored)
      BY <1>3, <1>5 DEF IdsOf
    <2>2. DeletedStaysDeleted'
      BY <1>1, <2>1, DeletedKept DEF DeletedInv
    <2>3. CASE connecting' = None
      BY <2>2, <2>3 DEF DeletedInv
    <2>4. CASE /\ UNCHANGED connecting
               /\ deleted' = IF BeingSaved(id) THEN deleted ELSE deleted \cup {id}
      BY <1>1, <2>2, <2>4 DEF DeletedInv, BeingSaved
    <2> QED
      BY <1>1, <2>3, <2>4
  <1> QED
    BY <1>6, <1>7, <1>8, <1>9, <1>10

(* "Clear all local data".                                                   *)
LEMMA ConfirmClearStep ==
  ASSUME Inv, ConfirmClear
  PROVE  Inv'
  <1> USE DEF Inv
  <1>1. /\ stored' = Default /\ dirty' = TRUE
        /\ running' = None /\ started' = {} /\ connected' = FALSE /\ dialog' = None
        /\ connecting' = None /\ deleted' = Ids
        /\ UNCHANGED <<disk, page, entries, mine, gone, choice>>
    BY DEF ConfirmClear, EndSession, CancelsConnection, SetStored
  <1>2. stored'.profiles = <<>> /\ stored'.history = <<>>
    BY <1>1 DEF Default
  <1>3. TypeInv'
    BY <1>1, Constants DEF TypeInv
  <1>4. DiskInv'
    BY <1>1 DEF DiskInv, Settled
  <1>5. ProfilesInv'
    BY <1>2 DEF ProfilesInv
  <1>6. HistoryInv'
    <2>1. Made(stored.history)' /\ Len(stored'.history) <= MaxHistory
      BY <1>2, Constants DEF Made, Distinct
    <2>2. (disk # Unreadable => Made(disk.history))'
      BY <1>1 DEF HistoryInv, Made
    <2> QED
      BY <1>1, <1>2, <2>1, <2>2 DEF HistoryInv
  <1>7. DeletedInv'
    <2>1. IdsOf(stored') = {}
      BY <1>2 DEF IdsOf
    <2> QED
      BY <1>1, <2>1, DeletedKept DEF DeletedInv
  <1> QED
    BY <1>3, <1>4, <1>5, <1>6, <1>7

-----------------------------------------------------------------------------
(* The theorems.                                                             *)

LEMMA ProfileStep ==
  ASSUME Inv, NEW i \in DOMAIN stored.profiles,
         \/ SelectProfile(stored.profiles[i])
         \/ SwitchProfile(stored.profiles[i])
         \/ OpenDialog(stored.profiles[i].id)
  PROVE  Inv'
  <1>1. stored.profiles[i].id \in IdsOf(stored) \cup {None}
    BY DEF IdsOf
  <1> QED
    BY <1>1, SelectProfileStep, SwitchProfileStep, OpenDialogStep

LEMMA NextInv == Inv /\ [Next]_vars => Inv'
  <1> SUFFICES ASSUME Inv, [Next]_vars PROVE Inv'
    OBVIOUS
  <1>1. CASE UNCHANGED vars
    <2>1. UNCHANGED <<disk, page, stored, dirty, connected, connecting, running, dialog,
                      entries, mine, started, deleted, gone, choice>>
      BY <1>1 DEF vars, pages, history
    <2> QED
      BY <2>1, QuietStep DEF Inv, TypeInv
  <1>2. CASE Open \/ Hydrate \/ Save \/ OtherTabSaves \/ Close \/ ChangeOption
    BY <1>2, OpenStep, HydrateStep, SaveStep, OtherTabStep, CloseStep, ChangeOptionStep
  <1>3. CASE Disconnect \/ ConnectDemo
    BY <1>3, DisconnectStep, ConnectDemoStep
  <1>4. CASE \E i \in DOMAIN stored.profiles :
               \/ SelectProfile(stored.profiles[i])
               \/ SwitchProfile(stored.profiles[i])
               \/ OpenDialog(stored.profiles[i].id)
    BY <1>4, ProfileStep
  <1>5. CASE \E id \in Ids, remember \in BOOLEAN : Connect(id, TRUE, remember)
    BY <1>5, ConnectStep
  <1>6. CASE ConnectSucceeds \/ ConnectFails \/ SaveProfile
    BY <1>6, ConnectSucceedsStep, ConnectFailsStep, SaveProfileStep
  <1>7. CASE ExecuteConsole \/ ConsoleEnds \/ ClearConsole
    BY <1>7, ExecuteConsoleStep, ConsoleEndsStep, ClearConsoleStep
  <1>8. CASE RunQuick \/ StageGameMode
    BY <1>8, RunQuickStep, StageGameModeStep
  <1>9. CASE OpenDialog(None) \/ CancelDialog \/ ConfirmDelete \/ ConfirmClear
    BY <1>9, OpenDialogStep, CancelDialogStep, ConfirmDeleteStep, ConfirmClearStep
  <1> QED
    BY <1>1, <1>2, <1>3, <1>4, <1>5, <1>6, <1>7, <1>8, <1>9 DEF Next

LEMMA AlwaysInv == Spec => []Inv
  BY InitInv, NextInv, PTL DEF Spec

(* Reloading a tab whose last change was written shows what it showed: the   *)
(* document that loadStoredState makes of the one on the disk is the same,   *)
(* for the active profile's sake up to an id that names no profile           *)
(* (storage.ts lines 41-65; dashboard lines 242-244).                        *)
THEOREM ReloadAlwaysRestores == Spec => []ReloadRestores
  <1>1. Inv => ReloadRestores
    <2> SUFFICES ASSUME Inv, Settled, Len(stored.profiles) <= MaxProfiles
                 PROVE  LoadStoredState(stored) = Shows(stored)
      BY DEF ReloadRestores, Inv, DiskInv
    <2> DEFINE valid == First(Others(stored.profiles, Demo), MaxProfiles)
               ids == {valid[i].id : i \in DOMAIN valid}
    <2>1. /\ stored \in Document /\ stored # Unreadable
          /\ stored.profiles \in Seq(Profile) /\ stored.history \in Seq(Entry)
      BY Constants DEF Inv, TypeInv, Document
    <2>2. Others(stored.profiles, Demo) = stored.profiles
      BY <2>1, OthersAll DEF Inv, ProfilesInv
    <2>3. valid = stored.profiles
      BY <2>1, <2>2, Constants, FirstFacts
    <2>4. First(stored.history, MaxHistory) = stored.history
      BY <2>1, Constants, FirstFacts DEF Inv, HistoryInv
    <2>5. LoadStoredState(stored) =
            [profiles |-> [i \in DOMAIN valid |-> LoadedProfile(valid[i])],
             active |-> IF stored.active \in ids THEN stored.active ELSE None,
             history |-> First(stored.history, MaxHistory)]
      BY <2>1 DEF LoadStoredState
    <2>6. ids = IdsOf(stored)
      BY <2>3 DEF IdsOf
    <2> HIDE DEF valid, ids
    <2>7. \A i \in DOMAIN stored.profiles : LoadedProfile(stored.profiles[i]) = stored.profiles[i]
      <3> TAKE i \in DOMAIN stored.profiles
      <3>1. stored.profiles[i] \in Profile
        BY <2>1
      <3>2. stored.profiles[i].password => stored.profiles[i].remember
        BY DEF Inv, ProfilesInv
      <3> QED
        BY <3>1, <3>2 DEF LoadedProfile, Profile
    <2>8. [i \in DOMAIN valid |-> LoadedProfile(valid[i])] = stored.profiles
      BY <2>1, <2>3, <2>7
    <2>9. LoadStoredState(stored) = [profiles |-> stored.profiles,
                                     active |-> ActiveOf(stored),
                                     history |-> stored.history]
      BY <2>4, <2>5, <2>6, <2>8 DEF ActiveOf
    <2>10. Shows(stored) = [profiles |-> stored.profiles,
                            active |-> ActiveOf(stored),
                            history |-> stored.history]
      <3>1. \A document \in Document : \A active :
              [document EXCEPT !.active = active] =
                [profiles |-> document.profiles, active |-> active, history |-> document.history]
        BY DEF Document
      <3> QED
        BY <2>1, <3>1 DEF Shows
    <2> QED
      BY <2>9, <2>10
  <1> QED
    BY <1>1, AlwaysInv, PTL

(* A password is on the disk only if the user's last choice for that profile *)
(* was to remember it (storage.ts lines 47-51; dashboard lines 381-397).     *)
THEOREM PasswordsAlwaysByConsent == Spec => []PasswordsKeptByConsent
  <1>1. Inv => PasswordsKeptByConsent
    BY DEF Inv, DiskInv, ProfilesInv, PasswordsKeptByConsent
  <1> QED
    BY <1>1, AlwaysInv, PTL

(* No entry of the current session says "pending" but that of the command    *)
(* that runs, and none is there twice, whatever was cleared, came from an    *)
(* earlier page or was added by the answers of other commands meanwhile      *)
(* (dashboard lines 308-336, 471-488 and 508-525).                           *)
THEOREM EntriesAlwaysTellTheTruth == Spec => []EntriesTellTheTruth
  <1>1. Inv => EntriesTellTheTruth
    BY DEF Inv, HistoryInv, Made, EntriesTellTheTruth
  <1> QED
    BY <1>1, AlwaysInv, PTL

(* A profile whose deletion reached the disk comes back neither in memory    *)
(* nor after a reload (dashboard lines 381-397 and 859-888).                 *)
THEOREM DeletedAlwaysStaysDeleted == Spec => []DeletedStaysDeleted
  <1>1. Inv => DeletedStaysDeleted
    BY DEF Inv, DeletedInv
  <1> QED
    BY <1>1, AlwaysInv, PTL
=============================================================================
