------------------------- MODULE HelperRoute_proofs -------------------------
(* Theorems about HelperRoute, for any number of requests, targets and slots *)
(* and any window: what holds of password guesses although a bucket may be   *)
(* deleted while it is in use.                                               *)
EXTENDS HelperRoute, FiniteSetTheorems, TLAPS

Buckets == [Targets -> Bucket \cup {NoBucket}]

TypeInv ==
  /\ now \in Nat /\ limits \in Buckets
  /\ step \in [Requests -> Steps] /\ begun \in [Requests -> Nat]
  /\ target \in [Requests -> Targets \cup {NoBucket}]
  /\ detached \in [Requests -> BOOLEAN]

(* A request points to a bucket exactly while it executes.                   *)
PointersInv ==
  \A r \in Requests : /\ target[r] # NoBucket <=> step[r] = "execute"
                      /\ detached[r] => step[r] = "execute"

(* The context ends an attempt in time.                                      *)
TimeInv ==
  \A r \in Requests :
    step[r] \in {"dns", "execute"} => begun[r] <= now /\ now <= begun[r] + Timeout

(* What is in the map in place of a deleted bucket was made after the        *)
(* attempts on the deleted one began.                                        *)
SuccessorInv ==
  \A r \in Requests :
    detached[r] => \/ limits[target[r]] = NoBucket
                   \/ begun[r] <= limits[target[r]].started

GuessesOK(map, key, holders) ==
  IF map[key] = NoBucket THEN holders = {}
  ELSE /\ Cardinality(holders) <= map[key].requests
       /\ map[key].failures + Cardinality(holders) < MaxFailures + Slots

Inv == /\ TypeInv /\ PointersInv /\ TimeInv /\ SuccessorInv
       /\ Cardinality(Busy) <= Slots
       /\ \A key \in Targets : GuessesOK(limits, key, Holders(key))

-----------------------------------------------------------------------------
LEMMA LimitTypes ==
  /\ Slots \in Nat \ {0} /\ Window \in Nat \ {0} /\ Timeout \in Nat \ {0}
  /\ MaxRequests \in Nat \ {0} /\ MaxFailures \in Nat \ {0}
  /\ NoBucket \notin Bucket /\ NoBucket \notin Targets
  BY HelperRouteAssumption

(* Sets of requests are finite and change by one at a time.                  *)
LEMMA Counting ==
  ASSUME NEW S \in SUBSET Requests, NEW r \in Requests
  PROVE  /\ IsFiniteSet(S) /\ Cardinality(S) \in Nat
         /\ r \notin S => Cardinality(S \cup {r}) = Cardinality(S) + 1
         /\ r \in S => Cardinality(S \ {r}) = Cardinality(S) - 1
         /\ Cardinality(S \ {r}) <= Cardinality(S)
  <1>1. IsFiniteSet(S) /\ Cardinality(S) \in Nat
    BY HelperRouteAssumption, FS_Subset, FS_CardinalityType
  <1>2. r \notin S => Cardinality(S \cup {r}) = Cardinality(S) + 1
    BY <1>1, FS_AddElement
  <1>3. r \in S => Cardinality(S \ {r}) = Cardinality(S) - 1
    BY <1>1, FS_RemoveElement
  <1>4. r \notin S => S \ {r} = S
    OBVIOUS
  <1>5. QED
    BY <1>1, <1>2, <1>3, <1>4

LEMMA FewerCount ==
  ASSUME NEW T \in SUBSET Requests, NEW S \in SUBSET T
  PROVE  /\ Cardinality(S) \in Nat /\ Cardinality(T) \in Nat
         /\ Cardinality(S) <= Cardinality(T)
  <1>1. IsFiniteSet(S) /\ IsFiniteSet(T)
    BY HelperRouteAssumption, FS_Subset
  <1>2. QED
    BY <1>1, FS_Subset, FS_CardinalityType

(* The sweep deletes buckets and changes none it keeps.                      *)
LEMMA SweepFacts ==
  ASSUME TypeInv
  PROVE  /\ Swept \in Buckets
         /\ \A key \in Targets : Swept[key] \in {limits[key], NoBucket}
  BY DEF TypeInv, Swept, Buckets

LEMMA InitInv == Init => Inv
  <1> SUFFICES ASSUME Init PROVE Inv
    OBVIOUS
  <1>1. TypeInv /\ PointersInv /\ TimeInv /\ SuccessorInv
    BY LimitTypes DEF Init, TypeInv, PointersInv, TimeInv, SuccessorInv, Buckets, Steps
  <1>2. Busy = {} /\ \A key \in Targets : Holders(key) = {}
    BY LimitTypes DEF Init, Busy, Holders
  <1>3. Cardinality(Busy) <= Slots
    BY <1>2, FS_EmptySet, LimitTypes
  <1>4. QED
    BY <1>1, <1>2, <1>3 DEF Init, Inv, GuessesOK

-----------------------------------------------------------------------------
LEMMA TickStep ==
  ASSUME Inv, Tick
  PROVE  Inv'
  <1>1. TypeInv' /\ PointersInv' /\ SuccessorInv'
    BY DEF Inv, Tick, TypeInv, PointersInv, SuccessorInv
  <1>2. TimeInv'
    BY LimitTypes DEF Inv, Tick, InTime, TimeInv, TypeInv
  <1>3. Busy' = Busy /\ \A key \in Targets : Holders(key)' = Holders(key)
    BY DEF Tick, Busy, Holders
  <1>4. QED
    BY <1>1, <1>2, <1>3 DEF Inv, Tick, GuessesOK

(* A response frees the slot and the bucket, whatever was counted on the way *)
(* as long as it fits what is left.                                          *)
LEMMA Responded ==
  ASSUME Inv, NEW r \in Requests, Respond(r), UNCHANGED now, limits' \in Buckets,
         \A key \in Targets : GuessesOK(limits', key, Holders(key) \ {r}),
         \A key \in Targets : \/ limits'[key] = limits[key]
                              \/ /\ limits[key] # NoBucket /\ limits'[key] # NoBucket
                                 /\ limits'[key].started = limits[key].started
  PROVE  Inv'
  <1>1. TypeInv' /\ PointersInv' /\ TimeInv'
    BY LimitTypes DEF Inv, Respond, TypeInv, PointersInv, TimeInv, Steps
  <1>2. SuccessorInv'
    BY DEF Inv, Respond, TypeInv, SuccessorInv, PointersInv
  <1>3. Busy' = Busy \ {r} /\ \A key \in Targets : Holders(key)' = Holders(key) \ {r}
    BY LimitTypes DEF Inv, TypeInv, Respond, Busy, Holders
  <1>4. Cardinality(Busy)' <= Slots
    <2>1. /\ Busy \in SUBSET Requests /\ Cardinality(Busy) <= Slots
      BY DEF Busy, Inv
    <2>2. Busy \ {r} \in SUBSET Requests
      BY <2>1
    <2>3. /\ Cardinality(Busy) \in Nat /\ Cardinality(Busy \ {r}) \in Nat
          /\ Cardinality(Busy \ {r}) <= Cardinality(Busy)
      BY <2>1, <2>2, Counting
    <2>4. QED
      BY <1>3, <2>1, <2>3, LimitTypes
  <1>5. QED
    BY <1>1, <1>2, <1>3, <1>4 DEF Inv, GuessesOK

(* What a response without a new failure leaves is less than there was.      *)
LEMMA Lessened ==
  ASSUME Inv, NEW r \in Requests, NEW key \in Targets
  PROVE  GuessesOK(limits, key, Holders(key) \ {r})
  <1>1. Holders(key) \in SUBSET Requests /\ Holders(key) \ {r} \in SUBSET Requests
    BY DEF Holders
  <1>2. /\ Cardinality(Holders(key)) \in Nat /\ Cardinality(Holders(key) \ {r}) \in Nat
        /\ Cardinality(Holders(key) \ {r}) <= Cardinality(Holders(key))
    BY <1>1, Counting
  <1>3. limits[key] \in Bucket \cup {NoBucket}
    BY DEF Inv, TypeInv, Buckets
  <1>4. QED
    BY <1>2, <1>3, LimitTypes DEF Inv, GuessesOK, Bucket

LEMMA QuietResponse ==
  ASSUME Inv, NEW r \in Requests, Respond(r), UNCHANGED <<now, limits>>
  PROVE  Inv'
  BY Lessened, Responded DEF Inv, TypeInv

LEMMA ArriveStep ==
  ASSUME Inv, NEW r \in Requests, Arrive(r)
  PROVE  Inv'
  <1>1. TypeInv' /\ PointersInv' /\ TimeInv' /\ SuccessorInv'
    BY DEF Inv, Arrive, TypeInv, PointersInv, TimeInv, SuccessorInv, Steps
  <1>2. /\ Busy' = Busy \cup {r} /\ r \notin Busy
        /\ \A key \in Targets : Holders(key)' = Holders(key)
    BY DEF Inv, TypeInv, Arrive, Busy, Holders
  <1>3. Cardinality(Busy)' <= Slots
    <2>1. Busy \in SUBSET Requests
      BY DEF Busy
    <2>2. Cardinality(Busy) \in Nat /\ Cardinality(Busy \cup {r}) = Cardinality(Busy) + 1
      BY <1>2, <2>1, Counting
    <2>3. QED
      BY <1>2, <2>2, LimitTypes DEF Arrive
  <1>4. QED
    BY <1>1, <1>2, <1>3 DEF Inv, Arrive, GuessesOK

LEMMA BodyStep ==
  ASSUME Inv, NEW r \in Requests, Body(r)
  PROVE  Inv'
  <1>1. CASE Respond(r)
    BY <1>1, QuietResponse DEF Body
  <1>2. CASE /\ step' = [step EXCEPT ![r] = "dns"] /\ begun' = [begun EXCEPT ![r] = now]
             /\ UNCHANGED <<target, detached>>
    <2>1. TypeInv' /\ PointersInv' /\ TimeInv' /\ SuccessorInv'
      BY <1>2, LimitTypes
      DEF Inv, Body, TypeInv, PointersInv, TimeInv, SuccessorInv, Steps
    <2>2. Busy' = Busy /\ \A key \in Targets : Holders(key)' = Holders(key)
      BY <1>2 DEF Inv, TypeInv, Body, Busy, Holders
    <2>3. QED
      BY <2>1, <2>2 DEF Inv, Body, GuessesOK
  <1>3. QED
    BY <1>1, <1>2 DEF Body

-----------------------------------------------------------------------------
(* A wrong password is counted while its slot is still held.                 *)
LEMMA AuthFailedStep ==
  ASSUME Inv, NEW r \in Requests, AuthFailed(r)
  PROVE  Inv'
  <1>1. CASE detached[r]
    BY <1>1, QuietResponse DEF AuthFailed, AfterFailure
  <1>2. CASE ~detached[r]
    <2> DEFINE key == target[r]
               b   == [limits[key] EXCEPT !.failures = @ + 1]
    <2>1. key \in Targets /\ r \in Holders(key)
      BY <1>2, LimitTypes DEF AuthFailed, Inv, PointersInv, TypeInv, Holders
    <2>2. limits[key] \in Bucket
      BY <2>1 DEF Inv, GuessesOK, TypeInv, Buckets
    <2>3. /\ b \in Bucket /\ b # NoBucket /\ b.failures = limits[key].failures + 1
          /\ b.requests = limits[key].requests /\ b.started = limits[key].started
      BY <2>2, LimitTypes DEF Bucket
    <2>4. limits' = [limits EXCEPT ![key] = b]
      BY <1>2 DEF AuthFailed, AfterFailure
    <2>5. limits \in Buckets
      BY DEF Inv, TypeInv
    <2>6. /\ limits' \in Buckets /\ limits'[key] = b
          /\ \A k \in Targets \ {key} : limits'[k] = limits[k]
      BY <2>1, <2>3, <2>4, <2>5 DEF Buckets
    <2>7. GuessesOK(limits', key, Holders(key) \ {r})
      <3>1. Holders(key) \in SUBSET Requests
        BY DEF Holders
      <3>2. Cardinality(Holders(key)) \in Nat
            /\ Cardinality(Holders(key) \ {r}) = Cardinality(Holders(key)) - 1
        BY <2>1, <3>1, Counting
      <3>3. /\ Cardinality(Holders(key)) <= limits[key].requests
            /\ limits[key].failures + Cardinality(Holders(key)) < MaxFailures + Slots
        BY <2>1, <2>2, LimitTypes DEF Inv, GuessesOK
      <3>4. limits[key].failures \in Nat /\ limits[key].requests \in Nat
        BY <2>2 DEF Bucket
      <3> HIDE DEF b, key
      <3>5. QED
        BY <2>3, <2>6, <3>2, <3>3, <3>4, LimitTypes DEF GuessesOK
    <2>8. \A k \in Targets \ {key} : GuessesOK(limits', k, Holders(k) \ {r})
      BY <2>6, Lessened DEF GuessesOK
    <2>9. \A k \in Targets : GuessesOK(limits', k, Holders(k) \ {r})
      BY <2>7, <2>8
    <2>10. \A k \in Targets : \/ limits'[k] = limits[k]
                              \/ /\ limits[k] # NoBucket /\ limits'[k] # NoBucket
                                 /\ limits'[k].started = limits[k].started
      BY <2>2, <2>3, <2>6, LimitTypes
    <2>11. QED
      BY <2>6, <2>9, <2>10, Responded DEF AuthFailed
  <1>3. QED
    BY <1>1, <1>2

-----------------------------------------------------------------------------
(* The critical section: the sweep detaches whoever holds what it deletes,   *)
(* and only a bucket below both limits takes another attempt.                *)
LEMMA AcquireStep ==
  ASSUME Inv, NEW r \in Requests, NEW key \in Targets, Acquire(r, key)
  PROVE  Inv'
  <1> DEFINE bucket == IF Swept[key] # NoBucket THEN Swept[key]
                       ELSE [started |-> now, requests |-> 0, failures |-> 0]
             orphaned == [s \in Requests |->
                            detached[s] \/ (target[s] # NoBucket /\ Swept[target[s]] = NoBucket)]
             charged == [bucket EXCEPT !.requests = @ + 1]
  <1>1. /\ Swept \in Buckets /\ now \in Nat
        /\ \A k \in Targets : Swept[k] \in {limits[k], NoBucket}
    BY SweepFacts DEF Inv, TypeInv
  <1>2. /\ bucket \in Bucket
        /\ \/ Swept[key] # NoBucket /\ bucket = Swept[key]
           \/ /\ Swept[key] = NoBucket /\ bucket.started = now
              /\ bucket.requests = 0 /\ bucket.failures = 0
    BY <1>1 DEF Buckets, Bucket
  <1>3. /\ charged \in Bucket /\ charged.started = bucket.started
        /\ charged.failures = bucket.failures /\ charged.requests = bucket.requests + 1
    BY <1>2 DEF Bucket
  <1>4. /\ step[r] = "dns" /\ target[r] = NoBucket /\ ~detached[r]
        /\ now' = now /\ detached' = orphaned
    BY DEF Acquire, Inv, PointersInv
  <1>5. \/ /\ limits' = Swept \/ limits' = [Swept EXCEPT ![key] = bucket]
           /\ step' = [step EXCEPT ![r] = "idle"] /\ begun' = [begun EXCEPT ![r] = 0]
           /\ target' = target
        \/ /\ ~Blocked(bucket) /\ limits' = [Swept EXCEPT ![key] = charged]
           /\ step' = [step EXCEPT ![r] = "execute"]
           /\ target' = [target EXCEPT ![r] = key] /\ begun' = begun
    BY DEF Acquire
  <1>6. /\ limits' \in Buckets
        /\ \A k \in Targets \ {key} : limits'[k] = Swept[k]
        /\ \/ limits'[key] = Swept[key]
           \/ limits'[key] # NoBucket /\ limits'[key].started = bucket.started
    <2> HIDE DEF bucket, charged
    <2>1. QED
      BY <1>1, <1>2, <1>3, <1>5, LimitTypes DEF Buckets
  <1>7. \A s \in Requests : orphaned[s] =
          (detached[s] \/ (target[s] # NoBucket /\ Swept[target[s]] = NoBucket))
    OBVIOUS
  <1> HIDE DEF orphaned
  <1>8. ~orphaned[r]
    BY <1>4, <1>7
  <1>9. TypeInv'
    BY <1>4, <1>5, <1>6 DEF Inv, TypeInv, orphaned, Steps
  <1>10. PointersInv'
    BY <1>4, <1>5, <1>7, <1>8, LimitTypes DEF Inv, PointersInv, TypeInv
  <1>11. TimeInv'
    BY <1>4, <1>5 DEF Inv, TimeInv, TypeInv
  <1>12. SuccessorInv'
    <2> SUFFICES ASSUME NEW s \in Requests, detached'[s]
                 PROVE  \/ limits'[target'[s]] = NoBucket
                        \/ begun'[s] <= limits'[target'[s]].started
      BY DEF SuccessorInv
    <2>1. s # r /\ target'[s] = target[s] /\ begun'[s] = begun[s]
      BY <1>4, <1>5, <1>8 DEF Inv, TypeInv
    <2>2. target[s] \in Targets /\ begun[s] \in Nat /\ begun[s] <= now
      BY <1>4, <1>7, LimitTypes DEF Inv, PointersInv, TypeInv, TimeInv
    <2>3. \/ Swept[target[s]] = NoBucket
          \/ begun[s] <= Swept[target[s]].started
      BY <1>1, <1>4, <1>7, <2>2 DEF Inv, SuccessorInv
    <2> HIDE DEF bucket
    <2>4. CASE target[s] # key
      BY <1>6, <2>1, <2>2, <2>3, <2>4
    <2>5. CASE target[s] = key
      BY <1>2, <1>6, <2>1, <2>2, <2>3, <2>5
    <2>6. QED
      BY <2>4, <2>5
  <1>13. Cardinality(Busy') <= Slots
    <2>1. Busy \in SUBSET Requests /\ r \in Busy /\ Cardinality(Busy) <= Slots
      BY <1>4 DEF Busy, Inv
    <2>2. Busy' = Busy \ {r} \/ Busy' = Busy
      BY <1>4, <1>5 DEF Busy, Inv, TypeInv
    <2>3. Busy \ {r} \in SUBSET Requests
      BY <2>1
    <2>4. /\ Cardinality(Busy) \in Nat /\ Cardinality(Busy \ {r}) \in Nat
          /\ Cardinality(Busy \ {r}) <= Cardinality(Busy)
      BY <2>1, <2>3, Counting
    <2>5. QED
      BY <2>1, <2>2, <2>4, LimitTypes
  <1>14. \A k \in Targets :
           /\ GuessesOK(Swept, k, IF Swept[k] = NoBucket THEN {} ELSE Holders(k))
           /\ r \notin Holders(k)
           /\ k # key => Holders(k)' = IF Swept[k] = NoBucket THEN {} ELSE Holders(k)
    <2> SUFFICES ASSUME NEW k \in Targets
                 PROVE  /\ GuessesOK(Swept, k, IF Swept[k] = NoBucket THEN {} ELSE Holders(k))
                        /\ r \notin Holders(k)
                        /\ k # key =>
                             Holders(k)' = IF Swept[k] = NoBucket THEN {} ELSE Holders(k)
      OBVIOUS
    <2>1. GuessesOK(Swept, k, IF Swept[k] = NoBucket THEN {} ELSE Holders(k))
      BY <1>1, LimitTypes DEF Inv, GuessesOK
    <2>2. r \notin Holders(k)
      BY <1>4, LimitTypes DEF Holders
    <2>3. ASSUME k # key PROVE Holders(k)' = IF Swept[k] = NoBucket THEN {} ELSE Holders(k)
      BY <1>4, <1>5, <1>7, <2>3, LimitTypes DEF Holders, Inv, TypeInv
    <2>4. QED
      BY <2>1, <2>2, <2>3
  <1>15. \A k \in Targets \ {key} : GuessesOK(limits', k, Holders(k)')
    BY <1>6, <1>14 DEF GuessesOK
  <1>16. GuessesOK(limits', key, Holders(key)')
    <2> DEFINE kept == IF Swept[key] = NoBucket THEN {} ELSE Holders(key)
    <2>1. kept \in SUBSET Requests /\ r \notin kept
      BY <1>14 DEF Holders
    <2>2. /\ Cardinality(kept) \in Nat /\ Cardinality({}) = 0
          /\ Cardinality(kept \cup {r}) = Cardinality(kept) + 1
      BY <2>1, Counting, FS_EmptySet
    <2>3. CASE target' = target
      <3>1. Holders(key)' = kept
        BY <1>4, <1>7, <2>3, LimitTypes DEF Holders, Inv, TypeInv
      <3>2. GuessesOK(Swept, key, kept)
        BY <1>14
      <3>3. limits'[key] = Swept[key] \/ limits'[key] = bucket
        BY <1>1, <1>4, <1>5, <2>3, LimitTypes DEF Inv, TypeInv, Buckets
      <3> HIDE DEF bucket
      <3>4. QED
        BY <1>2, <2>2, <3>1, <3>2, <3>3, LimitTypes DEF GuessesOK, Bucket
    <2>4. CASE target' = [target EXCEPT ![r] = key]
      <3>1. ~Blocked(bucket) /\ limits' = [Swept EXCEPT ![key] = charged]
        BY <1>4, <1>5, <2>4, LimitTypes DEF Inv, TypeInv
      <3>2. limits'[key] = charged
        BY <1>1, <3>1 DEF Buckets
      <3>3. Holders(key)' = kept \cup {r}
        BY <1>4, <1>7, <1>8, <2>4, LimitTypes DEF Holders, Inv, TypeInv
      <3>4. Cardinality(kept) + 1 <= Slots
        <4>1. Busy' \in SUBSET Requests /\ kept \cup {r} \in SUBSET Busy'
          BY <1>10, <3>3, LimitTypes DEF PointersInv, Holders, Busy
        <4>2. /\ Cardinality(kept \cup {r}) \in Nat /\ Cardinality(Busy') \in Nat
              /\ Cardinality(kept \cup {r}) <= Cardinality(Busy')
          BY <4>1, FewerCount
        <4>3. QED
          BY <1>13, <2>2, <4>2, LimitTypes
      <3>5. Cardinality(kept) <= bucket.requests
        BY <1>2, <1>14, <2>2 DEF GuessesOK, Bucket
      <3>6. bucket.failures < MaxFailures
        BY <1>2, <3>1, LimitTypes DEF Blocked, Bucket
      <3> HIDE DEF bucket, charged, kept
      <3>7. QED
        BY <1>2, <1>3, <2>2, <3>2, <3>3, <3>4, <3>5, <3>6, LimitTypes DEF GuessesOK, Bucket
    <2>5. QED
      BY <1>5, <2>3, <2>4
  <1>17. QED
    BY <1>9, <1>10, <1>11, <1>12, <1>13, <1>15, <1>16 DEF Inv

-----------------------------------------------------------------------------
LEMMA StepInv ==
  ASSUME Inv, [Next]_vars
  PROVE  Inv'
  <1>1. CASE Tick
    BY <1>1, TickStep
  <1>2. ASSUME NEW r \in Requests, Arrive(r)
        PROVE  Inv'
    BY <1>2, ArriveStep
  <1>3. ASSUME NEW r \in Requests, Body(r)
        PROVE  Inv'
    BY <1>3, BodyStep
  <1>4. ASSUME NEW r \in Requests, DnsFails(r) \/ Executed(r)
        PROVE  Inv'
    BY <1>4, QuietResponse DEF DnsFails, Executed, AfterSuccess
  <1>5. ASSUME NEW r \in Requests, AuthFailed(r)
        PROVE  Inv'
    BY <1>5, AuthFailedStep
  <1>6. ASSUME NEW r \in Requests, NEW key \in Targets, Acquire(r, key)
        PROVE  Inv'
    BY <1>6, AcquireStep
  <1>7. CASE UNCHANGED vars
    BY <1>7 DEF vars, Inv, TypeInv, PointersInv, TimeInv, SuccessorInv, Busy, Holders, GuessesOK
  <1>8. QED
    BY <1>1, <1>2, <1>3, <1>4, <1>5, <1>6, <1>7 DEF Next, Handle

LEMMA AlwaysInv == Spec => []Inv
  BY InitInv, StepInv, PTL DEF Spec

(* Whatever the order of attempts and deletions, the attempts of a window    *)
(* exceed the five wrong passwords by no more than the slots (main.go        *)
(* lines 329-350 and 360-364).                                               *)
THEOREM GuessesAlwaysBounded == Spec => []GuessesBounded
<1>1. Inv => GuessesBounded
  BY DEF Inv, GuessesOK, GuessesBounded
<1>2. QED
  BY <1>1, AlwaysInv, PTL

(* An attempt whose failure would be counted in a deleted bucket is over     *)
(* one timeout after its successor was made (main.go lines 321 and 331-335). *)
THEOREM LostAttemptsAlwaysEndSoon == Spec => []LostAttemptsEndSoon
<1>1. Inv => LostAttemptsEndSoon
  <2> SUFFICES ASSUME Inv, NEW r \in Requests, detached[r], limits[target[r]] # NoBucket
               PROVE  now <= limits[target[r]].started + Timeout
    BY DEF LostAttemptsEndSoon
  <2>1. step[r] = "execute" /\ target[r] \in Targets
    BY DEF Inv, PointersInv, TypeInv
  <2>2. /\ now \in Nat /\ begun[r] \in Nat /\ limits[target[r]].started \in Nat
    BY <2>1 DEF Inv, TypeInv, Buckets, Bucket
  <2>3. begun[r] <= limits[target[r]].started /\ now <= begun[r] + Timeout
    BY <2>1 DEF Inv, SuccessorInv, TimeInv
  <2>4. QED
    BY <2>2, <2>3, LimitTypes
<1>2. QED
  BY <1>1, AlwaysInv, PTL
=============================================================================
