-------------------------- MODULE RconRoute_proofs --------------------------
(* Proofs about the limiter and the route, for any number of requests, any   *)
(* targets and any limits.                                                   *)
EXTENDS RconRoute, FiniteSetTheorems, TLAPS

-----------------------------------------------------------------------------
(* The limiter's operators.                                                  *)

(* One bucket's share of GuessesBounded.                                     *)
GuessesOK(map, key) ==
  key \in Targets /\ map[key] # NoBucket =>
    map[key].failures + map[key].active < MaxFailures + TargetActive

(* The limits are natural numbers.                                          *)
LEMMA LimitTypes ==
  /\ Window \in Nat \ {0} /\ MaxFailures \in Nat \ {0} /\ TargetActive \in Nat \ {0}
  /\ NoBucket \notin Bucket /\ Global \notin Targets
  /\ \A key \in Keys : ActiveLimit(key) \in Nat \ {0}
  BY LimiterAssumption DEF ActiveLimit

(* The sweep removes no bucket that is in use and changes none it keeps.    *)
LEMMA SweepFacts ==
  ASSUME NEW map \in Buckets, NEW time \in Nat
  PROVE  /\ Sweep(map, time) \in Buckets
         /\ \A key \in Keys :
              \/ Sweep(map, time)[key] = map[key]
              \/ Sweep(map, time)[key] = NoBucket /\ Active(map, key) = 0
         /\ \A key \in Keys : Active(Sweep(map, time), key) = Active(map, key)
  BY LimitTypes DEF Buckets, Sweep, Stale, Active, Bucket

(* The bucket acquire works on has the active count of the one it replaces. *)
LEMMA CurrentFacts ==
  ASSUME NEW bucket \in Bucket \cup {NoBucket}, NEW time \in Nat
  PROVE  /\ Current(bucket, time) \in Bucket
         /\ Current(bucket, time).active = IF bucket = NoBucket THEN 0 ELSE bucket.active
         /\ \/ Current(bucket, time).failures = 0
            \/ bucket # NoBucket /\ Current(bucket, time).failures = bucket.failures
  <1>1. CASE bucket = NoBucket
    BY <1>1, LimitTypes DEF Current, Bucket
  <1>2. CASE bucket \in Bucket
    BY <1>2, LimitTypes DEF Current, Bucket
  <1> QED
    BY <1>1, <1>2

(* Counting a connection in a bucket.                                        *)
LEMMA ChargeFacts ==
  ASSUME NEW b \in Bucket
  PROVE  /\ [b EXCEPT !.count = @ + 1, !.active = @ + 1] \in Bucket
         /\ [b EXCEPT !.count = @ + 1, !.active = @ + 1].active = b.active + 1
         /\ [b EXCEPT !.count = @ + 1, !.active = @ + 1].failures = b.failures
  <1> DEFINE c == [b EXCEPT !.count = b.count + 1]
  <1>1. b.count + 1 \in Nat /\ b.active + 1 \in Nat
    BY DEF Bucket
  <1>2. c \in Bucket
    BY <1>1 DEF Bucket
  <1>3. \A d \in Bucket, n \in Nat : [d EXCEPT !.active = n] \in Bucket
    BY DEF Bucket
  <1>4. [b EXCEPT !.count = @ + 1, !.active = @ + 1] \in Bucket
    BY <1>1, <1>2, <1>3
  <1>5. /\ [b EXCEPT !.count = @ + 1, !.active = @ + 1].active = b.active + 1
        /\ [b EXCEPT !.count = @ + 1, !.active = @ + 1].failures = b.failures
    BY DEF Bucket
  <1> QED
    BY <1>4, <1>5

(* acquire() adds one connection under its key if and only if it admits the  *)
(* caller, changes no other count, and admits only below the limit.          *)
LEMMA AcquireFacts ==
  ASSUME NEW map \in Buckets, NEW key \in Keys, NEW time \in Nat
  PROVE  /\ AfterAcquire(map, key, time) \in Buckets
         /\ \A k \in Keys \ {key} : Active(AfterAcquire(map, key, time), k) = Active(map, k)
         /\ Active(AfterAcquire(map, key, time), key) =
              IF Admits(map, key, time) THEN Active(map, key) + 1 ELSE Active(map, key)
         /\ Admits(map, key, time) => Active(map, key) < ActiveLimit(key)
         /\ (\A k \in Targets : GuessesOK(map, k)) =>
              \A k \in Targets : GuessesOK(AfterAcquire(map, key, time), k)
  <1> DEFINE swept == Sweep(map, time)
             bucket == Current(swept[key], time)
             taken == [bucket EXCEPT !.count = @ + 1, !.active = @ + 1]
             after == AfterAcquire(map, key, time)
  <1>1. /\ swept \in Buckets
        /\ \A k \in Keys : \/ swept[k] = map[k]
                           \/ swept[k] = NoBucket /\ Active(map, k) = 0
        /\ \A k \in Keys : Active(swept, k) = Active(map, k)
    BY SweepFacts
  <1>2. swept[key] \in Bucket \cup {NoBucket}
    BY <1>1 DEF Buckets
  <1>3. /\ bucket \in Bucket
        /\ bucket.active = Active(swept, key)
        /\ \/ bucket.failures = 0
           \/ swept[key] # NoBucket /\ bucket.failures = swept[key].failures
    BY <1>2, CurrentFacts DEF Active
  <1>4. /\ taken \in Bucket /\ taken.active = bucket.active + 1
        /\ taken.failures = bucket.failures
    <2> HIDE DEF bucket
    <2> QED
      BY <1>3, ChargeFacts
  <1>5. CASE Busy(map, key, time)
    <2>1. after = swept /\ ~Admits(map, key, time)
      BY <1>5 DEF AfterAcquire, Admits
    <2>2. ASSUME \A k \in Targets : GuessesOK(map, k) PROVE \A k \in Targets : GuessesOK(swept, k)
      BY <1>1, <2>2 DEF GuessesOK, Keys
    <2> QED
      BY <1>1, <2>1, <2>2
  <1>6. CASE ~Busy(map, key, time) /\ Limited(key, bucket)
    <2>1. after = [swept EXCEPT ![key] = bucket] /\ ~Admits(map, key, time)
      BY <1>6 DEF AfterAcquire, Admits
    <2> HIDE DEF bucket, swept, after
    <2>2. /\ after \in Buckets /\ after[key] = bucket
          /\ Active(after, key) = bucket.active
          /\ \A k \in Keys \ {key} : after[k] = swept[k] /\ Active(after, k) = Active(swept, k)
      BY <1>1, <1>3, <2>1, LimitTypes DEF Buckets, Active
    <2>3. ASSUME \A k \in Targets : GuessesOK(map, k), NEW k \in Targets
          PROVE  GuessesOK(after, k)
      <3>1. GuessesOK(map, k) /\ k \in Keys
        BY <2>3 DEF Keys
      <3>2. CASE k # key
        BY <1>1, <2>2, <3>1, <3>2 DEF GuessesOK
      <3>3. CASE k = key
        <4>1. map[key] \in Bucket \cup {NoBucket}
          BY DEF Buckets
        <4>2. CASE map[key] = NoBucket
          <5>1. Active(map, key) = 0 /\ swept[key] = NoBucket
            BY <1>1, <4>2 DEF Active
          <5> QED
            BY <1>1, <1>3, <2>2, <3>3, <5>1, LimitTypes DEF GuessesOK
        <4>3. CASE map[key] \in Bucket
          <5>1. /\ Active(map, key) = map[key].active
                /\ map[key].failures \in Nat /\ map[key].active \in Nat
                /\ k # Global => map[key].failures + map[key].active < MaxFailures + TargetActive
            BY <3>1, <3>3, <4>3, LimitTypes DEF Active, Bucket, GuessesOK, Keys
          <5>2. bucket.active = map[key].active
                /\ (bucket.failures = 0 \/ bucket.failures = map[key].failures)
            BY <1>1, <1>3, <5>1
          <5> QED
            BY <2>2, <3>1, <3>3, <5>1, <5>2, LimitTypes DEF GuessesOK
        <4> QED
          BY <4>1, <4>2, <4>3
      <3> QED
        BY <3>2, <3>3
    <2> QED
      BY <1>1, <1>3, <2>1, <2>2, <2>3 DEF after
  <1>7. CASE ~Busy(map, key, time) /\ ~Limited(key, bucket)
    <2>1. after = [swept EXCEPT ![key] = taken] /\ Admits(map, key, time)
      BY <1>7 DEF AfterAcquire, Admits
    <2> HIDE DEF bucket, swept, after, taken
    <2>2. /\ after \in Buckets /\ after[key] = taken
          /\ Active(after, key) = taken.active
          /\ \A k \in Keys \ {key} : after[k] = swept[k] /\ Active(after, k) = Active(swept, k)
      BY <1>1, <1>4, <2>1, LimitTypes DEF Buckets, Active
    <2>3. bucket.active < ActiveLimit(key) /\ bucket.failures < MaxFailures
      BY <1>3, <1>7, LimitTypes DEF Limited, Bucket
    <2>4. ASSUME \A k \in Targets : GuessesOK(map, k), NEW k \in Targets
          PROVE  GuessesOK(after, k)
      <3>1. GuessesOK(map, k) /\ k \in Keys /\ k # Global
        BY <2>4, LimitTypes DEF Keys
      <3>2. CASE k # key
        BY <1>1, <2>2, <3>1, <3>2 DEF GuessesOK
      <3>3. CASE k = key
        BY <1>3, <1>4, <2>2, <2>3, <3>1, <3>3, LimitTypes DEF GuessesOK, ActiveLimit, Bucket
      <3> QED
        BY <3>2, <3>3
    <2> QED
      BY <1>1, <1>3, <1>4, <2>1, <2>2, <2>3, <2>4 DEF after
  <1> QED
    BY <1>5, <1>6, <1>7

(* Releasing a key takes one from its active count and no other.            *)
LEMMA ReleaseFacts ==
  ASSUME NEW map \in Buckets, NEW key \in Keys, Active(map, key) > 0
  PROVE  /\ AfterRelease(map, key) \in Buckets
         /\ Active(AfterRelease(map, key), key) = Active(map, key) - 1
         /\ \A k \in Keys \ {key} : Active(AfterRelease(map, key), k) = Active(map, k)
         /\ (\A k \in Targets : GuessesOK(map, k)) =>
              \A k \in Targets : GuessesOK(AfterRelease(map, key), k)
  <1> DEFINE b == [map[key] EXCEPT !.active = @ - 1]
             after == AfterRelease(map, key)
  <1>1. map[key] \in Bucket /\ map[key] # NoBucket /\ map[key].active > 0
    BY DEF Active, Buckets
  <1>2. b \in Bucket /\ b.active = map[key].active - 1 /\ b.failures = map[key].failures
    BY <1>1 DEF Bucket
  <1>3. after = [map EXCEPT ![key] = b]
    BY <1>1 DEF AfterRelease
  <1> HIDE DEF b, after
  <1>4. /\ after \in Buckets /\ after[key] = b
        /\ Active(after, key) = b.active
        /\ \A k \in Keys \ {key} : after[k] = map[k] /\ Active(after, k) = Active(map, k)
    BY <1>2, <1>3, LimitTypes DEF Buckets, Active
  <1>5. ASSUME \A k \in Targets : GuessesOK(map, k), NEW k \in Targets
        PROVE  GuessesOK(after, k)
    <2>1. GuessesOK(map, k) /\ k \in Keys
      BY <1>5 DEF Keys
    <2> QED
      BY <1>1, <1>2, <1>4, <2>1, LimitTypes DEF GuessesOK, Bucket
  <1> QED
    BY <1>1, <1>2, <1>4, <1>5 DEF after, Active

(* A failure counted together with the return of its slot.                   *)
LEMMA FailureFacts ==
  ASSUME NEW map \in Buckets, NEW key \in Targets, Active(map, key) > 0,
         \A k \in Targets : GuessesOK(map, k)
  PROVE  LET after == AfterRelease(AfterFailure(map, key), key) IN
         /\ after \in Buckets
         /\ after[key].failures = map[key].failures + 1
         /\ Active(after, key) = Active(map, key) - 1
         /\ \A k \in Keys \ {key} : Active(after, k) = Active(map, k)
         /\ \A k \in Targets : GuessesOK(after, k)
  <1> DEFINE f == [map[key] EXCEPT !.failures = @ + 1]
             failed == AfterFailure(map, key)
             b == [failed[key] EXCEPT !.active = @ - 1]
             after == AfterRelease(failed, key)
  <1>1. /\ map[key] \in Bucket /\ map[key] # NoBucket /\ map[key].active > 0
        /\ key \in Keys
    BY DEF Active, Buckets, Keys
  <1>2. f \in Bucket /\ f.active = map[key].active /\ f.failures = map[key].failures + 1
    BY <1>1 DEF Bucket
  <1>3. failed = [map EXCEPT ![key] = f]
    BY <1>1 DEF AfterFailure
  <1>4. /\ failed \in Buckets /\ failed[key] = f
        /\ \A k \in Keys \ {key} : failed[k] = map[k] /\ Active(failed, k) = Active(map, k)
    <2> HIDE DEF f, failed
    <2> QED
      BY <1>1, <1>2, <1>3, LimitTypes DEF Buckets, Active
  <1>5. b \in Bucket /\ b.active = f.active - 1 /\ b.failures = f.failures
    <2> HIDE DEF f, failed
    <2> QED
      BY <1>1, <1>2, <1>4 DEF Bucket
  <1>6. after = [failed EXCEPT ![key] = b]
    <2> HIDE DEF f, failed
    <2> QED
      BY <1>2, <1>4, LimitTypes DEF AfterRelease
  <1> HIDE DEF f, failed, b, after
  <1>7. /\ after \in Buckets /\ after[key] = b
        /\ Active(after, key) = b.active
        /\ \A k \in Keys \ {key} : after[k] = failed[k] /\ Active(after, k) = Active(failed, k)
    BY <1>1, <1>4, <1>5, <1>6, LimitTypes DEF Buckets, Active
  <1>8. \A k \in Targets : GuessesOK(after, k)
    <2> TAKE k \in Targets
    <2>1. GuessesOK(map, k) /\ k \in Keys
      BY DEF Keys
    <2> QED
      BY <1>1, <1>2, <1>4, <1>5, <1>7, <2>1, LimitTypes DEF GuessesOK, Bucket
  <1> QED
    BY <1>1, <1>2, <1>4, <1>5, <1>7, <1>8 DEF after, failed, Active

-----------------------------------------------------------------------------
(* The invariant.                                                            *)

(* An executing request holds a target's slot.  Without it nothing says that *)
(* the release at the end of the request returns what the acquire took.      *)
TargetsHeld == \A r \in Requests : step[r] = "execute" => target[r] \in Targets

RouteInv == TypeOK /\ SlotsAccounted /\ ConcurrencyBounded /\ GuessesBounded /\ TargetsHeld

(* Adding a request to a set of them or removing one moves its size by one.  *)
LEMMA Counting ==
  ASSUME NEW S \in SUBSET Requests, NEW r \in Requests
  PROVE  /\ IsFiniteSet(S) /\ Cardinality(S) \in Nat
         /\ r \notin S => Cardinality(S \cup {r}) = Cardinality(S) + 1
         /\ r \in S => Cardinality(S \ {r}) = Cardinality(S) - 1 /\ Cardinality(S) > 0
         /\ r \notin S => S \ {r} = S
         /\ Cardinality(S \ {r}) <= Cardinality(S)
  <1>1. IsFiniteSet(S) /\ Cardinality(S) \in Nat
    BY RouteAssumption, FS_Subset, FS_CardinalityType
  <1>2. IsFiniteSet(S \ {r}) /\ Cardinality(S \ {r}) \in Nat
    BY RouteAssumption, FS_Subset, FS_CardinalityType
  <1>3. r \notin S => Cardinality(S \cup {r}) = Cardinality(S) + 1
    BY <1>1, FS_AddElement
  <1>4. r \in S => Cardinality(S \ {r}) = Cardinality(S) - 1
    BY <1>1, FS_RemoveElement
  <1>5. r \notin S => S \ {r} = S
    OBVIOUS
  <1> QED
    BY <1>1, <1>2, <1>3, <1>4, <1>5

(* The requests that hold a key are finitely many.                          *)
LEMMA HoldersFacts ==
  \A key : Holders(key) \in SUBSET Requests
  BY DEF Holders

(* The limiter starts with no bucket and no request.                         *)
LEMMA InitRouteInv ==
  Init => RouteInv
  <1> SUFFICES ASSUME Init PROVE RouteInv
    OBVIOUS
  <1> USE DEF Init
  <1>1. TypeOK
    BY RouteAssumption DEF TypeOK, Buckets, Steps, NoTarget, Keys
  <1>2. \A key : Holders(key) = {}
    BY DEF Holders
  <1>3. Cardinality({}) = 0
    BY FS_EmptySet
  <1>4. SlotsAccounted
    BY <1>2, <1>3 DEF SlotsAccounted, Active
  <1>5. ConcurrencyBounded
    BY <1>2, <1>3, LimitTypes DEF ConcurrencyBounded
  <1>6. GuessesBounded /\ TargetsHeld
    BY DEF GuessesBounded, TargetsHeld, Keys
  <1> QED
    BY <1>1, <1>4, <1>5, <1>6 DEF RouteInv

(* Every way a request ends: the limiter has already taken back what the     *)
(* request held under its target, and Respond takes back the global slot.    *)
LEMMA Responded ==
  ASSUME RouteInv, NEW r \in Requests, step[r] # "idle",
         NEW map \in Buckets, Respond(r, map),
         \/ target' = target
         \/ target' = [target EXCEPT ![r] = NoTarget],
         UNCHANGED now,
         Active(map, Global) = Cardinality(Holders(Global)),
         \A key \in Targets : Active(map, key) = Cardinality(Holders(key) \ {r}),
         \A key \in Targets : GuessesOK(map, key)
  PROVE  RouteInv'
  <1> USE DEF RouteInv
  <1>1. /\ step' = [step EXCEPT ![r] = "idle"]
        /\ buckets' = AfterRelease(map, Global)
    BY DEF Respond
  <1>2. Global \in Keys /\ Global \notin Targets
    BY LimitTypes DEF Keys
  <1>3. \A key : Holders(key)' = Holders(key) \ {r}
    <2>1. \A q \in Requests \ {r} : step'[q] = step[q] /\ target'[q] = target[q]
      BY <1>1 DEF TypeOK
    <2>2. step'[r] = "idle"
      BY <1>1 DEF TypeOK
    <2> QED
      BY <2>1, <2>2 DEF Holders
  <1>4. r \in Holders(Global) /\ Active(map, Global) > 0
    <2>1. r \in Holders(Global)
      BY DEF Holders
    <2>2. Holders(Global) \in SUBSET Requests
      BY HoldersFacts
    <2>3. Cardinality(Holders(Global)) > 0
      BY <2>1, <2>2, Counting
    <2> QED
      BY <2>1, <2>3
  <1>5. /\ buckets' \in Buckets
        /\ Active(buckets', Global) = Active(map, Global) - 1
        /\ \A key \in Keys \ {Global} : Active(buckets', key) = Active(map, key)
        /\ \A key \in Targets : GuessesOK(buckets', key)
    BY <1>1, <1>2, <1>4, ReleaseFacts
  <1>6. TypeOK'
    BY <1>1, <1>5 DEF TypeOK, Steps, NoTarget, Keys
  <1>7. SlotsAccounted'
    <2>1. Active(buckets', Global) = Cardinality(Holders(Global)')
      BY <1>3, <1>4, <1>5, Counting, HoldersFacts
    <2>2. \A key \in Targets : Active(buckets', key) = Cardinality(Holders(key)')
      BY <1>2, <1>3, <1>5 DEF Keys
    <2> QED
      BY <2>1, <2>2 DEF SlotsAccounted, Keys
  <1>8. ConcurrencyBounded'
    <2> SUFFICES ASSUME NEW key \in Keys PROVE Cardinality(Holders(key)') <= ActiveLimit(key)
      BY DEF ConcurrencyBounded
    <2>1. Cardinality(Holders(key) \ {r}) <= Cardinality(Holders(key))
      BY Counting, HoldersFacts
    <2>2. Cardinality(Holders(key)) \in Nat /\ Cardinality(Holders(key) \ {r}) \in Nat
      <3>1. Holders(key) \in SUBSET Requests /\ Holders(key) \ {r} \in SUBSET Requests
        BY HoldersFacts
      <3> QED
        BY <3>1, Counting
    <2>3. Cardinality(Holders(key)) <= ActiveLimit(key) /\ ActiveLimit(key) \in Nat
      BY LimitTypes DEF ConcurrencyBounded
    <2>4. Cardinality(Holders(key) \ {r}) <= ActiveLimit(key)
      BY <2>1, <2>2, <2>3
    <2>5. Holders(key)' = Holders(key) \ {r}
      BY <1>3
    <2> QED
      BY <2>4, <2>5
  <1>9. GuessesBounded'
    BY <1>5 DEF GuessesBounded, GuessesOK
  <1>10. TargetsHeld'
    BY <1>1 DEF TargetsHeld, TypeOK
  <1> QED
    BY <1>6, <1>7, <1>8, <1>9, <1>10

(* A request that acquires a key becomes its holder; no other key moves.     *)
LEMMA Acquired ==
  ASSUME RouteInv, NEW r \in Requests, NEW key \in Keys, Admits(buckets, key, now),
         buckets' = AfterAcquire(buckets, key, now),
         r \notin Holders(key), Holders(key)' = Holders(key) \cup {r},
         \A k \in Keys \ {key} : Holders(k)' = Holders(k)
  PROVE  buckets' \in Buckets /\ SlotsAccounted' /\ ConcurrencyBounded' /\ GuessesBounded'
  <1>1. buckets \in Buckets /\ now \in Nat /\ \A k \in Targets : GuessesOK(buckets, k)
    BY RouteAssumption DEF RouteInv, TypeOK, GuessesBounded, GuessesOK
  <1>2. /\ buckets' \in Buckets
        /\ \A k \in Keys \ {key} : Active(buckets', k) = Active(buckets, k)
        /\ Active(buckets', key) = Active(buckets, key) + 1
        /\ Active(buckets, key) < ActiveLimit(key)
        /\ \A k \in Targets : GuessesOK(buckets', k)
    BY <1>1, AcquireFacts
  <1>3. /\ Cardinality(Holders(key)) \in Nat
        /\ Cardinality(Holders(key) \cup {r}) = Cardinality(Holders(key)) + 1
    <2>1. Holders(key) \in SUBSET Requests
      BY HoldersFacts
    <2> QED
      BY <2>1, Counting
  <1>4. \A k \in Keys : Active(buckets, k) = Cardinality(Holders(k))
    BY DEF RouteInv, SlotsAccounted
  <1>5. SlotsAccounted'
    <2> SUFFICES ASSUME NEW k \in Keys PROVE Active(buckets', k) = Cardinality(Holders(k)')
      BY DEF SlotsAccounted
    <2>1. CASE k = key
      BY <1>2, <1>3, <1>4, <2>1
    <2>2. CASE k # key
      BY <1>2, <1>4, <2>2
    <2> QED
      BY <2>1, <2>2
  <1>6. ConcurrencyBounded'
    <2> SUFFICES ASSUME NEW k \in Keys PROVE Cardinality(Holders(k)') <= ActiveLimit(k)
      BY DEF ConcurrencyBounded
    <2>1. CASE k = key
      <3>1. Cardinality(Holders(key)) < ActiveLimit(key) /\ ActiveLimit(key) \in Nat
        BY <1>2, <1>4, LimitTypes
      <3>2. Cardinality(Holders(key)') = Cardinality(Holders(key)) + 1
        BY <1>3
      <3>3. Cardinality(Holders(key)') <= ActiveLimit(key)
        BY <1>3, <3>1, <3>2
      <3> QED
        BY <2>1, <3>3
    <2>2. CASE k # key
      BY <2>2 DEF RouteInv, ConcurrencyBounded
    <2> QED
      BY <2>1, <2>2
  <1>7. GuessesBounded'
    BY <1>2 DEF GuessesBounded, GuessesOK
  <1> QED
    BY <1>2, <1>5, <1>6, <1>7

(* An acquire that throws leaves every count as it was.                      *)
LEMMA Refused ==
  ASSUME RouteInv, NEW key \in Keys, ~Admits(buckets, key, now)
  PROVE  LET map == AfterAcquire(buckets, key, now) IN
         /\ map \in Buckets
         /\ \A k \in Keys : Active(map, k) = Cardinality(Holders(k))
         /\ \A k \in Targets : GuessesOK(map, k)
  <1>1. buckets \in Buckets /\ now \in Nat /\ \A k \in Targets : GuessesOK(buckets, k)
    BY RouteAssumption DEF RouteInv, TypeOK, GuessesBounded, GuessesOK
  <1>2. \A k \in Keys : Active(buckets, k) = Cardinality(Holders(k))
    BY DEF RouteInv, SlotsAccounted
  <1> QED
    BY <1>1, <1>2, AcquireFacts

(* Taking or being refused the global slot keeps the invariant.             *)
LEMMA ArriveStep ==
  ASSUME RouteInv, NEW r \in Requests, Arrive(r)
  PROVE  RouteInv'
  <1> USE DEF Arrive
  <1>1. Global \in Keys /\ TypeOK /\ TargetsHeld
    BY DEF Keys, RouteInv
  <1>2. CASE Admits(buckets, Global, now)
    <2>1. step' = [step EXCEPT ![r] = "body"]
      BY <1>2
    <2>2. r \notin Holders(Global) /\ Holders(Global)' = Holders(Global) \cup {r}
      BY <1>1, <2>1 DEF Holders, TypeOK
    <2>3. \A k \in Keys \ {Global} : Holders(k)' = Holders(k)
      BY <1>1, <2>1 DEF Holders, TypeOK
    <2>4. buckets' \in Buckets /\ SlotsAccounted' /\ ConcurrencyBounded' /\ GuessesBounded'
      BY <1>1, <1>2, <2>2, <2>3, Acquired
    <2> QED
      BY <1>1, <2>1, <2>4 DEF RouteInv, TypeOK, TargetsHeld, Steps
  <1>3. CASE ~Admits(buckets, Global, now)
    <2>1. UNCHANGED <<now, step, target>>
      BY <1>1, <1>3 DEF TypeOK
    <2>2. /\ buckets' \in Buckets
          /\ \A k \in Keys : Active(buckets', k) = Cardinality(Holders(k))
          /\ \A k \in Targets : GuessesOK(buckets', k)
      BY <1>1, <1>3, Refused
    <2>3. \A k : Holders(k)' = Holders(k)
      BY <2>1 DEF Holders
    <2>4. SlotsAccounted'
      BY <2>2, <2>3 DEF SlotsAccounted
    <2>5. ConcurrencyBounded'
      BY <2>3 DEF RouteInv, ConcurrencyBounded
    <2>6. GuessesBounded'
      BY <2>2 DEF GuessesBounded, GuessesOK
    <2> QED
      BY <1>1, <2>1, <2>2, <2>4, <2>5, <2>6 DEF RouteInv, TypeOK, TargetsHeld
  <1> QED
    BY <1>2, <1>3

(* A response from a request that holds no target.                           *)
LEMMA RespondedEarly ==
  ASSUME RouteInv, NEW r \in Requests, step[r] \in {"body", "dns"},
         NEW map \in Buckets, Respond(r, map), UNCHANGED <<now, target>>,
         \A k \in Keys : Active(map, k) = Cardinality(Holders(k)),
         \A k \in Targets : GuessesOK(map, k)
  PROVE  RouteInv'
  <1>1. \A key \in Targets : Holders(key) \ {r} = Holders(key)
    BY LimitTypes DEF Holders
  <1>2. /\ step[r] # "idle" /\ UNCHANGED now /\ target' = target
        /\ Active(map, Global) = Cardinality(Holders(Global))
        /\ \A key \in Targets : Active(map, key) = Cardinality(Holders(key) \ {r})
    BY <1>1 DEF Keys
  <1> QED
    BY <1>2, Responded

(* Reading and validating the body keeps the invariant.                     *)
LEMMA BodyStep ==
  ASSUME RouteInv, NEW r \in Requests, Body(r)
  PROVE  RouteInv'
  <1>1. step[r] = "body" /\ UNCHANGED <<now, target>>
    BY DEF Body
  <1>2. CASE step' = [step EXCEPT ![r] = "dns"] /\ UNCHANGED buckets
    <2>1. \A k : Holders(k)' = Holders(k)
      BY <1>1, <1>2 DEF Holders, RouteInv, TypeOK
    <2>2. SlotsAccounted' /\ ConcurrencyBounded' /\ GuessesBounded'
      BY <1>2, <2>1 DEF RouteInv, SlotsAccounted, ConcurrencyBounded, GuessesBounded
    <2>3. TypeOK' /\ TargetsHeld'
      BY <1>1, <1>2 DEF RouteInv, TypeOK, TargetsHeld, Steps
    <2> QED
      BY <2>2, <2>3 DEF RouteInv
  <1>3. CASE Respond(r, buckets)
    <2>1. /\ buckets \in Buckets
          /\ \A k \in Keys : Active(buckets, k) = Cardinality(Holders(k))
          /\ \A k \in Targets : GuessesOK(buckets, k)
      BY DEF RouteInv, TypeOK, SlotsAccounted, GuessesBounded, GuessesOK
    <2> QED
      BY <1>1, <1>3, <2>1, RespondedEarly
  <1> QED
    BY <1>2, <1>3 DEF Body

(* Resolving the address and taking the two later slots keeps the invariant.*)
LEMMA DnsStep ==
  ASSUME RouteInv, NEW r \in Requests, Dns(r)
  PROVE  RouteInv'
  <1>1. step[r] = "dns" /\ UNCHANGED now /\ TypeOK /\ TargetsHeld
    BY DEF Dns, RouteInv
  <1>2. CASE Respond(r, buckets) /\ UNCHANGED target
    <2>1. /\ buckets \in Buckets
          /\ \A k \in Keys : Active(buckets, k) = Cardinality(Holders(k))
          /\ \A k \in Targets : GuessesOK(buckets, k)
      BY DEF RouteInv, TypeOK, SlotsAccounted, GuessesBounded, GuessesOK
    <2> QED
      BY <1>1, <1>2, <2>1, RespondedEarly
  <1>3. ASSUME NEW key \in Targets, Admits(buckets, key, now),
               buckets' = AfterAcquire(buckets, key, now),
               step' = [step EXCEPT ![r] = "execute"],
               target' = [target EXCEPT ![r] = key]
        PROVE  RouteInv'
    <2>1. key \in Keys /\ key # Global
      BY LimitTypes DEF Keys
    <2>2. r \notin Holders(key) /\ Holders(key)' = Holders(key) \cup {r}
      BY <1>1, <1>3, <2>1 DEF Holders, TypeOK
    <2>3. \A k \in Keys \ {key} : Holders(k)' = Holders(k)
      <3>1. \A q \in Requests \ {r} : step'[q] = step[q] /\ target'[q] = target[q]
        BY <1>1, <1>3 DEF TypeOK
      <3>2. step'[r] = "execute" /\ target'[r] = key
        BY <1>1, <1>3 DEF TypeOK
      <3> QED
        BY <1>1, <3>1, <3>2 DEF Holders
    <2>4. buckets' \in Buckets /\ SlotsAccounted' /\ ConcurrencyBounded' /\ GuessesBounded'
      BY <1>3, <2>1, <2>2, <2>3, Acquired
    <2> QED
      BY <1>1, <1>3, <2>1, <2>4 DEF RouteInv, TypeOK, TargetsHeld, Steps
  <1>4. ASSUME NEW key \in Targets, ~Admits(buckets, key, now),
               Respond(r, AfterAcquire(buckets, key, now)), UNCHANGED target
        PROVE  RouteInv'
    <2>1. key \in Keys
      BY DEF Keys
    <2>2. /\ AfterAcquire(buckets, key, now) \in Buckets
          /\ \A k \in Keys : Active(AfterAcquire(buckets, key, now), k) = Cardinality(Holders(k))
          /\ \A k \in Targets : GuessesOK(AfterAcquire(buckets, key, now), k)
      BY <1>4, <2>1, Refused
    <2> QED
      BY <1>1, <1>4, <2>2, RespondedEarly
  <1> QED
    BY <1>2, <1>3, <1>4 DEF Dns

(* What an executing request holds.                                          *)
LEMMA Executing ==
  ASSUME RouteInv, NEW r \in Requests, step[r] = "execute"
  PROVE  /\ target[r] \in Targets /\ target[r] \in Keys /\ target[r] # Global
         /\ buckets \in Buckets
         /\ Active(buckets, target[r]) = Cardinality(Holders(target[r]))
         /\ Cardinality(Holders(target[r])) > 0
         /\ Cardinality(Holders(target[r]) \ {r}) = Cardinality(Holders(target[r])) - 1
         /\ \A k \in Targets \ {target[r]} : Holders(k) \ {r} = Holders(k)
         /\ \A k \in Keys : Active(buckets, k) = Cardinality(Holders(k))
         /\ \A k \in Targets : GuessesOK(buckets, k)
  <1>1. target[r] \in Targets /\ target[r] \in Keys /\ target[r] # Global
    BY LimitTypes DEF RouteInv, TargetsHeld, Keys
  <1>2. r \in Holders(target[r]) /\ Holders(target[r]) \in SUBSET Requests
    BY <1>1 DEF Holders
  <1>3. \A k \in Targets \ {target[r]} : Holders(k) \ {r} = Holders(k)
    BY LimitTypes DEF Holders
  <1>4. /\ \A k \in Keys : Active(buckets, k) = Cardinality(Holders(k))
        /\ \A k \in Targets : GuessesOK(buckets, k)
        /\ buckets \in Buckets
    BY DEF RouteInv, TypeOK, SlotsAccounted, GuessesBounded, GuessesOK
  <1> QED
    BY <1>1, <1>2, <1>3, <1>4, Counting

(* A session that ended returns all three slots.                            *)
LEMMA ExecutedStep ==
  ASSUME RouteInv, NEW r \in Requests, Executed(r)
  PROVE  RouteInv'
  <1> DEFINE map == AfterRelease(buckets, target[r])
  <1>1. /\ step[r] = "execute" /\ UNCHANGED now /\ Respond(r, map)
        /\ target' = [target EXCEPT ![r] = NoTarget]
    BY DEF Executed
  <1>2. /\ map \in Buckets
        /\ Active(map, target[r]) = Active(buckets, target[r]) - 1
        /\ \A k \in Keys \ {target[r]} : Active(map, k) = Active(buckets, k)
        /\ \A k \in Targets : GuessesOK(map, k)
    BY <1>1, Executing, ReleaseFacts
  <1> HIDE DEF map
  <1>3. Active(map, Global) = Cardinality(Holders(Global))
    BY <1>1, <1>2, Executing DEF Keys
  <1>4. \A k \in Targets : Active(map, k) = Cardinality(Holders(k) \ {r})
    BY <1>1, <1>2, Executing DEF Keys
  <1> QED
    BY <1>1, <1>2, <1>3, <1>4, Responded

(* A wrong password is counted in the bucket whose slot is returned.        *)
LEMMA AuthFailedStep ==
  ASSUME RouteInv, NEW r \in Requests, AuthFailed(r)
  PROVE  RouteInv'
  <1> DEFINE map == AfterRelease(AfterFailure(buckets, target[r]), target[r])
  <1>1. /\ step[r] = "execute" /\ UNCHANGED now /\ Respond(r, map)
        /\ target' = [target EXCEPT ![r] = NoTarget]
    BY DEF AuthFailed
  <1>2. /\ map \in Buckets
        /\ Active(map, target[r]) = Active(buckets, target[r]) - 1
        /\ \A k \in Keys \ {target[r]} : Active(map, k) = Active(buckets, k)
        /\ \A k \in Targets : GuessesOK(map, k)
    BY <1>1, Executing, FailureFacts
  <1> HIDE DEF map
  <1>3. Active(map, Global) = Cardinality(Holders(Global))
    BY <1>1, <1>2, Executing DEF Keys
  <1>4. \A k \in Targets : Active(map, k) = Cardinality(Holders(k) \ {r})
    BY <1>1, <1>2, Executing DEF Keys
  <1> QED
    BY <1>1, <1>2, <1>3, <1>4, Responded

(* Every step of the route keeps the invariant.                             *)
LEMMA NextRouteInv ==
  RouteInv /\ [Next]_vars => RouteInv'
  <1> SUFFICES ASSUME RouteInv, [Next]_vars PROVE RouteInv'
    OBVIOUS
  <1>1. CASE Tick
    <2>1. UNCHANGED <<buckets, step, target>> /\ now' \in 0..MaxTime
      BY <1>1, RouteAssumption DEF Tick, RouteInv, TypeOK
    <2>2. \A k : Holders(k)' = Holders(k)
      BY <2>1 DEF Holders
    <2> QED
      BY <2>1, <2>2 DEF RouteInv, TypeOK, SlotsAccounted, ConcurrencyBounded, GuessesBounded,
         TargetsHeld
  <1>2. ASSUME NEW r \in Requests, Handle(r) PROVE RouteInv'
    BY <1>2, ArriveStep, BodyStep, DnsStep, ExecutedStep, AuthFailedStep DEF Handle
  <1>3. CASE UNCHANGED vars
    <2>1. \A k : Holders(k)' = Holders(k)
      BY <1>3 DEF vars, Holders
    <2> QED
      BY <1>3, <2>1 DEF vars, RouteInv, TypeOK, SlotsAccounted, ConcurrencyBounded,
         GuessesBounded, TargetsHeld
  <1> QED
    BY <1>1, <1>2, <1>3 DEF Next

(* The invariant holds of every behaviour of the route.                      *)
THEOREM RouteInvariant == Spec => []RouteInv
  BY InitRouteInv, NextRouteInv, PTL DEF Spec

-----------------------------------------------------------------------------
(* What it gives.                                                            *)

(* The clock, the buckets and the requests keep their types: in particular   *)
(* no bucket's active count goes below zero (limits.ts lines 27-30).         *)
THEOREM RouteTypeCorrect == Spec => []TypeOK
  <1>1. RouteInv => TypeOK
    BY DEF RouteInv
  <1> QED
    BY <1>1, RouteInvariant, PTL

(* No slot leaks and none is returned twice, on any path through the handler *)
(* and whatever the limiter sweeps or restarts (route.ts lines 33-78).       *)
THEOREM SlotsAlwaysAccounted == Spec => []SlotsAccounted
  <1>1. RouteInv => SlotsAccounted
    BY DEF RouteInv
  <1> QED
    BY <1>1, RouteInvariant, PTL

(* However many requests arrive, no more than 12 are in the handler and no   *)
(* more than 3 hold a socket to one target (limits.ts line 24).              *)
THEOREM ConcurrencyAlwaysBounded == Spec => []ConcurrencyBounded
  <1>1. RouteInv => ConcurrencyBounded
    BY DEF RouteInv
  <1> QED
    BY <1>1, RouteInvariant, PTL

(* However many attempts run at once, a bucket never holds more wrong        *)
(* passwords and open attempts than the limit and the sockets allow.         *)
THEOREM GuessesAlwaysBounded == Spec => []GuessesBounded
  <1>1. RouteInv => GuessesBounded
    BY DEF RouteInv
  <1> QED
    BY <1>1, RouteInvariant, PTL

(* Every rejected password is counted in a bucket the limiter still has: the *)
(* attempt's own slot keeps the bucket from being swept (limits.ts line 11). *)
THEOREM FailuresAlwaysCounted == Spec => FailuresCounted
  <1> DEFINE Counted ==
        \A r \in Requests : AuthFailed(r) =>
          /\ buckets[target[r]] # NoBucket
          /\ buckets'[target[r]].failures = buckets[target[r]].failures + 1
  <1>1. RouteInv /\ [Next]_vars => [Counted]_vars
    <2> SUFFICES ASSUME RouteInv, NEW r \in Requests, AuthFailed(r)
                 PROVE  /\ buckets[target[r]] # NoBucket
                        /\ buckets'[target[r]].failures = buckets[target[r]].failures + 1
      OBVIOUS
    <2> DEFINE key == target[r]
               map == AfterRelease(AfterFailure(buckets, key), key)
    <2>1. /\ step[r] = "execute"
          /\ buckets' = AfterRelease(map, Global)
      BY DEF AuthFailed, Respond
    <2>2. /\ key \in Targets /\ key # Global
          /\ Active(buckets, key) > 0 /\ buckets \in Buckets
          /\ \A k \in Targets : GuessesOK(buckets, k)
      BY <2>1, Executing
    <2>3. map \in Buckets /\ map[key].failures = buckets[key].failures + 1
      BY <2>2, FailureFacts
    <2>4. buckets'[key] = map[key]
      <3> HIDE DEF map
      <3> QED
        BY <2>1, <2>2, <2>3 DEF AfterRelease, Buckets, Keys
    <2>5. buckets[key] # NoBucket
      BY <2>2 DEF Active
    <2> QED
      BY <2>3, <2>4, <2>5
  <1> QED
    BY <1>1, RouteInvariant, PTL DEF Spec, FailuresCounted


-----------------------------------------------------------------------------
(* Why SERVER_BUSY is never thrown.  A token is an entry the map has for a   *)
(* target, or a request that was admitted and may still create one.  A       *)
(* window lets GlobalRate requests in, and what it finds when it starts are  *)
(* the entries of the window before and the requests still in flight.        *)

(* The targets whose entry a sweep at time t would keep.                     *)
Live(map, t) ==
  {k \in Targets : map[k] # NoBucket /\ (map[k].expires > t \/ map[k].active > 0)}

(* The requests that may still create an entry.                              *)
Pending == {r \in Requests : step[r] \in {"body", "dns"}}

Tokens(map, pending, t) == Cardinality(pending) + Cardinality(Live(map, t))

CapacityOK(map, pending, time) ==
  /\ \A k \in Keys : map[k] # NoBucket => map[k].expires <= time + Window
  /\ map[Global] = NoBucket => Tokens(map, pending, time) <= GlobalActive + GlobalRate
  /\ map[Global] # NoBucket =>
       /\ map[Global].count <= GlobalRate
       /\ Tokens(map, pending, map[Global].expires) <= GlobalActive + map[Global].count
       /\ Tokens(map, pending, time) <= GlobalActive + GlobalRate + map[Global].count

CapacityInv == CapacityOK(buckets, Pending, now)

(* An entry other than the acquired one is kept as it is or was stale.      *)
LEMMA AcquireOthers ==
  ASSUME NEW map \in Buckets, NEW key \in Keys, NEW time \in Nat, NEW k \in Keys, k # key
  PROVE  \/ AfterAcquire(map, key, time)[k] = map[k]
         \/ /\ AfterAcquire(map, key, time)[k] = NoBucket
            /\ map[k] # NoBucket /\ Stale(map[k], time)
  <1> DEFINE swept == Sweep(map, time)
  <1>1. \/ swept[k] = map[k]
        \/ swept[k] = NoBucket /\ map[k] # NoBucket /\ Stale(map[k], time)
    BY DEF Sweep
  <1>2. swept \in Buckets
    BY SweepFacts
  <1> DEFINE bucket == Current(swept[key], time)
             taken == [bucket EXCEPT !.count = @ + 1, !.active = @ + 1]
  <1>3. \/ AfterAcquire(map, key, time) = swept
        \/ AfterAcquire(map, key, time) = [swept EXCEPT ![key] = bucket]
        \/ AfterAcquire(map, key, time) = [swept EXCEPT ![key] = taken]
    BY DEF AfterAcquire
  <1>4. AfterAcquire(map, key, time)[k] = swept[k]
    <2> HIDE DEF swept, bucket, taken
    <2> QED
      BY <1>2, <1>3 DEF Buckets
  <1> QED
    BY <1>1, <1>4

(* The acquired key's entry: none, a new window, or one more in the old one. *)
LEMMA AcquireOwn ==
  ASSUME NEW map \in Buckets, NEW key \in Keys, NEW time \in Nat
  PROVE  LET after == AfterAcquire(map, key, time)
             add == IF Admits(map, key, time) THEN 1 ELSE 0
         IN  \/ /\ after[key] = NoBucket /\ add = 0
                /\ map[key] = NoBucket \/ Stale(map[key], time)
             \/ /\ after[key] # NoBucket
                /\ map[key] = NoBucket \/ map[key].expires <= time
                /\ after[key].expires = time + Window
                /\ after[key].count = add
             \/ /\ after[key] # NoBucket
                /\ map[key] # NoBucket /\ map[key].expires > time
                /\ after[key].expires = map[key].expires
                /\ after[key].count = map[key].count + add
                /\ add = 1 => map[key].count < RateLimit(key)
  <1> DEFINE swept == Sweep(map, time)
             bucket == Current(swept[key], time)
             taken == [bucket EXCEPT !.count = @ + 1, !.active = @ + 1]
             after == AfterAcquire(map, key, time)
             add == IF Admits(map, key, time) THEN 1 ELSE 0
  <1>1. swept \in Buckets /\ swept[key] \in Bucket \cup {NoBucket}
    <2>1. swept \in Buckets
      BY SweepFacts
    <2> QED
      BY <2>1 DEF Buckets
  <1>2. /\ map[key] \in Bucket \cup {NoBucket}
        /\ \/ swept[key] = map[key]
           \/ swept[key] = NoBucket /\ map[key] # NoBucket /\ Stale(map[key], time)
    BY DEF Sweep, Buckets
  <1>3. /\ bucket \in Bucket
        /\ \/ /\ map[key] = NoBucket \/ map[key].expires <= time
              /\ bucket.expires = time + Window /\ bucket.count = 0
           \/ /\ map[key] # NoBucket /\ map[key].expires > time
              /\ bucket = map[key]
    <2>1. bucket \in Bucket
      BY <1>1, CurrentFacts
    <2>2. CASE swept[key] = NoBucket
      <3>1. map[key] = NoBucket \/ map[key].expires <= time
        BY <1>2, <2>2 DEF Stale
      <3>2. bucket.expires = time + Window /\ bucket.count = 0
        BY <2>2 DEF Current
      <3> QED
        BY <2>1, <3>1, <3>2
    <2>3. CASE swept[key] # NoBucket
      <3> DEFINE b == map[key]
      <3>1. swept[key] = b /\ b \in Bucket /\ b # NoBucket
        BY <1>2, <2>3
      <3>2. bucket = Current(b, time)
        BY <3>1
      <3> HIDE DEF b, bucket
      <3>3. CASE b.expires <= time
        <4>1. bucket.expires = time + Window /\ bucket.count = 0
          BY <3>1, <3>2, <3>3 DEF Current
        <4> QED
          BY <2>1, <3>3, <4>1 DEF b
      <3>4. CASE ~(b.expires <= time)
        <4>1. bucket = b
          BY <3>1, <3>2, <3>4 DEF Current
        <4>2. b.expires > time
          BY <3>1, <3>4 DEF Bucket
        <4> QED
          BY <2>1, <3>1, <4>1, <4>2 DEF b
      <3> QED
        BY <3>3, <3>4
    <2> QED
      BY <2>2, <2>3
  <1>4. /\ taken \in Bucket
        /\ taken.expires = bucket.expires /\ taken.count = bucket.count + 1
    <2> HIDE DEF bucket
    <2>1. taken \in Bucket
      BY <1>3, ChargeFacts
    <2> QED
      BY <1>3, <2>1 DEF Bucket
  <1>5. CASE Busy(map, key, time)
    <2>1. after[key] = NoBucket /\ add = 0
      BY <1>5 DEF AfterAcquire, Admits, Busy
    <2>2. map[key] = NoBucket \/ Stale(map[key], time)
      BY <1>2, <1>5 DEF Busy
    <2> QED
      BY <2>1, <2>2
  <1>6. CASE ~Busy(map, key, time) /\ Limited(key, bucket)
    <2>1. after = [swept EXCEPT ![key] = bucket] /\ add = 0
      BY <1>6 DEF AfterAcquire, Admits
    <2>2. after[key] = bucket /\ after[key] # NoBucket
      <3> HIDE DEF swept, bucket, after
      <3> QED
        BY <1>1, <1>3, <2>1, LimitTypes DEF Buckets
    <2>3. bucket.count \in Nat
      BY <1>3 DEF Bucket
    <2> HIDE DEF bucket, after, add
    <2> QED
      BY <1>3, <2>1, <2>2, <2>3 DEF after, add
  <1>7. CASE ~Busy(map, key, time) /\ ~Limited(key, bucket)
    <2>1. after = [swept EXCEPT ![key] = taken] /\ add = 1
      BY <1>7 DEF AfterAcquire, Admits
    <2>2. after[key] = taken /\ after[key] # NoBucket
      <3> HIDE DEF swept, taken, after
      <3> QED
        BY <1>1, <1>4, <2>1, LimitTypes DEF Buckets
    <2>3. bucket.count \in Nat /\ RateLimit(key) \in Nat
      BY <1>3, LimiterAssumption DEF Bucket, RateLimit
    <2>4. bucket.count < RateLimit(key)
      BY <1>7, <2>3 DEF Limited
    <2> HIDE DEF bucket, taken, after, add
    <2> QED
      BY <1>3, <1>4, <2>1, <2>2, <2>3, <2>4 DEF after, add
  <1> QED
    BY <1>5, <1>6, <1>7

(* A sweep at a later time keeps fewer entries.                              *)
LEMMA LiveFacts ==
  ASSUME NEW map \in Buckets, NEW t \in Nat, NEW u \in Nat
  PROVE  /\ Live(map, t) \in SUBSET Targets
         /\ IsFiniteSet(Live(map, t)) /\ Cardinality(Live(map, t)) \in Nat
         /\ t <= u => /\ Live(map, u) \subseteq Live(map, t)
                      /\ Cardinality(Live(map, u)) <= Cardinality(Live(map, t))
  <1>1. Live(map, t) \in SUBSET Targets /\ Live(map, u) \in SUBSET Targets
    BY DEF Live
  <1>2. IsFiniteSet(Live(map, t)) /\ Cardinality(Live(map, t)) \in Nat
    BY <1>1, LimiterAssumption, FS_Subset, FS_CardinalityType
  <1>3. ASSUME t <= u PROVE Live(map, u) \subseteq Live(map, t)
    <2> SUFFICES ASSUME NEW k \in Live(map, u) PROVE k \in Live(map, t)
      OBVIOUS
    <2>1. k \in Targets /\ k \in Keys /\ map[k] # NoBucket
      BY DEF Live, Keys
    <2>2. map[k] \in Bucket
      BY <2>1 DEF Buckets
    <2> QED
      BY <1>3, <2>1, <2>2 DEF Live, Bucket
  <1>4. t <= u => Cardinality(Live(map, u)) <= Cardinality(Live(map, t))
    BY <1>2, <1>3, FS_Subset
  <1> QED
    BY <1>1, <1>2, <1>3, <1>4

(* Sets of requests are finite, and a subset has no more of them.            *)
LEMMA Fewer ==
  ASSUME NEW P \in SUBSET Requests, NEW Q, Q \subseteq P
  PROVE  /\ Cardinality(P) \in Nat /\ Cardinality(Q) \in Nat
         /\ Cardinality(Q) <= Cardinality(P)
  <1>1. IsFiniteSet(P) /\ IsFiniteSet(Q)
    BY RouteAssumption, FS_Subset
  <1> QED
    BY <1>1, FS_Subset, FS_CardinalityType

(* The limits, the entries' fields and the clock are natural numbers.        *)
LEMMA CapacityTypes ==
  /\ GlobalActive \in Nat \ {0} /\ GlobalRate \in Nat \ {0} /\ Window \in Nat \ {0}
  /\ \A b \in Bucket : b.expires \in Nat /\ b.count \in Nat /\ b.active \in Nat
  /\ \A map \in Buckets, k \in Keys : map[k] # NoBucket => map[k] \in Bucket
  /\ Global \in Keys /\ Global \notin Targets /\ Targets \subseteq Keys
  BY LimiterAssumption DEF Bucket, Buckets, Keys

(* What a release or a counted failure leaves: the same windows and counts.  *)
Kept(map, after) ==
  \A k \in Keys :
    /\ after[k] = NoBucket <=> map[k] = NoBucket
    /\ map[k] # NoBucket => /\ after[k].expires = map[k].expires
                            /\ after[k].count = map[k].count
                            /\ after[k].active <= map[k].active

(* Giving back a slot keeps windows and counts.                              *)
LEMMA ReleaseKeeps ==
  ASSUME NEW map \in Buckets, NEW key \in Keys, Active(map, key) > 0
  PROVE  Kept(map, AfterRelease(map, key))
  <1> DEFINE b == [map[key] EXCEPT !.active = @ - 1]
  <1>1. map[key] \in Bucket /\ map[key] # NoBucket /\ map[key].active > 0
    BY DEF Active, Buckets
  <1>2. /\ b \in Bucket /\ b.expires = map[key].expires /\ b.count = map[key].count
        /\ b.active = map[key].active - 1
    BY <1>1 DEF Bucket
  <1>3. AfterRelease(map, key) = [map EXCEPT ![key] = b]
    BY <1>1 DEF AfterRelease
  <1> HIDE DEF b
  <1>4. \A k \in Keys : AfterRelease(map, key)[k] = IF k = key THEN b ELSE map[k]
    BY <1>3 DEF Buckets
  <1>5. \A k \in Keys : map[k] # NoBucket => map[k].active <= map[k].active
    BY CapacityTypes
  <1>6. b.active <= map[key].active /\ b # NoBucket
    BY <1>1, <1>2, CapacityTypes, LimitTypes
  <1> QED
    BY <1>1, <1>2, <1>4, <1>5, <1>6 DEF Kept

(* So does counting a failure.                                               *)
LEMMA FailureKeeps ==
  ASSUME NEW map \in Buckets, NEW key \in Keys, Active(map, key) > 0
  PROVE  /\ AfterFailure(map, key) \in Buckets
         /\ Active(AfterFailure(map, key), key) > 0
         /\ Kept(map, AfterFailure(map, key))
  <1> DEFINE b == [map[key] EXCEPT !.failures = @ + 1]
  <1>1. map[key] \in Bucket /\ map[key] # NoBucket /\ map[key].active > 0
    BY DEF Active, Buckets
  <1>2. /\ b \in Bucket /\ b.expires = map[key].expires /\ b.count = map[key].count
        /\ b.active = map[key].active
    BY <1>1 DEF Bucket
  <1>3. AfterFailure(map, key) = [map EXCEPT ![key] = b]
    BY <1>1 DEF AfterFailure
  <1> HIDE DEF b
  <1>4. /\ AfterFailure(map, key) \in Buckets
        /\ \A k \in Keys : AfterFailure(map, key)[k] = IF k = key THEN b ELSE map[k]
    BY <1>2, <1>3 DEF Buckets
  <1>5. \A k \in Keys : map[k] # NoBucket => map[k].active <= map[k].active
    BY CapacityTypes
  <1>6. b.active <= map[key].active /\ b # NoBucket
    BY <1>1, <1>2, CapacityTypes, LimitTypes
  <1>7. Kept(map, AfterFailure(map, key))
    BY <1>1, <1>2, <1>4, <1>5, <1>6 DEF Kept
  <1>8. Active(AfterFailure(map, key), key) > 0
    BY <1>1, <1>2, <1>4, <1>6 DEF Active
  <1> QED
    BY <1>4, <1>7, <1>8

(* Keeping windows and counts adds no token and moves no bound.              *)
LEMMA KeptCapacity ==
  ASSUME NEW map \in Buckets, NEW after \in Buckets, Kept(map, after),
         NEW P \in SUBSET Requests, NEW Q, Q \subseteq P,
         NEW time \in Nat, CapacityOK(map, P, time)
  PROVE  CapacityOK(after, Q, time)
  <1>1. \A t \in Nat : Live(after, t) \subseteq Live(map, t)
    <2> SUFFICES ASSUME NEW t \in Nat, NEW k \in Live(after, t) PROVE k \in Live(map, t)
      OBVIOUS
    <2>1. k \in Targets /\ k \in Keys /\ after[k] # NoBucket
      BY CapacityTypes DEF Live
    <2>2. map[k] # NoBucket /\ after[k].expires = map[k].expires /\ after[k].active <= map[k].active
      BY <2>1 DEF Kept
    <2>3. map[k] \in Bucket /\ after[k] \in Bucket
      BY <2>1, <2>2, CapacityTypes
    <2>4. map[k].active \in Nat /\ after[k].active \in Nat
      BY <2>3, CapacityTypes
    <2> QED
      BY <2>1, <2>2, <2>4 DEF Live
  <1>2. \A t \in Nat : /\ Tokens(map, P, t) \in Nat /\ Tokens(after, Q, t) \in Nat
                       /\ Tokens(after, Q, t) <= Tokens(map, P, t)
    <2> TAKE t \in Nat
    <2>1. /\ Cardinality(Live(map, t)) \in Nat /\ Cardinality(Live(after, t)) \in Nat
          /\ Cardinality(Live(after, t)) <= Cardinality(Live(map, t))
      BY <1>1, LiveFacts, FS_Subset
    <2>2. /\ Cardinality(P) \in Nat /\ Cardinality(Q) \in Nat
          /\ Cardinality(Q) <= Cardinality(P)
      BY Fewer
    <2> QED
      BY <2>1, <2>2 DEF Tokens
  <1>3. \A k \in Keys : after[k] # NoBucket => after[k].expires <= time + Window
    BY DEF CapacityOK, Kept
  <1>4. CASE after[Global] = NoBucket
    <2>1. map[Global] = NoBucket
      BY <1>4, CapacityTypes DEF Kept
    <2>2. Tokens(map, P, time) <= GlobalActive + GlobalRate
      BY <2>1 DEF CapacityOK
    <2>3. Tokens(after, Q, time) <= GlobalActive + GlobalRate
      BY <1>2, <2>2, CapacityTypes
    <2> QED
      BY <1>3, <1>4, <2>3 DEF CapacityOK
  <1>5. CASE after[Global] # NoBucket
    <2>1. /\ map[Global] # NoBucket /\ after[Global].expires = map[Global].expires
          /\ after[Global].count = map[Global].count
      BY <1>5, CapacityTypes DEF Kept
    <2>2. map[Global].expires \in Nat /\ map[Global].count \in Nat
      BY <2>1, CapacityTypes
    <2>3. /\ map[Global].count <= GlobalRate
          /\ Tokens(map, P, map[Global].expires) <= GlobalActive + map[Global].count
          /\ Tokens(map, P, time) <= GlobalActive + GlobalRate + map[Global].count
      BY <2>1 DEF CapacityOK
    <2>4. /\ Tokens(after, Q, map[Global].expires) <= GlobalActive + map[Global].count
          /\ Tokens(after, Q, time) <= GlobalActive + GlobalRate + map[Global].count
      BY <1>2, <2>2, <2>3, CapacityTypes
    <2> QED
      BY <1>3, <1>5, <2>1, <2>3, <2>4 DEF CapacityOK
  <1> QED
    BY <1>4, <1>5

(* Time only makes entries stale.                                            *)
LEMMA TickCapacity ==
  ASSUME NEW map \in Buckets, NEW P \in SUBSET Requests, NEW time \in Nat,
         CapacityOK(map, P, time)
  PROVE  CapacityOK(map, P, time + 1)
  <1>1. /\ Cardinality(P) \in Nat
        /\ Cardinality(Live(map, time)) \in Nat /\ Cardinality(Live(map, time + 1)) \in Nat
        /\ Cardinality(Live(map, time + 1)) <= Cardinality(Live(map, time))
    <2>1. time + 1 \in Nat /\ time <= time + 1
      OBVIOUS
    <2> QED
      BY <2>1, LiveFacts, Fewer
  <1>2. \A k \in Keys : map[k] # NoBucket => map[k].expires <= time + 1 + Window
    BY CapacityTypes DEF CapacityOK
  <1>3. /\ Tokens(map, P, time) \in Nat /\ Tokens(map, P, time + 1) \in Nat
        /\ Tokens(map, P, time + 1) <= Tokens(map, P, time)
    BY <1>1 DEF Tokens
  <1>4. map[Global] # NoBucket => map[Global].count \in Nat
    BY CapacityTypes
  <1>5. map[Global] = NoBucket => Tokens(map, P, time + 1) <= GlobalActive + GlobalRate
    BY <1>3, CapacityTypes DEF CapacityOK
  <1>6. map[Global] # NoBucket =>
          Tokens(map, P, time + 1) <= GlobalActive + GlobalRate + map[Global].count
    BY <1>3, <1>4, CapacityTypes DEF CapacityOK
  <1> QED
    BY <1>2, <1>5, <1>6 DEF CapacityOK

(* A request that creates an entry was itself one of the tokens.             *)
LEMMA TargetCapacity ==
  ASSUME NEW map \in Buckets, NEW P \in SUBSET Requests, NEW r \in P,
         NEW key \in Targets, NEW time \in Nat,
         CapacityOK(map, P, time), Active(map, Global) > 0
  PROVE  CapacityOK(AfterAcquire(map, key, time), P \ {r}, time)
  <1> DEFINE after == AfterAcquire(map, key, time)
             Q == P \ {r}
  <1>1. key \in Keys /\ key # Global
    BY CapacityTypes
  <1>2. after \in Buckets
    BY <1>1, AcquireFacts
  <1>3. \A k \in Keys \ {key} :
          \/ after[k] = map[k]
          \/ after[k] = NoBucket /\ map[k] # NoBucket /\ Stale(map[k], time)
    BY <1>1, AcquireOthers
  <1>4. map[Global] # NoBucket /\ map[Global].active > 0
    BY DEF Active
  <1>5. after[Global] = map[Global]
    BY <1>1, <1>3, <1>4, CapacityTypes DEF Stale
  <1>6. \A t \in Nat : Live(after, t) \subseteq Live(map, t) \cup {key}
    <2> HIDE DEF after
    <2> QED
      BY <1>3, CapacityTypes DEF Live
  <1>7. Cardinality(P) \in Nat /\ Cardinality(Q) = Cardinality(P) - 1
    BY Counting
  <1>8. \A t \in Nat : /\ Tokens(map, P, t) \in Nat /\ Tokens(after, Q, t) \in Nat
                       /\ Tokens(after, Q, t) <= Tokens(map, P, t)
    <2> HIDE DEF after
    <2> TAKE t \in Nat
    <2>1. IsFiniteSet(Live(map, t)) /\ Cardinality(Live(map, t)) \in Nat
      BY LiveFacts
    <2>2. Cardinality(Live(after, t)) \in Nat
      BY <1>2, LiveFacts
    <2> DEFINE L == Live(map, t)
    <2>6. IsFiniteSet(L) /\ Cardinality(L) \in Nat
      BY <2>1
    <2> HIDE DEF L
    <2>7. /\ IsFiniteSet(L \cup {key})
          /\ \/ Cardinality(L \cup {key}) = Cardinality(L)
             \/ Cardinality(L \cup {key}) = Cardinality(L) + 1
      BY <2>6, FS_AddElement
    <2>3. /\ IsFiniteSet(Live(map, t) \cup {key})
          /\ Cardinality(Live(map, t) \cup {key}) \in Nat
          /\ Cardinality(Live(map, t) \cup {key}) <= Cardinality(Live(map, t)) + 1
      BY <2>6, <2>7 DEF L
    <2>4. Cardinality(Live(after, t)) <= Cardinality(Live(map, t) \cup {key})
      BY <1>6, <2>3, FS_Subset
    <2>5. Cardinality(Q) \in Nat
      BY Fewer
    <2> QED
      BY <1>7, <2>1, <2>2, <2>3, <2>4, <2>5 DEF Tokens
  <1>9. \A k \in Keys : after[k] # NoBucket => after[k].expires <= time + Window
    <2>1. \A k \in Keys : map[k] # NoBucket => map[k].expires <= time + Window
      BY DEF CapacityOK
    <2>2. time + Window <= time + Window
      BY CapacityTypes
    <2>3. after[key] # NoBucket => after[key].expires <= time + Window
      BY <1>1, <2>1, <2>2, AcquireOwn
    <2> HIDE DEF after
    <2> QED
      BY <1>3, <2>1, <2>3
  <1> HIDE DEF after, Q
  <1>10. map[Global].expires \in Nat /\ map[Global].count \in Nat
    BY <1>4, CapacityTypes
  <1>11. /\ map[Global].count <= GlobalRate
         /\ Tokens(map, P, map[Global].expires) <= GlobalActive + map[Global].count
         /\ Tokens(map, P, time) <= GlobalActive + GlobalRate + map[Global].count
    BY <1>4 DEF CapacityOK
  <1>12. /\ Tokens(after, Q, map[Global].expires) <= GlobalActive + map[Global].count
         /\ Tokens(after, Q, time) <= GlobalActive + GlobalRate + map[Global].count
    BY <1>8, <1>10, <1>11, CapacityTypes
  <1>13. CapacityOK(after, Q, time)
    BY <1>4, <1>5, <1>9, <1>11, <1>12 DEF CapacityOK
  <1> QED
    BY <1>13 DEF after, Q

(* A way to show CapacityOK without looking at the map.                      *)
LEMMA CapacityIntro ==
  ASSUME NEW map, NEW P, NEW time,
         \A k \in Keys : map[k] # NoBucket => map[k].expires <= time + Window,
         \/ /\ map[Global] = NoBucket
            /\ Tokens(map, P, time) <= GlobalActive + GlobalRate
         \/ /\ map[Global] # NoBucket
            /\ map[Global].count <= GlobalRate
            /\ Tokens(map, P, map[Global].expires) <= GlobalActive + map[Global].count
            /\ Tokens(map, P, time) <= GlobalActive + GlobalRate + map[Global].count
  PROVE  CapacityOK(map, P, time)
  BY DEF CapacityOK

(* The targets with a connection the limiter counts.                         *)
Open(map) == {k \in Targets : Active(map, k) > 0}

(* Admitting a request adds a token, and starts a window with no more tokens *)
(* that outlive it than there are requests in flight.                        *)
LEMMA GlobalCapacity ==
  ASSUME NEW map \in Buckets, NEW P \in SUBSET Requests, NEW Q \in SUBSET Requests,
         NEW time \in Nat, CapacityOK(map, P, time),
         Cardinality(Q) =
           IF Admits(map, Global, time) THEN Cardinality(P) + 1 ELSE Cardinality(P),
         Cardinality(Q) + Cardinality(Open(map)) <= GlobalActive
  PROVE  CapacityOK(AfterAcquire(map, Global, time), Q, time)
  <1> DEFINE after == AfterAcquire(map, Global, time)
             add == IF Admits(map, Global, time) THEN 1 ELSE 0
  <1>1. after \in Buckets
    BY AcquireFacts, CapacityTypes
  <1>2. \A k \in Keys \ {Global} :
          \/ after[k] = map[k]
          \/ after[k] = NoBucket /\ map[k] # NoBucket /\ Stale(map[k], time)
    BY AcquireOthers, CapacityTypes
  <1>3. \/ /\ after[Global] = NoBucket /\ add = 0
           /\ map[Global] = NoBucket \/ Stale(map[Global], time)
        \/ /\ after[Global] # NoBucket
           /\ map[Global] = NoBucket \/ map[Global].expires <= time
           /\ after[Global].expires = time + Window
           /\ after[Global].count = add
        \/ /\ after[Global] # NoBucket
           /\ map[Global] # NoBucket /\ map[Global].expires > time
           /\ after[Global].expires = map[Global].expires
           /\ after[Global].count = map[Global].count + add
           /\ add = 1 => map[Global].count < GlobalRate
    BY AcquireOwn, CapacityTypes DEF RateLimit
  <1>4. add \in {0, 1} /\ Cardinality(Q) = Cardinality(P) + add
    <2>1. Cardinality(P) \in Nat
      BY Fewer
    <2> QED
      BY <2>1
  <1> SUFFICES CapacityOK(after, Q, time)
    OBVIOUS
  <1> HIDE DEF after, add
  <1>5. \A t \in Nat : Live(after, t) \subseteq Live(map, t)
    BY <1>2, CapacityTypes DEF Live
  <1>6. \A t \in Nat : /\ Tokens(map, P, t) \in Nat /\ Tokens(after, Q, t) \in Nat
                       /\ Tokens(after, Q, t) <= Tokens(map, P, t) + add
    <2> TAKE t \in Nat
    <2>1. /\ Cardinality(Live(map, t)) \in Nat /\ Cardinality(Live(after, t)) \in Nat
          /\ Cardinality(Live(after, t)) <= Cardinality(Live(map, t))
      BY <1>1, <1>5, LiveFacts, FS_Subset
    <2>2. Cardinality(P) \in Nat /\ Cardinality(Q) \in Nat
      BY Fewer
    <2> QED
      BY <1>4, <2>1, <2>2 DEF Tokens
  <1>7. \A k \in Keys : map[k] # NoBucket => map[k].expires <= time + Window
    BY DEF CapacityOK
  <1>8. \A k \in Keys : after[k] # NoBucket => after[k].expires <= time + Window
    <2>1. time + Window <= time + Window
      BY CapacityTypes
    <2>2. after[Global] # NoBucket => after[Global].expires <= time + Window
      BY <1>3, <1>7, <2>1, CapacityTypes
    <2> QED
      BY <1>2, <1>7, <2>2
  <1>9. map[Global] = NoBucket \/ map[Global].expires <= time =>
          Tokens(map, P, time) <= GlobalActive + GlobalRate
    <2>1. CASE map[Global] = NoBucket
      BY <2>1 DEF CapacityOK
    <2>2. CASE map[Global] # NoBucket /\ map[Global].expires <= time
      <3> DEFINE e == map[Global].expires
      <3>1. e \in Nat /\ map[Global].count \in Nat
        BY <2>2, CapacityTypes
      <3>2. /\ map[Global].count <= GlobalRate
            /\ Tokens(map, P, e) <= GlobalActive + map[Global].count
        BY <2>2 DEF CapacityOK
      <3> HIDE DEF e
      <3>3. e <= time
        BY <2>2 DEF e
      <3>4. Cardinality(Live(map, time)) <= Cardinality(Live(map, e))
        BY <3>1, <3>3, LiveFacts
      <3>5. /\ Cardinality(Live(map, time)) \in Nat /\ Cardinality(Live(map, e)) \in Nat
            /\ Cardinality(P) \in Nat
        BY <3>1, LiveFacts, Fewer
      <3>6. Tokens(map, P, time) <= Tokens(map, P, e) /\ Tokens(map, P, time) \in Nat
            /\ Tokens(map, P, e) \in Nat
        BY <3>4, <3>5 DEF Tokens
      <3> QED
        BY <3>1, <3>2, <3>6, CapacityTypes
    <2> QED
      BY <2>1, <2>2
  <1>10. CASE after[Global] = NoBucket
    <2>1. add = 0 /\ (map[Global] = NoBucket \/ map[Global].expires <= time)
      BY <1>3, <1>10 DEF Stale
    <2>2. Tokens(after, Q, time) <= GlobalActive + GlobalRate
      BY <1>6, <1>9, <2>1, CapacityTypes
    <2> QED
      BY <1>8, <1>10, <2>2, CapacityIntro
  <1>11. CASE /\ after[Global] # NoBucket
              /\ map[Global] = NoBucket \/ map[Global].expires <= time
              /\ after[Global].expires = time + Window
              /\ after[Global].count = add
    <2> DEFINE e == time + Window
    <2>1. e \in Nat
      BY CapacityTypes
    <2>2. Live(after, e) \subseteq Open(map)
      <3> SUFFICES ASSUME NEW k \in Live(after, e) PROVE k \in Open(map)
        OBVIOUS
      <3>1. k \in Live(map, e)
        BY <1>5, <2>1
      <3>2. /\ k \in Targets /\ k \in Keys /\ map[k] # NoBucket
            /\ map[k].expires > e \/ map[k].active > 0
        BY <3>1, CapacityTypes DEF Live
      <3>3. map[k].expires <= e /\ map[k].expires \in Nat
        BY <1>7, <3>2, CapacityTypes
      <3>4. map[k].active > 0
        BY <2>1, <3>2, <3>3
      <3> QED
        BY <3>2, <3>4 DEF Open, Active
    <2> HIDE DEF e
    <2>3. /\ Cardinality(Open(map)) \in Nat
          /\ Cardinality(Live(after, e)) <= Cardinality(Open(map))
      <3>1. IsFiniteSet(Open(map))
        BY LimiterAssumption, FS_Subset DEF Open
      <3> QED
        BY <2>2, <3>1, FS_Subset, FS_CardinalityType
    <2>4. Cardinality(Live(after, e)) \in Nat /\ Cardinality(Q) \in Nat
      BY <1>1, <2>1, LiveFacts, Fewer
    <2>5. Tokens(after, Q, e) <= GlobalActive + add
      BY <1>4, <2>3, <2>4, CapacityTypes DEF Tokens
    <2>6. Tokens(after, Q, time) <= GlobalActive + GlobalRate + add
      BY <1>4, <1>6, <1>9, <1>11, CapacityTypes
    <2>7. add <= GlobalRate
      BY <1>4, CapacityTypes
    <2>8. after[Global].expires = e
      BY <1>11 DEF e
    <2> QED
      BY <1>8, <1>11, <2>5, <2>6, <2>7, <2>8, CapacityIntro
  <1>12. CASE /\ after[Global] # NoBucket
              /\ map[Global] # NoBucket /\ map[Global].expires > time
              /\ after[Global].expires = map[Global].expires
              /\ after[Global].count = map[Global].count + add
              /\ add = 1 => map[Global].count < GlobalRate
    <2> DEFINE e == map[Global].expires
               n == map[Global].count
    <2>1. e \in Nat /\ n \in Nat
      BY <1>12, CapacityTypes
    <2>2. /\ n <= GlobalRate /\ Tokens(map, P, e) <= GlobalActive + n
          /\ Tokens(map, P, time) <= GlobalActive + GlobalRate + n
      BY <1>12 DEF CapacityOK
    <2>3. add = 1 => n < GlobalRate
      BY <1>12
    <2>4. after[Global].expires = e /\ after[Global].count = n + add
      BY <1>12
    <2> HIDE DEF e, n
    <2>5. n + add <= GlobalRate
      BY <1>4, <2>1, <2>2, <2>3, CapacityTypes
    <2>6. /\ Tokens(after, Q, e) <= GlobalActive + (n + add)
          /\ Tokens(after, Q, time) <= GlobalActive + GlobalRate + (n + add)
      BY <1>4, <1>6, <2>1, <2>2, CapacityTypes
    <2> QED
      BY <1>8, <1>12, <2>4, <2>5, <2>6, CapacityIntro
  <1> QED
    BY <1>3, <1>10, <1>11, <1>12

(* A target with an open connection has a request executing on it, so the    *)
(* requests in flight are at least the pending ones and those targets.       *)
LEMMA InFlight ==
  ASSUME RouteInv
  PROVE  /\ Pending \in SUBSET Requests
         /\ Cardinality(Pending) + Cardinality(Open(buckets)) <= Cardinality(Holders(Global))
         /\ Cardinality(Pending) \in Nat /\ Cardinality(Open(buckets)) \in Nat
         /\ Cardinality(Holders(Global)) \in Nat
  <1> DEFINE Running == {r \in Requests : step[r] = "execute"}
             holder == [k \in Open(buckets) |-> CHOOSE r \in Requests : r \in Holders(k)]
  <1>1. Pending \in SUBSET Requests /\ Running \in SUBSET Requests
    BY DEF Pending
  <1>2. IsFiniteSet(Pending) /\ IsFiniteSet(Running)
    BY <1>1, Counting, RouteAssumption, FS_Subset
  <1>3. \A k \in Open(buckets) :
          /\ k \in Targets
          /\ holder[k] \in Requests /\ holder[k] \in Holders(k)
    <2> SUFFICES ASSUME NEW k \in Open(buckets)
                 PROVE  k \in Targets /\ \E r \in Requests : r \in Holders(k)
      OBVIOUS
    <2>1. k \in Targets /\ k \in Keys /\ Active(buckets, k) > 0
      BY CapacityTypes DEF Open
    <2>2. Cardinality(Holders(k)) > 0
      BY <2>1 DEF RouteInv, SlotsAccounted
    <2>3. Holders(k) # {}
      BY <2>2, FS_EmptySet
    <2> QED
      BY <2>1, <2>3, HoldersFacts
  <1>11. holder = [k \in Open(buckets) |-> holder[k]]
    OBVIOUS
  <1> HIDE DEF holder
  <1>4. \A k \in Open(buckets) : holder[k] \in Running /\ target[holder[k]] = k
    <2> TAKE k \in Open(buckets)
    <2>1. k # Global /\ holder[k] \in Requests /\ holder[k] \in Holders(k)
      BY <1>3, CapacityTypes
    <2> QED
      BY <2>1 DEF Holders
  <1>5. holder \in [Open(buckets) -> Running]
    BY <1>4, <1>11
  <1>6. holder \in Injection(Open(buckets), Running)
    BY <1>4, <1>5 DEF Injection, IsInjective
  <1>7. /\ IsFiniteSet(Open(buckets))
        /\ Cardinality(Open(buckets)) <= Cardinality(Running)
    BY <1>2, <1>6, FS_Injection
  <1>8. Holders(Global) = Pending \cup Running /\ Pending \cap Running = {}
    BY DEF Holders, Pending, RouteInv, TypeOK, Steps
  <1>9. /\ Cardinality(Pending) \in Nat /\ Cardinality(Running) \in Nat
        /\ Cardinality(Open(buckets)) \in Nat
    BY <1>2, <1>7, FS_CardinalityType
  <1>10. Cardinality(Holders(Global)) = Cardinality(Pending) + Cardinality(Running)
    <2>1. Cardinality(Pending \cup Running) =
            Cardinality(Pending) + Cardinality(Running) - Cardinality(Pending \cap Running)
      BY <1>2, FS_Union
    <2>2. Cardinality(Pending \cap Running) = 0
      BY <1>8, FS_EmptySet
    <2> HIDE DEF Running
    <2> QED
      BY <1>8, <1>9, <2>1, <2>2
  <1> QED
    BY <1>1, <1>7, <1>9, <1>10

(* The map starts empty.                                                     *)
LEMMA InitCapacity ==
  Init => CapacityInv
  <1> SUFFICES ASSUME Init PROVE CapacityInv
    OBVIOUS
  <1>1. /\ now = 0 /\ Pending = {}
        /\ \A k \in Keys : buckets[k] = NoBucket
    BY DEF Init, Pending
  <1>2. Live(buckets, now) = {}
    BY <1>1, CapacityTypes DEF Live
  <1>3. Tokens(buckets, Pending, now) <= GlobalActive + GlobalRate
    <2>1. Cardinality({}) = 0
      BY FS_EmptySet
    <2>2. Tokens(buckets, Pending, now) = 0
      BY <1>1, <1>2, <2>1 DEF Tokens
    <2> QED
      BY <2>2, CapacityTypes
  <1> QED
    BY <1>1, <1>3, CapacityTypes, CapacityIntro DEF CapacityInv

(* Every response gives back slots and adds no token.                        *)
LEMMA RespondCapacity ==
  ASSUME RouteInv, NEW r \in Requests, NEW map \in Buckets, NEW P \in SUBSET Requests,
         Respond(r, map), Active(map, Global) > 0, UNCHANGED now,
         Pending \ {r} \subseteq P, CapacityOK(map, P, now)
  PROVE  CapacityInv'
  <1>1. /\ buckets' = AfterRelease(map, Global)
        /\ step' = [step EXCEPT ![r] = "idle"]
    BY DEF Respond
  <1>2. Pending' \subseteq P
    <2>1. Pending' = Pending \ {r}
      BY <1>1 DEF Pending, RouteInv, TypeOK
    <2> QED
      BY <2>1
  <1>3. AfterRelease(map, Global) \in Buckets /\ Kept(map, AfterRelease(map, Global))
    BY ReleaseFacts, ReleaseKeeps, CapacityTypes
  <1>4. now \in Nat
    BY RouteAssumption DEF RouteInv, TypeOK
  <1>5. CapacityOK(AfterRelease(map, Global), Pending', now)
    BY <1>2, <1>3, <1>4, KeptCapacity
  <1> QED
    BY <1>1, <1>5 DEF CapacityInv

(* What every action finds.                                                  *)
LEMMA CapacityContext ==
  ASSUME RouteInv
  PROVE  /\ now \in Nat /\ buckets \in Buckets /\ Pending \in SUBSET Requests
         /\ \A r \in Requests : step[r] # "idle" => Active(buckets, Global) > 0
         /\ Active(buckets, Global) = Cardinality(Holders(Global))
         /\ Cardinality(Holders(Global)) <= GlobalActive
  <1>1. now \in Nat /\ buckets \in Buckets /\ Pending \in SUBSET Requests
    BY RouteAssumption DEF RouteInv, TypeOK, Pending
  <1>2. /\ Active(buckets, Global) = Cardinality(Holders(Global))
        /\ Cardinality(Holders(Global)) <= GlobalActive
    BY CapacityTypes DEF RouteInv, SlotsAccounted, ConcurrencyBounded, ActiveLimit
  <1>3. \A r \in Requests : step[r] # "idle" => Cardinality(Holders(Global)) > 0
    <2> SUFFICES ASSUME NEW r \in Requests, step[r] # "idle"
                 PROVE  Cardinality(Holders(Global)) > 0
      OBVIOUS
    <2>1. r \in Holders(Global)
      BY DEF Holders
    <2> QED
      BY <2>1, HoldersFacts, Counting
  <1> QED
    BY <1>1, <1>2, <1>3

(* A request arrives.                                                        *)
LEMMA ArriveCapacity ==
  ASSUME RouteInv, CapacityInv, NEW r \in Requests, Arrive(r)
  PROVE  CapacityInv'
  <1>1. /\ step[r] = "idle" /\ now' = now
        /\ buckets' = AfterAcquire(buckets, Global, now)
        /\ step' = [step EXCEPT ![r] = IF Admits(buckets, Global, now) THEN "body" ELSE "idle"]
    BY DEF Arrive
  <1>2. /\ r \notin Pending
        /\ Pending' = IF Admits(buckets, Global, now) THEN Pending \cup {r} ELSE Pending
    BY <1>1 DEF Pending, RouteInv, TypeOK
  <1>3. /\ Pending' \in SUBSET Requests
        /\ Cardinality(Pending) \in Nat
        /\ Cardinality(Pending') =
             IF Admits(buckets, Global, now) THEN Cardinality(Pending) + 1 ELSE Cardinality(Pending)
    BY <1>2, CapacityContext, Counting
  <1>4. Admits(buckets, Global, now) => Cardinality(Holders(Global)) < GlobalActive
    BY CapacityContext, CapacityTypes, AcquireFacts DEF ActiveLimit
  <1>5. Cardinality(Pending') + Cardinality(Open(buckets)) <= GlobalActive
    BY <1>3, <1>4, CapacityContext, CapacityTypes, InFlight
  <1>6. CapacityOK(AfterAcquire(buckets, Global, now), Pending', now)
    <2>1. /\ now \in Nat /\ buckets \in Buckets /\ Pending \in SUBSET Requests
          /\ CapacityOK(buckets, Pending, now)
      BY CapacityContext DEF CapacityInv
    <2> QED
      BY <1>3, <1>5, <2>1, GlobalCapacity
  <1> QED
    BY <1>1, <1>6 DEF CapacityInv

(* Its body is read.                                                         *)
LEMMA BodyCapacity ==
  ASSUME RouteInv, CapacityInv, NEW r \in Requests, Body(r)
  PROVE  CapacityInv'
  <1>1. step[r] = "body" /\ now' = now
    BY DEF Body
  <1>2. CASE step' = [step EXCEPT ![r] = "dns"] /\ UNCHANGED buckets
    <2>1. Pending' = Pending
      BY <1>1, <1>2 DEF Pending, RouteInv, TypeOK
    <2> QED
      BY <1>1, <1>2, <2>1 DEF CapacityInv
  <1>3. CASE Respond(r, buckets)
    <2>1. /\ buckets \in Buckets /\ Pending \in SUBSET Requests
          /\ Active(buckets, Global) > 0
      BY <1>1, CapacityContext
    <2>2. CapacityOK(buckets, Pending, now) /\ Pending \ {r} \subseteq Pending
      BY DEF CapacityInv
    <2> QED
      BY <1>1, <1>3, <2>1, <2>2, RespondCapacity
  <1> QED
    BY <1>2, <1>3 DEF Body

(* Its address is resolved, and may get an entry.                            *)
LEMMA DnsCapacity ==
  ASSUME RouteInv, CapacityInv, NEW r \in Requests, Dns(r)
  PROVE  CapacityInv'
  <1>1. step[r] = "dns" /\ now' = now /\ r \in Pending
    BY DEF Dns, Pending
  <1>2. /\ now \in Nat /\ buckets \in Buckets /\ Pending \in SUBSET Requests
        /\ Active(buckets, Global) > 0
        /\ CapacityOK(buckets, Pending, now)
    BY <1>1, CapacityContext DEF CapacityInv
  <1>3. CASE Respond(r, buckets) /\ UNCHANGED target
    <2>1. Pending \ {r} \subseteq Pending
      OBVIOUS
    <2> QED
      BY <1>1, <1>2, <1>3, <2>1, RespondCapacity
  <1>4. ASSUME NEW key \in Targets,
               buckets' = AfterAcquire(buckets, key, now),
               step' = [step EXCEPT ![r] = "execute"]
        PROVE  CapacityInv'
    <2>1. Pending' = Pending \ {r}
      BY <1>4 DEF Pending, RouteInv, TypeOK
    <2>2. CapacityOK(AfterAcquire(buckets, key, now), Pending \ {r}, now)
      BY <1>1, <1>2, TargetCapacity
    <2> QED
      BY <1>1, <1>4, <2>1, <2>2 DEF CapacityInv
  <1>5. ASSUME NEW key \in Targets, Respond(r, AfterAcquire(buckets, key, now))
        PROVE  CapacityInv'
    <2>1. CapacityOK(AfterAcquire(buckets, key, now), Pending \ {r}, now)
      BY <1>1, <1>2, TargetCapacity
    <2>2. key \in Keys /\ key # Global /\ Global \in Keys
      BY CapacityTypes
    <2>3. /\ AfterAcquire(buckets, key, now) \in Buckets
          /\ Active(AfterAcquire(buckets, key, now), Global) > 0
      BY <1>2, <2>2, AcquireFacts
    <2>4. Pending \ {r} \in SUBSET Requests /\ Pending \ {r} \subseteq Pending \ {r}
      BY <1>2
    <2> QED
      BY <1>1, <1>5, <2>1, <2>3, <2>4, RespondCapacity
  <1> QED
    BY <1>3, <1>4, <1>5 DEF Dns

(* Its session ends, whatever the answer to the password was.                *)
LEMMA SessionCapacity ==
  ASSUME RouteInv, CapacityInv, NEW r \in Requests, Executed(r) \/ AuthFailed(r)
  PROVE  CapacityInv'
  <1> DEFINE key == target[r]
  <1>1. step[r] = "execute" /\ now' = now
    BY DEF Executed, AuthFailed
  <1>2. /\ key \in Keys /\ key # Global /\ Global \in Keys
        /\ Active(buckets, key) > 0
    BY <1>1, Executing, CapacityTypes
  <1>3. /\ now \in Nat /\ buckets \in Buckets /\ Pending \in SUBSET Requests
        /\ Active(buckets, Global) > 0
        /\ CapacityOK(buckets, Pending, now)
    BY <1>1, CapacityContext DEF CapacityInv
  <1>4. Pending \subseteq Pending /\ Pending \ {r} \subseteq Pending
    OBVIOUS
  <1> HIDE DEF key
  <1>5. ASSUME NEW map \in Buckets, Active(map, key) > 0, Active(map, Global) > 0,
               CapacityOK(map, Pending, now), Respond(r, AfterRelease(map, key))
        PROVE  CapacityInv'
    <2>1. /\ AfterRelease(map, key) \in Buckets /\ Kept(map, AfterRelease(map, key))
          /\ Active(AfterRelease(map, key), Global) > 0
      BY <1>2, <1>5, ReleaseFacts, ReleaseKeeps
    <2>2. CapacityOK(AfterRelease(map, key), Pending, now)
      BY <1>3, <1>4, <1>5, <2>1, KeptCapacity
    <2> QED
      BY <1>1, <1>3, <1>4, <1>5, <2>1, <2>2, RespondCapacity
  <1>6. CASE Executed(r)
    <2>1. Respond(r, AfterRelease(buckets, key))
      BY <1>6 DEF Executed, key
    <2> QED
      BY <1>2, <1>3, <1>5, <2>1
  <1>7. CASE AuthFailed(r)
    <2> DEFINE map == AfterFailure(buckets, key)
    <2>1. Respond(r, AfterRelease(map, key))
      BY <1>7 DEF AuthFailed, key
    <2>2. map \in Buckets /\ Active(map, key) > 0 /\ Kept(buckets, map)
      BY <1>2, <1>3, FailureKeeps
    <2>3. Active(map, Global) > 0
      BY <1>2, <1>3 DEF AfterFailure, Active, Buckets
    <2>4. CapacityOK(map, Pending, now)
      BY <1>3, <1>4, <2>2, KeptCapacity
    <2> QED
      BY <1>5, <2>1, <2>2, <2>3, <2>4
  <1> QED
    BY <1>6, <1>7

(* Every step of the route keeps the bounds on the tokens.                   *)
LEMMA NextCapacity ==
  RouteInv /\ CapacityInv /\ [Next]_vars => CapacityInv'
  <1> SUFFICES ASSUME RouteInv, CapacityInv, [Next]_vars PROVE CapacityInv'
    OBVIOUS
  <1>1. CASE Tick
    <2>1. now' = now + 1 /\ buckets' = buckets /\ Pending' = Pending
      BY <1>1 DEF Tick, Pending
    <2> QED
      BY <2>1, CapacityContext, TickCapacity DEF CapacityInv
  <1>2. ASSUME NEW r \in Requests, Handle(r) PROVE CapacityInv'
    BY <1>2, ArriveCapacity, BodyCapacity, DnsCapacity, SessionCapacity DEF Handle
  <1>3. CASE UNCHANGED vars
    BY <1>3 DEF vars, CapacityInv, Pending
  <1> QED
    BY <1>1, <1>2, <1>3 DEF Next

(* The entries a sweep leaves.                                               *)
LEMMA SweptEntries ==
  ASSUME NEW map \in Buckets, NEW time \in Nat
  PROVE  LET swept == Sweep(map, time)
             entries == {k \in Keys : swept[k] # NoBucket}
         IN  /\ Cardinality(entries) \in Nat
             /\ Cardinality(entries) <= Cardinality(Live(map, time)) + 1
             /\ swept[Global] = NoBucket => Cardinality(entries) <= Cardinality(Live(map, time))
  <1> DEFINE swept == Sweep(map, time)
             entries == {k \in Keys : swept[k] # NoBucket}
             L == Live(map, time)
  <1>1. IsFiniteSet(L) /\ Cardinality(L) \in Nat
    BY LiveFacts
  <1>2. \A k \in entries : k = Global \/ k \in L
    <2> SUFFICES ASSUME NEW k \in entries, k # Global PROVE k \in L
      OBVIOUS
    <2>1. k \in Targets /\ map[k] # NoBucket /\ ~Stale(map[k], time)
      BY DEF Sweep, Keys
    <2>2. map[k].expires \in Nat /\ map[k].active \in Nat
      BY <2>1, CapacityTypes
    <2> QED
      BY <2>1, <2>2 DEF Stale, Live
  <1> HIDE DEF L, swept
  <1>3. /\ IsFiniteSet(L \cup {Global})
        /\ \/ Cardinality(L \cup {Global}) = Cardinality(L)
           \/ Cardinality(L \cup {Global}) = Cardinality(L) + 1
    BY <1>1, FS_AddElement
  <1>4. /\ entries \subseteq L \cup {Global}
        /\ swept[Global] = NoBucket => entries \subseteq L
    BY <1>2
  <1> HIDE DEF entries
  <1>5. /\ IsFiniteSet(entries) /\ Cardinality(entries) <= Cardinality(L \cup {Global})
        /\ Cardinality(entries) \in Nat
    BY <1>3, <1>4, FS_Subset, FS_CardinalityType
  <1>6. swept[Global] = NoBucket => Cardinality(entries) <= Cardinality(L)
    BY <1>1, <1>4, FS_Subset
  <1>7. Cardinality(entries) <= Cardinality(L) + 1
    BY <1>1, <1>3, <1>5
  <1> QED
    BY <1>5, <1>6, <1>7 DEF entries, L, swept

(* The bounds leave room for the entry a request needs.                      *)
LEMMA RoomForAll ==
  ASSUME RouteInv, CapacityInv, Capacity > 2 * GlobalRate + GlobalActive
  PROVE  CapacitySuffices
  <1> DEFINE n == Cardinality(Live(buckets, now))
             swept == Sweep(buckets, now)
             size == Cardinality({k \in Keys : swept[k] # NoBucket})
  <1>1. now \in Nat /\ buckets \in Buckets /\ Pending \in SUBSET Requests
    BY CapacityContext
  <1>2. n \in Nat /\ Cardinality(Pending) \in Nat /\ Capacity \in Nat
    BY <1>1, LiveFacts, Fewer, LimiterAssumption
  <1>3. /\ size \in Nat /\ size <= n + 1
        /\ swept[Global] = NoBucket => size <= n
    BY <1>1, SweptEntries
  <1>4. /\ Tokens(buckets, Pending, now) = Cardinality(Pending) + n
        /\ Cardinality(Pending) + n <= GlobalActive + 2 * GlobalRate
    <2>1. Tokens(buckets, Pending, now) = Cardinality(Pending) + n
      BY DEF Tokens
    <2> HIDE DEF n
    <2>2. CASE buckets[Global] = NoBucket
      BY <1>2, <2>1, <2>2, CapacityTypes DEF CapacityInv, CapacityOK
    <2>3. CASE buckets[Global] # NoBucket
      <3>1. buckets[Global].count \in Nat
        BY <1>1, <2>3, CapacityTypes
      <3> QED
        BY <1>2, <2>1, <2>3, <3>1, CapacityTypes DEF CapacityInv, CapacityOK
    <2> QED
      BY <2>1, <2>2, <2>3
  <1> HIDE DEF n, swept
  <1>5. ASSUME NEW r \in Requests, step[r] = "idle" PROVE ~Busy(buckets, Global, now)
    <2> SUFFICES ASSUME swept[Global] = NoBucket PROVE size < Capacity
      BY <1>2, <1>3 DEF Busy, swept
    <2> HIDE DEF size
    <2> QED
      BY <1>2, <1>3, <1>4, CapacityTypes
  <1>6. ASSUME NEW r \in Requests, step[r] = "dns", NEW key \in Targets
        PROVE  ~Busy(buckets, key, now)
    <2> SUFFICES size < Capacity
      BY <1>2, <1>3 DEF Busy, swept
    <2>1. Cardinality(Pending) > 0
      BY <1>1, <1>6, Counting DEF Pending
    <2> HIDE DEF size
    <2> QED
      BY <1>2, <1>3, <1>4, <2>1, CapacityTypes
  <1> QED
    BY <1>5, <1>6 DEF CapacitySuffices

(* SERVER_BUSY is never thrown by a limiter whose map has room for two       *)
(* windows of requests and those in flight, as 1,000 entries have for        *)
(* 2 * 240 + 12 (limits.ts lines 3-17).                                      *)
THEOREM CapacityAlwaysSuffices ==
  ASSUME Capacity > 2 * GlobalRate + GlobalActive
  PROVE  Spec => []CapacitySuffices
  <1>1. Init => CapacityInv
    BY InitCapacity
  <1>2. RouteInv /\ CapacityInv /\ [Next]_vars => CapacityInv'
    BY NextCapacity
  <1>3. RouteInv /\ CapacityInv => CapacitySuffices
    BY RoomForAll
  <1> QED
    BY <1>1, <1>2, <1>3, RouteInvariant, PTL DEF Spec
=============================================================================
