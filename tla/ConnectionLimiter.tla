-------------------------- MODULE ConnectionLimiter -------------------------
(* The ConnectionLimiter class of src/lib/server/limits.ts, as operators on  *)
(* its map of buckets.  Its methods run to completion, so each is a function *)
(* from the map before the call, the key and the clock to the map after it.  *)
EXTENDS Naturals, FiniteSets

CONSTANTS
  Targets,       \* resolved address:port keys
  Global,        \* the key every request is counted under
  NoBucket,      \* "no entry in the map"
  Window,        \* 60,000 ms, in ticks
  GlobalActive, GlobalRate,   \* 12 and 240
  TargetActive, TargetRate,   \* 3 and 60
  MaxFailures,   \* 5
  Capacity       \* 1,000 entries

Keys == Targets \cup {Global}
Bucket == [count : Nat, active : Nat, failures : Nat, expires : Nat]
Buckets == [Keys -> Bucket \cup {NoBucket}]

ASSUME LimiterAssumption ==
  /\ Global \notin Targets
  /\ NoBucket \notin Bucket
  /\ IsFiniteSet(Targets)
  /\ {Window, GlobalActive, GlobalRate, TargetActive, TargetRate, MaxFailures, Capacity}
       \subseteq Nat \ {0}

ActiveLimit(key) == IF key = Global THEN GlobalActive ELSE TargetActive
RateLimit(key) == IF key = Global THEN GlobalRate ELSE TargetRate

(* Bug: an expired bucket is dropped even while its connections are open.    *)
BugStale(bucket, now) == bucket.expires <= now
Stale(bucket, now) == bucket.expires <= now /\ bucket.active = 0

Sweep(buckets, now) ==
  [key \in Keys |-> IF buckets[key] # NoBucket /\ Stale(buckets[key], now)
                    THEN NoBucket ELSE buckets[key]]

(* The bucket acquire() looks at: created, restarted or as it is.            *)
Current(bucket, now) ==
  IF bucket = NoBucket
    THEN [count |-> 0, active |-> 0, failures |-> 0, expires |-> now + Window]
  ELSE IF bucket.expires <= now
    THEN [count |-> 0, active |-> bucket.active, failures |-> 0, expires |-> now + Window]
  ELSE bucket

(* Bug: wrong passwords are not looked at.                                   *)
BugLimitedFailures(key, bucket) ==
  bucket.active >= ActiveLimit(key) \/ bucket.count >= RateLimit(key)
Limited(key, bucket) ==
  \/ bucket.active >= ActiveLimit(key)
  \/ bucket.count >= RateLimit(key)
  \/ bucket.failures >= MaxFailures

(* acquire() throws SERVER_BUSY.  Bug: also to a key that has its entry.     *)
BugBusy(buckets, key, now) ==
  Cardinality({k \in Keys : Sweep(buckets, now)[k] # NoBucket}) >= Capacity
Busy(buckets, key, now) ==
  LET swept == Sweep(buckets, now) IN
  /\ swept[key] = NoBucket
  /\ Cardinality({k \in Keys : swept[k] # NoBucket}) >= Capacity

Admits(buckets, key, now) ==
  /\ ~Busy(buckets, key, now)
  /\ ~Limited(key, Current(Sweep(buckets, now)[key], now))

(* The map after acquire(), which keeps a restarted bucket even if it throws *)
(* RATE_LIMITED afterwards.                                                  *)
AfterAcquire(buckets, key, now) ==
  LET swept == Sweep(buckets, now)
      bucket == Current(swept[key], now)
  IN IF Busy(buckets, key, now) THEN swept
     ELSE IF Limited(key, bucket) THEN [swept EXCEPT ![key] = bucket]
     ELSE [swept EXCEPT ![key] = [bucket EXCEPT !.count = @ + 1, !.active = @ + 1]]

(* The release closure holds the bucket itself: if the map dropped it, only  *)
(* the orphan changes.                                                       *)
AfterRelease(buckets, key) ==
  IF buckets[key] = NoBucket THEN buckets ELSE [buckets EXCEPT ![key].active = @ - 1]

AfterFailure(buckets, key) ==
  IF buckets[key] = NoBucket THEN buckets ELSE [buckets EXCEPT ![key].failures = @ + 1]

(* The connections the limiter believes open under a key.                    *)
Active(buckets, key) == IF buckets[key] = NoBucket THEN 0 ELSE buckets[key].active
=============================================================================
