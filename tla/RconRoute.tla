------------------------------ MODULE RconRoute -----------------------------
(* POST /api/rcon (src/app/api/rcon/route.ts) on one Node process: requests  *)
(* interleave at the awaits of the handler (the body, the DNS lookup, the    *)
(* RCON session) and share one ConnectionLimiter.  What comes before the     *)
(* first acquire (origin and access-key checks) changes nothing and is left  *)
(* out; RconSession models what happens inside an "execute".                 *)
EXTENDS ConnectionLimiter

CONSTANTS
  Requests,   \* handler invocations that may overlap
  MaxTime     \* bound on the clock, in ticks

ASSUME RouteAssumption == IsFiniteSet(Requests) /\ MaxTime \in Nat

VARIABLES
  now,       \* Date.now(), in ticks
  buckets,   \* the limiter's map
  step,      \* what each request is awaiting; "idle" before and after it
  target     \* the key it holds while it executes

vars == <<now, buckets, step, target>>

Steps == {"idle", "body", "dns", "execute"}
NoTarget == Global

Init ==
  /\ now = 0
  /\ buckets = [key \in Keys |-> NoBucket]
  /\ step = [r \in Requests |-> "idle"]
  /\ target = [r \in Requests |-> NoTarget]

Tick ==
  /\ now < MaxTime
  /\ now' = now + 1
  /\ UNCHANGED <<buckets, step, target>>

(* Lines 33-36: up to the read of the body.                                  *)
Arrive(r) ==
  /\ step[r] = "idle"
  /\ buckets' = AfterAcquire(buckets, Global, now)
  /\ step' = [step EXCEPT ![r] = IF Admits(buckets, Global, now) THEN "body" ELSE "idle"]
  /\ UNCHANGED <<now, target>>

(* A response is sent: the finally block returns what the request holds.     *)
Respond(r, map) ==
  /\ buckets' = AfterRelease(map, Global)
  /\ step' = [step EXCEPT ![r] = "idle"]

Body(r) ==
  /\ step[r] = "body"
  /\ \/ step' = [step EXCEPT ![r] = "dns"] /\ UNCHANGED buckets
     \/ Respond(r, buckets)    \* the body or a field was rejected
  /\ UNCHANGED <<now, target>>

(* Lines 57-62: the lookup fails, times out, or yields a key to acquire.     *)
Dns(r) ==
  /\ step[r] = "dns"
  /\ \/ Respond(r, buckets) /\ UNCHANGED target
     \/ \E key \in Targets :
          IF Admits(buckets, key, now)
            THEN /\ buckets' = AfterAcquire(buckets, key, now)
                 /\ step' = [step EXCEPT ![r] = "execute"]
                 /\ target' = [target EXCEPT ![r] = key]
            ELSE Respond(r, AfterAcquire(buckets, key, now)) /\ UNCHANGED target
  /\ UNCHANGED now

(* The session ended with results or an error other than AUTH_FAILED.        *)
Executed(r) ==
  /\ step[r] = "execute"
  /\ Respond(r, AfterRelease(buckets, target[r]))
  /\ target' = [target EXCEPT ![r] = NoTarget]
  /\ UNCHANGED now

(* AUTH_FAILED: the catch block counts it before the finally block releases. *)
AuthFailed(r) ==
  /\ step[r] = "execute"
  /\ Respond(r, AfterRelease(AfterFailure(buckets, target[r]), target[r]))
  /\ target' = [target EXCEPT ![r] = NoTarget]
  /\ UNCHANGED now

Handle(r) == Arrive(r) \/ Body(r) \/ Dns(r) \/ Executed(r) \/ AuthFailed(r)

Next == Tick \/ \E r \in Requests : Handle(r)

Spec == Init /\ [][Next]_vars

-----------------------------------------------------------------------------
TypeOK ==
  /\ now \in 0..MaxTime
  /\ buckets \in Buckets
  /\ step \in [Requests -> Steps]
  /\ target \in [Requests -> Keys]

Holders(key) == {r \in Requests : IF key = Global THEN step[r] # "idle"
                                  ELSE step[r] = "execute" /\ target[r] = key}

(* The limiter's count of active connections is exactly the requests that    *)
(* hold the key, whatever expired, was swept or restarted meanwhile: no slot *)
(* leaks on any error path and none is returned twice (limits.ts lines       *)
(* 10-30, route.ts lines 75-78).                                             *)
SlotsAccounted ==
  \A key \in Keys : Active(buckets, key) = Cardinality(Holders(key))

(* The documented ceilings on concurrent requests and sockets per target.    *)
ConcurrencyBounded ==
  \A key \in Keys : Cardinality(Holders(key)) <= ActiveLimit(key)

(* Concurrent attempts can overshoot the five wrong passwords of a window,   *)
(* but only by the sockets a target may have: failures are counted before    *)
(* the slot is returned (route.ts lines 71-77).                              *)
GuessesBounded ==
  \A key \in Targets :
    buckets[key] # NoBucket =>
      buckets[key].failures + buckets[key].active < MaxFailures + TargetActive

(* A wrong password is never lost: its target's bucket survives every sweep  *)
(* while the attempt is in flight, and gets the count (limits.ts lines       *)
(* 11 and 33-36).                                                            *)
FailuresCounted ==
  [][\A r \in Requests : AuthFailed(r) =>
       /\ buckets[target[r]] # NoBucket
       /\ buckets'[target[r]].failures = buckets[target[r]].failures + 1]_vars

(* SERVER_BUSY is never thrown when the map has room for two windows of      *)
(* requests, those in flight and the global entry, as it does in production: *)
(* 1,000 >= 2 * 240 + 12 + 1 (limits.ts lines 10-17).                        *)
CapacitySuffices ==
  \A r \in Requests :
    /\ step[r] = "idle" => ~Busy(buckets, Global, now)
    /\ step[r] = "dns" => \A key \in Targets : ~Busy(buckets, key, now)
=============================================================================
