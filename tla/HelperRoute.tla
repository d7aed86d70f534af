----------------------------- MODULE HelperRoute ----------------------------
(* POST /api/rcon of the helper (rcon() of src/helper/main.go): goroutines   *)
(* share eight slots and a map of attempt buckets under a mutex.  A bucket   *)
(* is deleted from the map a minute after it was made, whoever still holds a *)
(* pointer to it; a wrong password is then counted in a bucket nobody reads. *)
(* HelperSession models what happens inside an "execute".                    *)
EXTENDS Naturals, FiniteSets

CONSTANTS
  Targets,       \* resolved address:port keys
  Requests,      \* requests that may overlap
  NoBucket,      \* "no entry in the map"
  Slots,         \* 8
  Window,        \* the minute after which a bucket is deleted, in ticks
  Timeout,       \* the 25 seconds of a request's context, in ticks
  MaxRequests, MaxFailures, Capacity,  \* 60, 5 and 512
  MaxTime        \* bound on the clock

Bucket == [started : Nat, requests : Nat, failures : Nat]

ASSUME HelperRouteAssumption ==
  /\ IsFiniteSet(Targets) /\ IsFiniteSet(Requests) /\ NoBucket \notin Bucket \cup Targets
  /\ {Slots, Window, Timeout, MaxRequests, MaxFailures, Capacity} \subseteq Nat \ {0}
  /\ MaxTime \in Nat

VARIABLES
  now, limits,
  step,      \* what each request is waiting for; "idle" before and after it
  begun,     \* when its context was made
  target,    \* the key of the bucket it points to, once it has one
  detached   \* that bucket is no longer in the map

vars == <<now, limits, step, begun, target, detached>>

Steps == {"idle", "body", "dns", "execute"}
Busy == {r \in Requests : step[r] # "idle"}
Holders(key) == {r \in Requests : target[r] = key /\ ~detached[r]}

Init ==
  /\ now = 0 /\ limits = [key \in Targets |-> NoBucket]
  /\ step = [r \in Requests |-> "idle"] /\ begun = [r \in Requests |-> 0]
  /\ target = [r \in Requests |-> NoBucket] /\ detached = [r \in Requests |-> FALSE]

(* The context ends the lookup and the session.  Bug: only the lookup.       *)
BugInTime(r) == step[r] = "dns" => now < begun[r] + Timeout
InTime(r) == step[r] \in {"dns", "execute"} => now < begun[r] + Timeout

Tick ==
  /\ now < MaxTime
  /\ \A r \in Requests : InTime(r)
  /\ now' = now + 1
  /\ UNCHANGED <<limits, step, begun, target, detached>>

(* A response is written, and the deferred function frees the slot.          *)
Respond(r) ==
  /\ step' = [step EXCEPT ![r] = "idle"] /\ begun' = [begun EXCEPT ![r] = 0]
  /\ target' = [target EXCEPT ![r] = NoBucket] /\ detached' = [detached EXCEPT ![r] = FALSE]

Arrive(r) ==
  /\ step[r] = "idle" /\ Cardinality(Busy) < Slots    \* else SERVER_BUSY
  /\ step' = [step EXCEPT ![r] = "body"]
  /\ UNCHANGED <<now, limits, begun, target, detached>>

Body(r) ==
  /\ step[r] = "body"
  /\ \/ Respond(r)    \* decodeJSON or validate refused it
     \/ /\ step' = [step EXCEPT ![r] = "dns"] /\ begun' = [begun EXCEPT ![r] = now]
        /\ UNCHANGED <<target, detached>>
  /\ UNCHANGED <<now, limits>>

DnsFails(r) == step[r] = "dns" /\ Respond(r) /\ UNCHANGED <<now, limits>>

(* The map once buckets older than the window were deleted from it.          *)
Swept == [key \in Targets |->
            IF limits[key] # NoBucket /\ now - limits[key].started >= Window
              THEN NoBucket ELSE limits[key]]

(* Bug: the failures are not looked at.                                      *)
BugBlocked(bucket) == bucket.requests >= MaxRequests
Blocked(bucket) == bucket.requests >= MaxRequests \/ bucket.failures >= MaxFailures

Full(key) == /\ Swept[key] = NoBucket
             /\ Cardinality({k \in Targets : Swept[k] # NoBucket}) >= Capacity

(* The critical section, lines 329-350.                                      *)
Acquire(r, key) ==
  /\ step[r] = "dns"
  /\ LET bucket == IF Swept[key] # NoBucket THEN Swept[key]
                   ELSE [started |-> now, requests |-> 0, failures |-> 0]
         detaches(s) == target[s] # NoBucket /\ Swept[target[s]] = NoBucket
         orphaned == [s \in Requests |-> detached[s] \/ detaches(s)]
     IN \/ /\ Full(key) \/ Blocked(bucket)
           /\ limits' = IF Full(key) THEN Swept ELSE [Swept EXCEPT ![key] = bucket]
           /\ detached' = orphaned
           /\ step' = [step EXCEPT ![r] = "idle"] /\ begun' = [begun EXCEPT ![r] = 0]
           /\ UNCHANGED target
        \/ /\ ~Full(key) /\ ~Blocked(bucket)
           /\ limits' = [Swept EXCEPT ![key] = [bucket EXCEPT !.requests = @ + 1]]
           /\ detached' = orphaned
           /\ step' = [step EXCEPT ![r] = "execute"]
           /\ target' = [target EXCEPT ![r] = key]
           /\ UNCHANGED begun
  /\ UNCHANGED now

AfterSuccess(r) == limits
AfterFailure(r) == IF detached[r] THEN limits
                   ELSE [limits EXCEPT ![target[r]].failures = @ + 1]

Executed(r) ==
  /\ step[r] = "execute" /\ limits' = AfterSuccess(r)
  /\ Respond(r) /\ UNCHANGED now
AuthFailed(r) ==
  /\ step[r] = "execute" /\ limits' = AfterFailure(r)
  /\ Respond(r) /\ UNCHANGED now

Handle(r) ==
  \/ Arrive(r) \/ Body(r) \/ DnsFails(r) \/ Executed(r) \/ AuthFailed(r)
  \/ \E key \in Targets : Acquire(r, key)

Next == Tick \/ \E r \in Requests : Handle(r)

Spec == Init /\ [][Next]_vars

-----------------------------------------------------------------------------
(* A request whose bucket is still in the map holds that bucket and not one  *)
(* made since, and the attempts of a window, those in flight included, never *)
(* exceed the five wrong passwords by more than the slots allow (lines       *)
(* 329-350 and 360-364).                                                     *)
GuessesBounded ==
  \A key \in Targets :
    IF limits[key] = NoBucket THEN Holders(key) = {}
    ELSE /\ Cardinality(Holders(key)) <= limits[key].requests
         /\ limits[key].failures + Cardinality(Holders(key)) < MaxFailures + Slots

(* A wrong password is lost when its bucket was deleted meanwhile, but never *)
(* to more than one deletion at a time: what a bucket's minute finds of      *)
(* attempts on the bucket before it is gone after the 25 seconds an attempt  *)
(* may take (lines 321 and 331-335).                                         *)
LostAttemptsEndSoon ==
  \A r \in Requests :
    detached[r] /\ limits[target[r]] # NoBucket =>
      now <= limits[target[r]].started + Timeout
=============================================================================
