---------------------- MODULE DashboardSession_proofs ----------------------
(* Proofs about the dashboard's sessions, for any profiles and servers and   *)
(* any number of operations in flight.                                       *)
EXTENDS DashboardSession, FiniteSetTheorems, TLAPS

-----------------------------------------------------------------------------
(* The invariant.                                                            *)

TypeInv ==
  /\ version \in Nat /\ controller \in Nat /\ aborted \in BOOLEAN
  /\ statusInFlight \in Nat /\ statusInFlight <= version
  /\ profiles \in [Ids -> Servers \cup {None}]
  /\ saved \subseteq {id \in Ids : profiles[id] # None}
  /\ active \in Ids \cup {None}
  /\ demoMode \in BOOLEAN /\ secrets \in Targets \cup {None}
  /\ connected \in BOOLEAN /\ connecting \in BOOLEAN
  /\ refreshing \in BOOLEAN /\ consoleBusy \in BOOLEAN /\ loading \subseteq Lists
  /\ shown \in [Data -> Targets \cup {None}]
  /\ dialog \in Dialog \cup {None} /\ confirmationBusy \in BOOLEAN
  /\ tasks \in [Slots -> Task \cup {None}] /\ mounted \in BOOLEAN
  /\ session \in Targets \cup {None}

(* A request runs under the controller of its own session, and the signal of *)
(* the current session is the current controller's.                          *)
SignalInv ==
  /\ ~aborted => controller = version
  /\ \A slot \in Slots : tasks[slot] # None =>
       /\ tasks[slot].version <= version
       /\ tasks[slot].controller = tasks[slot].version
       /\ tasks[slot].version = version => ~aborted

(* What the page shows and where its commands go, while a session lasts.     *)
SessionInv ==
  /\ session # None => version > 0
  /\ connected => session # None /\ shown["snapshot"] = session
  /\ session # None => \A d \in Data : shown[d] \in {session, None}
  /\ session # None /\ ActiveId # None => ServerOf(ActiveId) = session /\ secrets = session

(* The slot runs an operation of one of the kinds for the current session.   *)
Doing(slot, kinds) ==
  tasks[slot] # None /\ tasks[slot].kind \in kinds /\ tasks[slot].version = version

StatusKinds == {"status", "poll", "confirmStatus"}

(* A current request belongs to the session, or is the one that connects.    *)
TaskInv ==
  \A slot \in Slots : tasks[slot] # None =>
    /\ tasks[slot].server = tasks[slot].password
    /\ tasks[slot].kind = "connect" =>
         tasks[slot].server \in Servers /\ tasks[slot].id \in Ids /\ tasks[slot].version > 0
    /\ tasks[slot].waits = "titles" => tasks[slot].kind = "maps"
    /\ tasks[slot].version = version /\ tasks[slot].kind # "connect" =>
         session # None /\ tasks[slot].server = session
    /\ Doing(slot, {"connect"}) =>
         /\ session = None
         /\ ~tasks[slot].keep => profiles[tasks[slot].id] \in {tasks[slot].server, None}
         /\ \A other \in Slots \ {slot} : ~Doing(other, {"connect"})

(* A command that awaits confirmation goes to the session it was written in. *)
DialogInv ==
  mounted /\ dialog # None /\ dialog.kind = "rcon" =>
    session # None /\ dialog.server = session /\ dialog.password = session

(* The marker of the status request is that of the one there is.             *)
StatusInv ==
  /\ \A slot, other \in Slots :
       Doing(slot, StatusKinds) /\ Doing(other, StatusKinds) => slot = other
  /\ \A slot \in Slots : Doing(slot, StatusKinds) => statusInFlight = version
  /\ statusInFlight = version /\ version > 0 => \E slot \in Slots : Doing(slot, StatusKinds)

(* A flag that is up has an operation that takes it down.                    *)
BusyInv ==
  /\ \A slot, other \in Slots :
       Doing(slot, {"console"}) /\ Doing(other, {"console"}) => slot = other
  /\ mounted =>
       /\ connecting => \E slot \in Slots : Doing(slot, {"connect"})
       /\ refreshing => \E slot \in Slots : Doing(slot, {"status"})
       /\ consoleBusy <=> \E slot \in Slots : Doing(slot, {"console"})
       /\ \A list \in loading : \E slot \in Slots : Doing(slot, {list})
       /\ confirmationBusy => \E slot \in Slots :
            tasks[slot] # None /\ tasks[slot].kind \in {"confirm", "confirmStatus"}

Inv == TypeInv /\ SignalInv /\ SessionInv /\ TaskInv /\ DialogInv /\ StatusInv /\ BusyInv

-----------------------------------------------------------------------------
(* The operations in flight.                                                 *)

(* None is no profile, no server and no operation.                           *)
LEMMA Distinct ==
  /\ None \notin Ids /\ None \notin Servers /\ Demo \notin Ids /\ Demo \notin Servers
  /\ Demo # None /\ None \notin Task
  /\ Lists \subseteq Kinds /\ Lists \subseteq Data /\ "snapshot" \in Data
  /\ \A list \in Lists : list \in AllLists
  /\ Servers \subseteq Targets /\ Demo \in Targets /\ None \notin Targets
  BY DashboardAssumption DEF Kinds, Data, Targets

(* An operation of the current session begins in a free slot.                *)
LEMMA BeginFacts ==
  ASSUME TypeInv, NEW slot \in Slots, NEW task \in Task, Begin(slot, task),
         version' = version, task.version = version
  PROVE  /\ tasks' \in [Slots -> Task \cup {None}]
         /\ tasks[slot] = None /\ tasks'[slot] = task /\ task # None
         /\ \A other \in Slots \ {slot} : tasks'[other] = tasks[other]
         /\ \A other \in Slots : \A kinds :
              Doing(other, kinds)' <=> \/ Doing(other, kinds)
                                       \/ other = slot /\ task.kind \in kinds
  <1>1. /\ tasks[slot] = None /\ tasks'[slot] = task /\ task # None
        /\ \A other \in Slots \ {slot} : tasks'[other] = tasks[other]
        /\ tasks' \in [Slots -> Task \cup {None}]
    BY Distinct DEF Begin, Free, TypeInv
  <1> QED
    BY <1>1 DEF Doing

(* An operation ends.                                                        *)
LEMMA EndFacts ==
  ASSUME TypeInv, NEW slot \in Slots, tasks[slot] # None, End(slot), version' = version
  PROVE  /\ tasks' \in [Slots -> Task \cup {None}]
         /\ tasks'[slot] = None
         /\ \A other \in Slots \ {slot} : tasks'[other] = tasks[other]
         /\ \A other \in Slots : \A kinds :
              Doing(other, kinds)' <=> Doing(other, kinds) /\ other # slot
  <1>1. /\ tasks'[slot] = None
        /\ \A other \in Slots \ {slot} : tasks'[other] = tasks[other]
        /\ tasks' \in [Slots -> Task \cup {None}]
    BY DEF End, TypeInv
  <1> QED
    BY <1>1 DEF Doing

(* When a session ends, none of its operations is current any more.          *)
LEMMA NoneCurrent ==
  ASSUME TypeInv, SignalInv, version' = version + 1, UNCHANGED tasks
  PROVE  \A slot \in Slots : \A kinds : ~Doing(slot, kinds)'
  <1> SUFFICES ASSUME NEW slot \in Slots, tasks[slot] # None
               PROVE  tasks[slot].version # version'
    BY DEF Doing
  <1>1. tasks[slot] \in Task /\ tasks[slot].version <= version
    BY DEF TypeInv, SignalInv
  <1>2. tasks[slot].version \in Nat
    BY <1>1 DEF Task
  <1> QED
    BY <1>1, <1>2 DEF TypeInv

(* The page opens with nothing in flight.                                    *)
LEMMA InitInv == Init => Inv
  <1> SUFFICES ASSUME Init PROVE Inv
    OBVIOUS
  <1> USE DEF Init
  <1>1. TypeInv
    <2>1. /\ profiles \in [Ids -> Servers \cup {None}] /\ active \in Ids \cup {None}
          /\ saved \subseteq {id \in Ids : profiles[id] # None}
      OBVIOUS
    <2>2. secrets \in Targets \cup {None}
      BY <2>1, Distinct
    <2>3. /\ shown \in [Data -> Targets \cup {None}]
          /\ tasks \in [Slots -> Task \cup {None}]
      OBVIOUS
    <2>6. version = 0 /\ controller = 0 /\ statusInFlight = 0
      OBVIOUS
    <2>4. /\ version \in Nat /\ controller \in Nat
          /\ statusInFlight \in Nat /\ statusInFlight <= version
      BY ONLY <2>6
    <2>5. /\ aborted \in BOOLEAN
          /\ demoMode \in BOOLEAN /\ connected \in BOOLEAN /\ connecting \in BOOLEAN
          /\ refreshing \in BOOLEAN /\ consoleBusy \in BOOLEAN /\ loading \subseteq Lists
          /\ dialog = None /\ confirmationBusy \in BOOLEAN /\ mounted \in BOOLEAN
          /\ session = None
      OBVIOUS
    <2> QED
      BY ONLY <2>1, <2>2, <2>3, <2>4, <2>5 DEF TypeInv
  <1>2. \A slot \in Slots : tasks[slot] = None
    OBVIOUS
  <1>3. SignalInv /\ TaskInv /\ StatusInv
    BY <1>2 DEF SignalInv, TaskInv, StatusInv, Doing
  <1>4. SessionInv /\ DialogInv
    BY DEF SessionInv, DialogInv
  <1>5. BusyInv
    BY <1>2 DEF BusyInv, Doing
  <1> QED
    BY <1>1, <1>3, <1>4, <1>5 DEF Inv

-----------------------------------------------------------------------------
(* The end of a session.                                                     *)

(* Of the requests still in flight none is current, and all are cancelled.   *)
LEMMA SessionOver ==
  ASSUME Inv, version' = version + 1, UNCHANGED <<tasks, statusInFlight>>,
         aborted' \in BOOLEAN, ~aborted' => controller' = version'
  PROVE  /\ SignalInv' /\ TaskInv' /\ StatusInv'
         /\ \A slot \in Slots : \A kinds : ~Doing(slot, kinds)'
         /\ version' \in Nat /\ version' > 0 /\ statusInFlight' <= version'
  <1> USE DEF Inv
  <1>1. \A slot \in Slots : \A kinds : ~Doing(slot, kinds)'
    BY NoneCurrent
  <1>2. /\ version' \in Nat /\ version' > 0
        /\ statusInFlight' < version' /\ statusInFlight' <= version'
    BY DEF TypeInv
  <1>3. \A slot \in Slots : tasks[slot] # None =>
          tasks[slot].version < version' /\ tasks[slot].version # version'
    <2> TAKE slot \in Slots
    <2> HAVE tasks[slot] # None
    <2>1. tasks[slot] \in Task /\ tasks[slot].version <= version
      BY DEF TypeInv, SignalInv
    <2>2. tasks[slot].version \in Nat
      BY <2>1 DEF Task
    <2> QED
      BY <2>1, <2>2 DEF TypeInv
  <1>4. SignalInv'
    <2>1. \A slot \in Slots : tasks[slot] # None => tasks[slot].version \in Nat
      BY DEF TypeInv, Task
    <2> QED
      BY <1>2, <1>3, <2>1 DEF SignalInv
  <1>5. TaskInv'
    BY <1>1, <1>3 DEF TaskInv
  <1>6. StatusInv'
    BY <1>1, <1>2 DEF StatusInv
  <1> QED
    BY <1>1, <1>2, <1>4, <1>5, <1>6

(* disconnect() leaves no session, whatever else its caller changes.         *)
LEMMA EndSessionStep ==
  ASSUME Inv, EndSession, UNCHANGED <<tasks, statusInFlight, confirmationBusy, mounted>>,
         profiles' \in [Ids -> Servers \cup {None}],
         saved' \subseteq {id \in Ids : profiles'[id] # None},
         active' \in Ids \cup {None},
         shown' \in [Data -> Targets \cup {None}]
  PROVE  Inv'
  <1> USE DEF Inv
  <1>1. /\ version' = version + 1 /\ aborted' = TRUE /\ controller' = controller
        /\ refreshing' = FALSE /\ loading' = {} /\ consoleBusy' = FALSE
        /\ connecting' = FALSE /\ connected' = FALSE /\ demoMode' = FALSE
        /\ secrets' = None /\ session' = None /\ dialog' = None
    BY DEF EndSession, Aborts, Idles
  <1>2. /\ SignalInv' /\ TaskInv' /\ StatusInv'
        /\ \A slot \in Slots : \A kinds : ~Doing(slot, kinds)'
        /\ version' \in Nat /\ version' > 0 /\ statusInFlight' <= version'
    BY <1>1, SessionOver
  <1>3. TypeInv'
    BY <1>1, <1>2 DEF TypeInv
  <1>4. SessionInv' /\ DialogInv'
    BY <1>1 DEF SessionInv, DialogInv
  <1>5. BusyInv'
    <2>1. confirmationBusy /\ mounted => \E slot \in Slots :
            tasks[slot] # None /\ tasks[slot].kind \in {"confirm", "confirmStatus"}
      BY DEF BusyInv
    <2> QED
      BY <1>1, <1>2, <2>1 DEF BusyInv
  <1> QED
    BY <1>2, <1>3, <1>4, <1>5

(* What the handlers blank keeps its type.                                   *)
LEMMA BlankType ==
  ASSUME TypeInv, NEW kept
  PROVE  Blank(kept) \in [Data -> Targets \cup {None}]
  BY DEF TypeInv, Blank

(* Disconnecting, selecting a profile and clearing the data.                 *)
LEMMA LeavingSteps ==
  ASSUME Inv, Disconnect \/ ConfirmClear \/ \E id \in Ids : SelectProfile(id)
  PROVE  Inv'
  <1>1. CASE Disconnect
    <2>1. /\ EndSession /\ shown' = Blank({"catalog"})
          /\ UNCHANGED <<statusInFlight, stored, confirmationBusy, tasks, mounted>>
      BY <1>1 DEF Disconnect
    <2> QED
      BY <2>1, EndSessionStep, BlankType DEF Inv, TypeInv, stored
  <1>2. CASE ConfirmClear
    <2>1. /\ EndSession /\ shown' = Blank({})
          /\ profiles' = [id \in Ids |-> None] /\ saved' = {} /\ active' = None
          /\ UNCHANGED <<statusInFlight, confirmationBusy, tasks, mounted>>
      BY <1>2 DEF ConfirmClear
    <2> QED
      BY <2>1, EndSessionStep, BlankType DEF Inv, TypeInv
  <1>3. ASSUME NEW id \in Ids, SelectProfile(id) PROVE Inv'
    <2>1. /\ EndSession /\ shown' = Blank({"catalog"}) /\ active' = id
          /\ UNCHANGED <<statusInFlight, profiles, saved, confirmationBusy, tasks, mounted>>
      BY <1>3 DEF SelectProfile
    <2> QED
      BY <2>1, EndSessionStep, BlankType DEF Inv, TypeInv
  <1> QED
    BY <1>1, <1>2, <1>3

(* The page is left: nothing it started is current any more.                 *)
LEMMA UnmountStep ==
  ASSUME Inv, Unmount
  PROVE  Inv'
  <1> USE DEF Inv
  <1>1. /\ version' = version + 1 /\ aborted' = TRUE /\ controller' = controller
        /\ mounted' = FALSE
        /\ UNCHANGED <<statusInFlight, stored, demoMode, secrets, flags, shown, dialog,
                       confirmationBusy, tasks, session>>
    BY DEF Unmount, Aborts
  <1>2. /\ SignalInv' /\ TaskInv' /\ StatusInv'
        /\ \A slot \in Slots : \A kinds : ~Doing(slot, kinds)'
        /\ version' \in Nat /\ version' > 0 /\ statusInFlight' <= version'
    BY <1>1, SessionOver
  <1>3. TypeInv'
    <2>1. UNCHANGED <<controller, statusInFlight, profiles, saved, active, demoMode, secrets,
                      connected, connecting, refreshing, consoleBusy, loading, shown, dialog,
                      confirmationBusy, tasks, session>>
      BY <1>1 DEF stored, flags
    <2>2. aborted' \in BOOLEAN /\ mounted' \in BOOLEAN
      BY <1>1
    <2> QED
      BY <1>2, <2>1, <2>2 DEF TypeInv
  <1>4. SessionInv' /\ DialogInv'
    <2>1. ActiveId' = ActiveId /\ ServerOf(ActiveId)' = ServerOf(ActiveId)
      BY <1>1 DEF ActiveId, ServerOf, stored
    <2> QED
      BY <1>1, <1>2, <2>1 DEF SessionInv, DialogInv, flags
  <1>5. BusyInv'
    BY <1>1, <1>2 DEF BusyInv
  <1> QED
    BY <1>2, <1>3, <1>4, <1>5

(* The demo is a session of its own.                                         *)
LEMMA ConnectDemoStep ==
  ASSUME Inv, ConnectDemo
  PROVE  Inv'
  <1> USE DEF Inv
  <1>1. /\ version' = version + 1 /\ controller' = version + 1 /\ aborted' = FALSE
        /\ refreshing' = FALSE /\ loading' = {} /\ consoleBusy' = FALSE
        /\ connected' = TRUE /\ ~connecting /\ dialog = None
        /\ demoMode' = TRUE /\ secrets' = Demo /\ session' = Demo
        /\ shown' = [d \in Data |-> IF d \in {"snapshot", "maps"} THEN Demo ELSE None]
        /\ UNCHANGED <<statusInFlight, stored, connecting, dialog, confirmationBusy, tasks,
                       mounted>>
    BY DEF ConnectDemo, Idles, Clickable
  <1>2. /\ SignalInv' /\ TaskInv' /\ StatusInv'
        /\ \A slot \in Slots : \A kinds : ~Doing(slot, kinds)'
        /\ version' \in Nat /\ version' > 0 /\ statusInFlight' <= version'
    BY <1>1, SessionOver
  <1>3. /\ \A d \in Data : shown'[d] \in {Demo, None}
        /\ shown'["snapshot"] = Demo
        /\ shown' \in [Data -> Targets \cup {None}]
    BY <1>1, Distinct
  <1>4. TypeInv'
    <2>1. secrets' \in Targets \cup {None} /\ session' \in Targets \cup {None}
      BY <1>1, Distinct
    <2> QED
      BY <1>1, <1>2, <1>3, <2>1 DEF TypeInv, stored
  <1>5. SessionInv'
    <2>1. ActiveId' = Demo /\ ServerOf(ActiveId)' = Demo
      BY <1>1 DEF ActiveId, ServerOf
    <2> QED
      BY <1>1, <1>2, <1>3, <2>1, Distinct DEF SessionInv
  <1>6. DialogInv'
    BY <1>1 DEF DialogInv
  <1>7. BusyInv'
    <2>1. confirmationBusy /\ mounted => \E slot \in Slots :
            tasks[slot] # None /\ tasks[slot].kind \in {"confirm", "confirmStatus"}
      BY DEF BusyInv
    <2> QED
      BY <1>1, <1>2, <2>1 DEF BusyInv
  <1> QED
    BY <1>2, <1>4, <1>5, <1>6, <1>7

-----------------------------------------------------------------------------
(* What starts a request.                                                    *)

(* A new session starts with the request that connects it.                   *)
LEMMA ConnectStep ==
  ASSUME Inv, NEW slot \in Slots, NEW id \in Ids, NEW server \in Servers, NEW keep \in BOOLEAN,
         Connect(slot, id, server, keep), ~keep => profiles[id] = server
  PROVE  Inv'
  <1> DEFINE task == [kind |-> "connect", version |-> version + 1, controller |-> version + 1,
                      id |-> id, server |-> server, password |-> server,
                      keep |-> keep, waits |-> "rcon"]
  <1> USE DEF Inv
  <1>1. /\ version' = version + 1 /\ controller' = version + 1 /\ aborted' = FALSE
        /\ refreshing' = FALSE /\ loading' = {} /\ consoleBusy' = FALSE
        /\ connecting' = TRUE /\ connected' = FALSE
        /\ shown' = [shown EXCEPT !["snapshot"] = None]
        /\ session' = None /\ dialog = None
        /\ Begin(slot, task)
        /\ UNCHANGED <<statusInFlight, stored, demoMode, secrets, dialog, confirmationBusy,
                       mounted>>
    BY DEF Connect, Idles, Clickable
  <1>2. version \in Nat /\ version + 1 \in Nat /\ statusInFlight <= version
        /\ statusInFlight \in Nat
    BY DEF TypeInv
  <1>3. task \in Task
    BY <1>2, Distinct DEF Task, Kinds
  <1>4. /\ task.kind = "connect" /\ task.version = version + 1 /\ task.controller = version + 1
        /\ task.id = id /\ task.server = server /\ task.password = server /\ task.keep = keep
        /\ task.waits = "rcon"
    OBVIOUS
  <1> HIDE DEF task
  <1>5. /\ tasks[slot] = None /\ tasks'[slot] = task /\ task # None
        /\ \A other \in Slots \ {slot} : tasks'[other] = tasks[other]
        /\ tasks' \in [Slots -> Task \cup {None}]
    BY <1>1, <1>3, Distinct DEF Begin, Free, TypeInv
  <1>6. \A other \in Slots : tasks[other] # None =>
          tasks[other].version <= version /\ tasks[other].version \in Nat
    BY DEF TypeInv, SignalInv, Task
  <1>7. \A other \in Slots : \A kinds :
          Doing(other, kinds)' <=> other = slot /\ "connect" \in kinds
    BY <1>1, <1>2, <1>4, <1>5, <1>6 DEF Doing
  <1>8. TypeInv'
    <2>1. shown' \in [Data -> Targets \cup {None}]
      BY <1>1 DEF TypeInv
    <2>2. /\ version' \in Nat /\ controller' \in Nat
          /\ statusInFlight' \in Nat /\ statusInFlight' <= version'
      BY <1>1, <1>2
    <2>3. /\ profiles' \in [Ids -> Servers \cup {None}] /\ active' \in Ids \cup {None}
          /\ saved' \subseteq {i \in Ids : profiles'[i] # None}
      BY <1>1 DEF TypeInv, stored
    <2>4. /\ aborted' \in BOOLEAN /\ connected' \in BOOLEAN /\ connecting' \in BOOLEAN
          /\ refreshing' \in BOOLEAN /\ consoleBusy' \in BOOLEAN /\ loading' \subseteq Lists
          /\ session' = None
      BY <1>1
    <2>5. /\ demoMode' \in BOOLEAN /\ secrets' \in Targets \cup {None}
          /\ dialog' \in Dialog \cup {None} /\ confirmationBusy' \in BOOLEAN
          /\ mounted' \in BOOLEAN
      BY <1>1 DEF TypeInv
    <2> QED
      BY ONLY <1>5, <2>1, <2>2, <2>3, <2>4, <2>5 DEF TypeInv
  <1>9. SignalInv'
    BY <1>1, <1>2, <1>4, <1>5, <1>6 DEF SignalInv
  <1>10. SessionInv' /\ DialogInv'
    BY <1>1 DEF SessionInv, DialogInv
  <1>11. TaskInv'
    <2> SUFFICES ASSUME NEW other \in Slots, tasks'[other] # None
                 PROVE  /\ tasks'[other].server = tasks'[other].password
                        /\ tasks'[other].kind = "connect" =>
                             /\ tasks'[other].server \in Servers /\ tasks'[other].id \in Ids
                             /\ tasks'[other].version > 0
                        /\ tasks'[other].waits = "titles" => tasks'[other].kind = "maps"
                        /\ tasks'[other].version = version' /\ tasks'[other].kind # "connect" =>
                             session' # None /\ tasks'[other].server = session'
                        /\ Doing(other, {"connect"})' =>
                             /\ session' = None
                             /\ ~tasks'[other].keep =>
                                  profiles'[tasks'[other].id] \in {tasks'[other].server, None}
                             /\ \A o \in Slots \ {other} : ~Doing(o, {"connect"})'
      BY DEF TaskInv
    <2>1. CASE other = slot
      BY <1>1, <1>2, <1>4, <1>5, <1>7, <2>1 DEF stored
    <2>2. CASE other # slot
      <3>1. tasks'[other] = tasks[other] /\ tasks[other] # None
        BY <1>5, <2>2
      <3>2. tasks[other].version # version'
        BY <1>1, <1>2, <1>6, <3>1
      <3>3. ~Doing(other, {"connect"})'
        BY <1>7, <2>2
      <3> QED
        BY <3>1, <3>2, <3>3 DEF TaskInv
    <2> QED
      BY <2>1, <2>2
  <1>12. StatusInv'
    <2>1. \A other \in Slots : ~Doing(other, StatusKinds)'
      BY <1>7 DEF StatusKinds
    <2>2. statusInFlight' # version'
      BY <1>1, <1>2
    <2> QED
      BY <2>1, <2>2 DEF StatusInv
  <1>13. BusyInv'
    <2>1. \A other \in Slots : ~Doing(other, {"console"})'
      BY <1>7
    <2>2. Doing(slot, {"connect"})'
      BY <1>7
    <2>3. confirmationBusy' /\ mounted' => \E o \in Slots :
            tasks'[o] # None /\ tasks'[o].kind \in {"confirm", "confirmStatus"}
      <3> SUFFICES ASSUME confirmationBusy', mounted'
                   PROVE  \E o \in Slots :
                            tasks'[o] # None /\ tasks'[o].kind \in {"confirm", "confirmStatus"}
        OBVIOUS
      <3>1. PICK o \in Slots : tasks[o] # None /\ tasks[o].kind \in {"confirm", "confirmStatus"}
        BY <1>1 DEF BusyInv
      <3>2. tasks'[o] = tasks[o]
        BY <1>5, <3>1
      <3> QED
        BY <3>1, <3>2
    <2> QED
      BY <1>1, <2>1, <2>2, <2>3 DEF BusyInv
  <1> QED
    BY <1>8, <1>9, <1>10, <1>11, <1>12, <1>13

(* A profile with a stored password, and the connection form.                *)
LEMMA ConnectingSteps ==
  ASSUME Inv, NEW slot \in Slots, NEW id \in Ids,
         SwitchProfile(slot, id) \/ \E server \in Servers : SaveAndConnect(slot, id, server)
  PROVE  Inv'
  <1>1. CASE SwitchProfile(slot, id)
    <2>1. profiles[id] \in Servers /\ Connect(slot, id, profiles[id], FALSE)
      BY <1>1 DEF SwitchProfile, Inv, TypeInv
    <2> QED
      BY <2>1, ConnectStep
  <1>2. ASSUME NEW server \in Servers, SaveAndConnect(slot, id, server) PROVE Inv'
    BY <1>2, ConnectStep DEF SaveAndConnect
  <1> QED
    BY <1>1, <1>2

(* A request of the session runs under its signal and with its password.     *)
LEMMA RunFacts ==
  ASSUME Inv, NEW slot \in Slots, NEW kind \in Kinds \ {"connect"}, session # None,
         RunCommands(slot, kind, session, session),
         UNCHANGED <<version, controller, aborted, session>>
  PROVE  /\ SignalInv' /\ TaskInv'
         /\ tasks' \in [Slots -> Task \cup {None}]
         /\ tasks'[slot] # None /\ tasks'[slot].kind = kind
         /\ \A other \in Slots : tasks[other] # None => tasks'[other] = tasks[other]
         /\ \A other \in Slots : \A kinds :
              Doing(other, kinds)' <=> Doing(other, kinds) \/ (other = slot /\ kind \in kinds)
  <1> DEFINE task == [kind |-> kind, version |-> version, controller |-> controller,
                      id |-> None, server |-> session, password |-> session,
                      keep |-> FALSE, waits |-> "rcon"]
  <1> USE DEF Inv
  <1>1. ~aborted /\ Begin(slot, task) /\ controller = version
    BY DEF RunCommands, SignalInv
  <1>2. task \in Task
    BY DEF Task, TypeInv
  <1>3. /\ task.kind = kind /\ task.version = version /\ task.controller = controller
        /\ task.server = session /\ task.password = session /\ task.waits = "rcon"
    OBVIOUS
  <1> HIDE DEF task
  <1>4. /\ tasks' \in [Slots -> Task \cup {None}]
        /\ tasks[slot] = None /\ tasks'[slot] = task /\ task # None
        /\ \A other \in Slots \ {slot} : tasks'[other] = tasks[other]
        /\ \A other \in Slots : \A kinds :
             Doing(other, kinds)' <=> Doing(other, kinds) \/ (other = slot /\ task.kind \in kinds)
    BY <1>1, <1>2, <1>3, BeginFacts
  <1>5. version \in Nat
    BY DEF TypeInv
  <1>6. SignalInv'
    BY <1>1, <1>3, <1>4, <1>5 DEF SignalInv
  <1>7. TaskInv'
    <2> SUFFICES ASSUME NEW other \in Slots, tasks'[other] # None
                 PROVE  /\ tasks'[other].server = tasks'[other].password
                        /\ tasks'[other].kind = "connect" =>
                             /\ tasks'[other].server \in Servers /\ tasks'[other].id \in Ids
                             /\ tasks'[other].version > 0
                        /\ tasks'[other].waits = "titles" => tasks'[other].kind = "maps"
                        /\ tasks'[other].version = version' /\ tasks'[other].kind # "connect" =>
                             session' # None /\ tasks'[other].server = session'
                        /\ ~Doing(other, {"connect"})'
      BY DEF TaskInv
    <2>1. CASE other = slot
      BY <1>3, <1>4, <2>1 DEF Doing
    <2>2. CASE other # slot
      <3>1. tasks'[other] = tasks[other] /\ tasks[other] # None
        BY <1>4, <2>2
      <3>2. ~Doing(other, {"connect"})
        BY <3>1 DEF TaskInv
      <3>3. ~Doing(other, {"connect"})'
        BY <1>4, <2>2, <3>2
      <3> QED
        BY <3>1, <3>3 DEF TaskInv
    <2> QED
      BY <2>1, <2>2
  <1> QED
    BY <1>3, <1>4, <1>6, <1>7

(* What Start() finds and leaves.                                            *)
LEMMA StartFacts ==
  ASSUME Inv, NEW slot \in Slots, NEW kind \in Kinds \ {"connect"}, Start(slot, kind)
  PROVE  /\ SignalInv' /\ TaskInv' /\ SessionInv' /\ DialogInv'
         /\ tasks' \in [Slots -> Task \cup {None}]
         /\ \A other \in Slots : tasks[other] # None => tasks'[other] = tasks[other]
         /\ \A other \in Slots : \A kinds :
              Doing(other, kinds)' <=> Doing(other, kinds) \/ (other = slot /\ kind \in kinds)
         /\ UNCHANGED <<refs, stored, demoMode, secrets, connected, connecting, shown, dialog,
                        confirmationBusy, mounted, session>>
         /\ version > 0
  <1> USE DEF Inv
  <1>1. /\ connected /\ RunCommands(slot, kind, ServerOf(ActiveId), secrets)
        /\ UNCHANGED <<refs, stored, demoMode, secrets, connected, connecting, shown, dialog,
                       confirmationBusy, mounted, session>>
    BY DEF Start
  <1>2. ActiveId # None
    BY <1>1 DEF RunCommands, ServerOf
  <1>3. session # None /\ ServerOf(ActiveId) = session /\ secrets = session /\ version > 0
    BY <1>1, <1>2 DEF SessionInv
  <1>4. /\ RunCommands(slot, kind, session, session)
        /\ UNCHANGED <<version, controller, aborted, session>>
    BY <1>1, <1>3 DEF refs
  <1>5. /\ SignalInv' /\ TaskInv'
        /\ tasks' \in [Slots -> Task \cup {None}]
        /\ \A other \in Slots : tasks[other] # None => tasks'[other] = tasks[other]
        /\ \A other \in Slots : \A kinds :
             Doing(other, kinds)' <=> Doing(other, kinds) \/ (other = slot /\ kind \in kinds)
    BY <1>3, <1>4, RunFacts
  <1>6. ActiveId' = ActiveId /\ ServerOf(ActiveId)' = ServerOf(ActiveId)
    BY <1>1 DEF ActiveId, ServerOf, stored
  <1>7. SessionInv' /\ DialogInv'
    BY <1>1, <1>6 DEF SessionInv, DialogInv, refs
  <1> QED
    BY <1>1, <1>3, <1>5, <1>7

(* The status stays the only one while another operation begins or ends.     *)
LEMMA StatusKept ==
  ASSUME StatusInv, UNCHANGED <<version, statusInFlight>>,
         \A slot \in Slots : Doing(slot, StatusKinds)' <=> Doing(slot, StatusKinds)
  PROVE  StatusInv'
  BY DEF StatusInv

(* Asking for the status.                                                    *)
LEMMA RefreshStatusStep ==
  ASSUME Inv, NEW slot \in Slots, NEW kind, RefreshStatus(slot, kind)
  PROVE  Inv'
  <1> USE DEF Inv
  <1>1. /\ kind \in {"status", "poll"} /\ mounted
        /\ statusInFlight # version /\ statusInFlight' = version
        /\ refreshing' = (refreshing \/ kind = "status")
        /\ Start(slot, kind)
        /\ UNCHANGED <<consoleBusy, loading>>
    BY DEF RefreshStatus
  <1>2. kind \in Kinds \ {"connect"}
    BY <1>1 DEF Kinds
  <1>3. /\ SignalInv' /\ TaskInv' /\ SessionInv' /\ DialogInv'
        /\ tasks' \in [Slots -> Task \cup {None}]
        /\ \A other \in Slots : tasks[other] # None => tasks'[other] = tasks[other]
        /\ \A other \in Slots : \A kinds :
             Doing(other, kinds)' <=> Doing(other, kinds) \/ (other = slot /\ kind \in kinds)
        /\ UNCHANGED <<refs, stored, demoMode, secrets, connected, connecting, shown, dialog,
                       confirmationBusy, mounted, session>>
        /\ version > 0
    BY <1>1, <1>2, StartFacts
  <1>4. version' = version
    BY <1>3 DEF refs
  <1>5. TypeInv'
    BY <1>1, <1>3 DEF TypeInv, refs, stored
  <1>6. StatusInv'
    <2>1. \A other \in Slots : ~Doing(other, StatusKinds)
      BY <1>1 DEF StatusInv
    <2>2. \A other \in Slots : Doing(other, StatusKinds)' <=> other = slot
      BY <1>1, <1>3, <2>1 DEF StatusKinds
    <2> QED
      BY <1>1, <1>3, <1>4, <2>2 DEF StatusInv
  <1>7. BusyInv'
    <2>1. \A other \in Slots : Doing(other, {"console"})' <=> Doing(other, {"console"})
      BY <1>1, <1>3
    <2>2. \A other \in Slots : \A kinds : Doing(other, kinds) => Doing(other, kinds)'
      BY <1>3
    <2>3. kind = "status" => Doing(slot, {"status"})'
      BY <1>3
    <2> QED
      BY <1>1, <1>3, <2>1, <2>2, <2>3 DEF BusyInv
  <1> QED
    BY <1>3, <1>5, <1>6, <1>7

(* Running a console command.                                                *)
LEMMA ExecuteConsoleStep ==
  ASSUME Inv, NEW slot \in Slots, ExecuteConsole(slot)
  PROVE  Inv'
  <1> USE DEF Inv
  <1>1. /\ ~consoleBusy /\ consoleBusy' = TRUE /\ mounted
        /\ Start(slot, "console")
        /\ UNCHANGED <<statusInFlight, refreshing, loading>>
    BY DEF ExecuteConsole, Clickable
  <1>2. "console" \in Kinds \ {"connect"}
    BY DEF Kinds
  <1>3. /\ SignalInv' /\ TaskInv' /\ SessionInv' /\ DialogInv'
        /\ tasks' \in [Slots -> Task \cup {None}]
        /\ \A other \in Slots : tasks[other] # None => tasks'[other] = tasks[other]
        /\ \A other \in Slots : \A kinds :
             Doing(other, kinds)' <=> Doing(other, kinds) \/ (other = slot /\ "console" \in kinds)
        /\ UNCHANGED <<refs, stored, demoMode, secrets, connected, connecting, shown, dialog,
                       confirmationBusy, mounted, session>>
    BY <1>1, <1>2, StartFacts
  <1>4. version' = version
    BY <1>3 DEF refs
  <1>5. TypeInv'
    BY <1>1, <1>3 DEF TypeInv, refs, stored
  <1>6. StatusInv'
    <2>1. \A other \in Slots : Doing(other, StatusKinds)' <=> Doing(other, StatusKinds)
      BY <1>3 DEF StatusKinds
    <2> QED
      BY <1>1, <1>4, <2>1, StatusKept
  <1>7. BusyInv'
    <2>1. \A other \in Slots : ~Doing(other, {"console"})
      BY <1>1 DEF BusyInv
    <2>2. \A other \in Slots : Doing(other, {"console"})' <=> other = slot
      BY <1>3, <2>1
    <2>3. \A other \in Slots : \A kinds : Doing(other, kinds) => Doing(other, kinds)'
      BY <1>3
    <2> QED
      BY <1>1, <1>3, <2>2, <2>3 DEF BusyInv
  <1> QED
    BY <1>3, <1>5, <1>6, <1>7

(* Loading a list, and staging a game mode.                                  *)
LEMMA LoadSteps ==
  ASSUME Inv, NEW slot \in Slots,
         StageGameMode(slot) \/ \E list \in Lists : Load(slot, list)
  PROVE  Inv'
  <1> USE DEF Inv
  <1>1. ASSUME NEW kind \in Lists \cup {"stage"}, Start(slot, kind),
               loading' = loading \/ (kind \in Lists /\ loading' = loading \cup {kind}),
               UNCHANGED <<statusInFlight, refreshing, consoleBusy>>
        PROVE  Inv'
    <2>1. /\ kind \in Kinds \ {"connect"} /\ kind # "console"
          /\ kind \notin StatusKinds
      BY <1>1, Distinct DEF Kinds, StatusKinds, AllLists
    <2>2. /\ SignalInv' /\ TaskInv' /\ SessionInv' /\ DialogInv'
          /\ tasks' \in [Slots -> Task \cup {None}]
          /\ \A other \in Slots : tasks[other] # None => tasks'[other] = tasks[other]
          /\ \A other \in Slots : \A kinds :
               Doing(other, kinds)' <=> Doing(other, kinds) \/ (other = slot /\ kind \in kinds)
          /\ UNCHANGED <<refs, stored, demoMode, secrets, connected, connecting, shown, dialog,
                         confirmationBusy, mounted, session>>
      BY <1>1, <2>1, StartFacts
    <2>3. version' = version
      BY <2>2 DEF refs
    <2>4. TypeInv'
      BY <1>1, <2>2 DEF TypeInv, refs, stored
    <2>5. StatusInv'
      <3>1. \A other \in Slots : Doing(other, StatusKinds)' <=> Doing(other, StatusKinds)
        BY <2>1, <2>2
      <3> QED
        BY <1>1, <2>3, <3>1, StatusKept
    <2>6. BusyInv'
      <3>1. \A other \in Slots : Doing(other, {"console"})' <=> Doing(other, {"console"})
        BY <2>1, <2>2
      <3>2. \A other \in Slots : \A kinds : Doing(other, kinds) => Doing(other, kinds)'
        BY <2>2
      <3>3. Doing(slot, {kind})'
        BY <2>2
      <3> QED
        BY <1>1, <2>2, <3>1, <3>2, <3>3 DEF BusyInv
    <2> QED
      BY <2>2, <2>4, <2>5, <2>6
  <1>2. CASE StageGameMode(slot)
    BY <1>1, <1>2 DEF StageGameMode
  <1>3. ASSUME NEW list \in Lists, Load(slot, list) PROVE Inv'
    BY <1>1, <1>3 DEF Load
  <1> QED
    BY <1>2, <1>3

(* Confirming a command sends it where its dialog says.                      *)
LEMMA ConfirmCommandStep ==
  ASSUME Inv, NEW slot \in Slots, ConfirmCommand(slot)
  PROVE  Inv'
  <1> USE DEF Inv
  <1>1. /\ mounted /\ dialog # None /\ dialog.kind = "rcon"
        /\ confirmationBusy' = TRUE
        /\ RunCommands(slot, "confirm", dialog.server, dialog.password)
        /\ UNCHANGED <<refs, statusInFlight, stored, demoMode, secrets, flags, shown, dialog,
                       mounted, session>>
    BY DEF ConfirmCommand, Answerable
  <1>2. session # None /\ dialog.server = session /\ dialog.password = session
    BY <1>1 DEF DialogInv
  <1>3. /\ RunCommands(slot, "confirm", session, session)
        /\ "confirm" \in Kinds \ {"connect"}
        /\ UNCHANGED <<version, controller, aborted, session>>
    BY <1>1, <1>2 DEF Kinds, refs
  <1>4. /\ SignalInv' /\ TaskInv'
        /\ tasks' \in [Slots -> Task \cup {None}]
        /\ tasks'[slot] # None /\ tasks'[slot].kind = "confirm"
        /\ \A other \in Slots : \A kinds :
             Doing(other, kinds)' <=> Doing(other, kinds) \/ (other = slot /\ "confirm" \in kinds)
    BY <1>2, <1>3, RunFacts
  <1>5. TypeInv'
    BY <1>1, <1>4 DEF TypeInv, refs, stored, flags
  <1>6. SessionInv' /\ DialogInv'
    <2>1. ActiveId' = ActiveId /\ ServerOf(ActiveId)' = ServerOf(ActiveId)
      BY <1>1 DEF ActiveId, ServerOf, stored
    <2> QED
      BY <1>1, <2>1 DEF SessionInv, DialogInv, refs, flags
  <1>7. StatusInv'
    <2>1. \A other \in Slots : Doing(other, StatusKinds)' <=> Doing(other, StatusKinds)
      BY <1>4 DEF StatusKinds
    <2> QED
      BY <1>1, <1>3, <2>1, StatusKept
  <1>8. BusyInv'
    <2>1. \A other \in Slots : Doing(other, {"console"})' <=> Doing(other, {"console"})
      BY <1>4
    <2>2. \A other \in Slots : \A kinds : Doing(other, kinds) => Doing(other, kinds)'
      BY <1>4
    <2> QED
      BY <1>1, <1>4, <2>1, <2>2 DEF BusyInv, flags
  <1> QED
    BY <1>4, <1>5, <1>6, <1>7, <1>8

-----------------------------------------------------------------------------
(* Dialogs.                                                                  *)

(* The active profile and its server are what the types say.                 *)
LEMMA ActiveFacts ==
  ASSUME TypeInv
  PROVE  /\ ActiveId \in Ids \cup {Demo, None}
         /\ ServerOf(ActiveId) \in Targets \cup {None}
         /\ ActiveId # None => ServerOf(ActiveId) \in Targets
  <1>1. CASE demoMode
    BY <1>1, Distinct DEF ActiveId, ServerOf
  <1>2. CASE ~demoMode /\ active # None /\ profiles[active] # None
    <2>1. ActiveId = active /\ active \in Ids /\ active # Demo /\ active # None
      BY <1>2, Distinct DEF ActiveId, TypeInv
    <2>2. ServerOf(active) = profiles[active]
      BY <2>1 DEF ServerOf
    <2> QED
      BY <1>2, <2>1, <2>2, Distinct DEF TypeInv
  <1>3. CASE ~demoMode /\ ~(active # None /\ profiles[active] # None)
    BY <1>3, Distinct DEF ActiveId, ServerOf
  <1> QED
    BY <1>1, <1>2, <1>3

(* Opening and cancelling a dialog.                                          *)
LEMMA DialogSteps ==
  ASSUME Inv,
         \/ \E kind \in {"rcon", "delete", "clear"}, id \in Ids \cup {None} : OpenDialog(kind, id)
         \/ CancelDialog
  PROVE  Inv'
  <1> USE DEF Inv
  <1>1. UNCHANGED <<refs, statusInFlight, stored, demoMode, secrets, flags, shown,
                    confirmationBusy, tasks, mounted, session>>
    BY DEF OpenDialog, CancelDialog
  <1>2. /\ dialog' \in Dialog \cup {None}
        /\ dialog' # None /\ dialog'.kind = "rcon" =>
             connected /\ ActiveId # None
               /\ dialog'.server = ServerOf(ActiveId) /\ dialog'.password = secrets
    <2>1. ASSUME NEW kind \in {"rcon", "delete", "clear"}, NEW id \in Ids \cup {None},
                 OpenDialog(kind, id)
          PROVE  /\ dialog' \in Dialog
                 /\ dialog'.kind = "rcon" =>
                      connected /\ ActiveId # None
                        /\ dialog'.server = ServerOf(ActiveId) /\ dialog'.password = secrets
      <3>1. /\ dialog' = [kind |-> kind, id |-> id, active |-> ActiveId,
                          server |-> ServerOf(ActiveId), password |-> secrets]
            /\ kind = "rcon" => connected /\ ActiveId # None
        BY <2>1 DEF OpenDialog
      <3>2. secrets \in Targets \cup {None}
        BY DEF TypeInv
      <3> QED
        BY <3>1, <3>2, ActiveFacts DEF Dialog
    <2>2. CASE CancelDialog
      BY <2>2 DEF CancelDialog
    <2> QED
      BY <2>1, <2>2
  <1>3. TypeInv'
    BY <1>1, <1>2 DEF TypeInv, refs, stored, flags
  <1>4. DialogInv'
    BY <1>1, <1>2 DEF DialogInv, SessionInv
  <1>5. \A slot \in Slots : \A kinds : Doing(slot, kinds)' <=> Doing(slot, kinds)
    BY <1>1 DEF Doing, refs
  <1>6. SignalInv' /\ TaskInv'
    BY <1>1, <1>5 DEF SignalInv, TaskInv, refs, stored
  <1>7. SessionInv'
    <2>1. ActiveId' = ActiveId /\ ServerOf(ActiveId)' = ServerOf(ActiveId)
      BY <1>1 DEF ActiveId, ServerOf, stored
    <2> QED
      BY <1>1, <2>1 DEF SessionInv, refs, flags
  <1>8. StatusInv' /\ BusyInv'
    BY <1>1, <1>5 DEF StatusInv, BusyInv, refs, flags
  <1> QED
    BY <1>3, <1>4, <1>6, <1>7, <1>8

(* Deleting a profile takes nothing away from the session of another.        *)
LEMMA ConfirmDeleteStep ==
  ASSUME Inv, ConfirmDelete
  PROVE  Inv'
  <1> USE DEF Inv
  <1>1. /\ profiles' = [profiles EXCEPT ![dialog.id] = None]
        /\ saved' = saved \ {dialog.id}
        /\ active' = IF active = dialog.id THEN None ELSE active
        /\ UNCHANGED <<statusInFlight, confirmationBusy, tasks, mounted>>
    BY DEF ConfirmDelete
  <1>2. /\ profiles' \in [Ids -> Servers \cup {None}]
        /\ saved' \subseteq {id \in Ids : profiles'[id] # None}
        /\ active' \in Ids \cup {None}
        /\ \A id \in Ids : profiles'[id] = None \/ profiles'[id] = profiles[id]
    BY <1>1 DEF TypeInv
  <1>3. CASE EndSession /\ shown' = Blank({"catalog"})
    BY <1>1, <1>2, <1>3, BlankType, EndSessionStep
  <1>4. CASE dialog' = None /\ UNCHANGED <<refs, demoMode, secrets, flags, shown, session>>
    <2>1. TypeInv'
      BY <1>1, <1>2, <1>4 DEF TypeInv, refs, flags
    <2>2. \A slot \in Slots : \A kinds : Doing(slot, kinds)' <=> Doing(slot, kinds)
      BY <1>1, <1>4 DEF Doing, refs
    <2>3. SignalInv' /\ DialogInv'
      BY <1>1, <1>4 DEF SignalInv, DialogInv, refs
    <2>4. TaskInv'
      BY <1>1, <1>2, <1>4, <2>2 DEF TaskInv, refs
    <2>5. SessionInv'
      <3>1. ActiveId' # None => ActiveId' = ActiveId /\ ServerOf(ActiveId)' = ServerOf(ActiveId)
        <4>1. CASE demoMode
          BY <1>4, <4>1 DEF ActiveId, ServerOf
        <4>2. CASE ~demoMode /\ ActiveId' # None
          <5>1. active' # None /\ profiles'[active'] # None /\ ActiveId' = active'
            BY <1>4, <4>2 DEF ActiveId
          <5>2. active' = active /\ active \in Ids /\ profiles'[active] = profiles[active]
            BY <1>1, <1>2, <5>1
          <5>3. ActiveId = active
            BY <4>2, <5>1, <5>2 DEF ActiveId
          <5>4. active # Demo /\ active # None
            BY <5>2, Distinct
          <5> QED
            BY <5>1, <5>2, <5>3, <5>4 DEF ServerOf
        <4> QED
          BY <4>1, <4>2
      <3> QED
        BY <1>4, <3>1 DEF SessionInv, refs, flags
    <2>6. StatusInv' /\ BusyInv'
      BY <1>1, <1>4, <2>2 DEF StatusInv, BusyInv, refs, flags
    <2> QED
      BY <2>1, <2>3, <2>4, <2>5, <2>6
  <1> QED
    BY <1>3, <1>4 DEF ConfirmDelete

-----------------------------------------------------------------------------
(* What ends a request.                                                      *)

(* What is left of the other operations when one ends.                       *)
LEMMA TaskEnds ==
  ASSUME Inv, NEW slot \in Slots, tasks[slot] # None, End(slot), UNCHANGED refs
  PROVE  /\ SignalInv' /\ version' = version
         /\ tasks' \in [Slots -> Task \cup {None}]
         /\ tasks'[slot] = None
         /\ \A other \in Slots \ {slot} : tasks'[other] = tasks[other]
         /\ \A other \in Slots : \A kinds :
              Doing(other, kinds)' <=> Doing(other, kinds) /\ other # slot
         /\ UNCHANGED <<session, profiles>> => TaskInv'
  <1> USE DEF Inv
  <1>1. UNCHANGED <<version, controller, aborted>>
    BY DEF refs
  <1>2. /\ tasks' \in [Slots -> Task \cup {None}]
        /\ tasks'[slot] = None
        /\ \A other \in Slots \ {slot} : tasks'[other] = tasks[other]
        /\ \A other \in Slots : \A kinds :
             Doing(other, kinds)' <=> Doing(other, kinds) /\ other # slot
    BY <1>1, EndFacts
  <1>3. SignalInv'
    BY <1>1, <1>2 DEF SignalInv
  <1>4. ASSUME UNCHANGED <<session, profiles>> PROVE TaskInv'
    BY <1>1, <1>2, <1>4 DEF TaskInv
  <1> QED
    BY <1>1, <1>2, <1>3, <1>4

(* The connection is made, fails, or is of no interest any more.             *)
LEMMA ConnectEndsStep ==
  ASSUME Inv, NEW slot \in Slots, NEW ok \in BOOLEAN, ConnectEnds(slot, ok)
  PROVE  Inv'
  <1> DEFINE task == tasks[slot]
  <1> USE DEF Inv
  <1>1. /\ task # None /\ task.kind = "connect" /\ End(slot)
        /\ connecting' = (connecting /\ ~IsCurrent(task))
        /\ UNCHANGED <<refs, statusInFlight, refreshing, consoleBusy, loading, dialog,
                       confirmationBusy, mounted>>
    BY DEF ConnectEnds, Outcome
  <1>2. /\ SignalInv' /\ version' = version
        /\ tasks' \in [Slots -> Task \cup {None}] /\ tasks'[slot] = None
        /\ \A other \in Slots \ {slot} : tasks'[other] = tasks[other]
        /\ \A other \in Slots : \A kinds :
             Doing(other, kinds)' <=> Doing(other, kinds) /\ other # slot
        /\ UNCHANGED <<session, profiles>> => TaskInv'
    BY <1>1, TaskEnds
  <1>3. StatusInv'
    <2>1. \A other \in Slots : Doing(other, StatusKinds)' <=> Doing(other, StatusKinds)
      BY <1>1, <1>2 DEF Doing, StatusKinds
    <2> QED
      BY <1>1, <1>2, <2>1, StatusKept
  <1>4. BusyInv'
    <2>1. \A other \in Slots : \A kinds : "connect" \notin kinds =>
            (Doing(other, kinds)' <=> Doing(other, kinds))
      BY <1>1, <1>2 DEF Doing
    <2>2. \A list \in loading : list # "connect"
      BY DashboardAssumption DEF TypeInv, AllLists
    <2>3. ASSUME connecting', mounted PROVE \E other \in Slots : Doing(other, {"connect"})'
      <3>1. connecting /\ ~IsCurrent(task)
        BY <1>1, <2>3
      <3>2. PICK other \in Slots : Doing(other, {"connect"})
        BY <2>3, <3>1 DEF BusyInv
      <3>3. other # slot
        BY <3>1, <3>2 DEF Doing, IsCurrent
      <3> QED
        BY <1>2, <3>2, <3>3
    <2>4. confirmationBusy' /\ mounted => \E other \in Slots :
            tasks'[other] # None /\ tasks'[other].kind \in {"confirm", "confirmStatus"}
      <3> SUFFICES ASSUME confirmationBusy', mounted
                   PROVE  \E other \in Slots :
                     tasks'[other] # None /\ tasks'[other].kind \in {"confirm", "confirmStatus"}
        OBVIOUS
      <3>1. PICK other \in Slots :
              tasks[other] # None /\ tasks[other].kind \in {"confirm", "confirmStatus"}
        BY <1>1 DEF BusyInv
      <3>2. other # slot
        BY <1>1, <3>1
      <3> QED
        BY <1>2, <3>1, <3>2
    <2> QED
      BY <1>1, <1>2, <2>1, <2>2, <2>3, <2>4 DEF BusyInv
  <1>5. CASE ~(ok /\ IsCurrent(task))
    <2>1. UNCHANGED <<stored, demoMode, secrets, connected, shown, session>>
      BY <1>5 DEF ConnectEnds
    <2>2. TypeInv'
      BY <1>1, <1>2, <2>1 DEF TypeInv, refs, stored
    <2>3. SessionInv' /\ DialogInv'
      <3>1. ActiveId' = ActiveId /\ ServerOf(ActiveId)' = ServerOf(ActiveId)
        BY <2>1 DEF ActiveId, ServerOf, stored
      <3> QED
        BY <1>1, <1>2, <2>1, <3>1 DEF SessionInv, DialogInv
    <2>4. TaskInv'
      BY <1>2, <2>1 DEF stored
    <2> QED
      BY <1>2, <1>3, <1>4, <2>2, <2>3, <2>4
  <1>6. CASE ok /\ IsCurrent(task)
    <2> DEFINE server == task.server
               id == task.id
    <2>1. /\ connected' = TRUE /\ session' = server
          /\ secrets' = task.password /\ demoMode' = FALSE /\ active' = id
          /\ shown' = [d \in Data |-> IF d = "snapshot" THEN server ELSE None]
          /\ IF task.keep
               THEN /\ profiles' = [profiles EXCEPT ![id] = server]
                    /\ saved' \in {saved \cup {id}, saved \ {id}}
               ELSE UNCHANGED <<profiles, saved>>
      BY <1>6 DEF ConnectEnds, Commits
    <2>2. /\ Doing(slot, {"connect"}) /\ session = None
          /\ server \in Servers /\ id \in Ids /\ task.password = server
          /\ ~task.keep => profiles[id] \in {server, None}
          /\ \A other \in Slots \ {slot} : ~Doing(other, {"connect"})
      <3>1. Doing(slot, {"connect"})
        BY <1>1, <1>6 DEF Doing, IsCurrent
      <3> QED
        BY <1>1, <3>1 DEF TaskInv
    <2>3. version > 0
      BY <1>1, <2>2 DEF TaskInv, Doing
    <2> HIDE DEF task, server, id
    <2>4. /\ profiles' \in [Ids -> Servers \cup {None}]
          /\ saved' \subseteq {i \in Ids : profiles'[i] # None}
          /\ profiles'[id] \in {server, None}
      <3>1. server # None
        BY <2>2, Distinct
      <3>2. CASE task.keep
        <4>1. /\ profiles' \in [Ids -> Servers \cup {None}]
              /\ \A i \in Ids : profiles'[i] = IF i = id THEN server ELSE profiles[i]
          BY <2>1, <2>2, <3>2 DEF TypeInv
        <4> QED
          BY <2>1, <2>2, <3>1, <3>2, <4>1 DEF TypeInv
      <3>3. CASE ~task.keep
        BY <2>1, <2>2, <3>3 DEF TypeInv
      <3> QED
        BY <3>2, <3>3
    <2>5. /\ shown' \in [Data -> Targets \cup {None}]
          /\ shown'["snapshot"] = server
          /\ \A d \in Data : shown'[d] \in {server, None}
      BY <2>1, <2>2, Distinct
    <2>6. TypeInv'
      <3>1. /\ secrets' \in Targets \cup {None} /\ session' \in Targets \cup {None}
            /\ active' \in Ids \cup {None}
        BY <2>1, <2>2, Distinct
      <3> QED
        BY <1>1, <1>2, <2>1, <2>4, <2>5, <3>1 DEF TypeInv, refs
    <2>7. SessionInv'
      <3>1. ActiveId' # None => ServerOf(ActiveId)' = server
        <4> SUFFICES ASSUME ActiveId' # None PROVE ServerOf(ActiveId)' = server
          OBVIOUS
        <4>1. ActiveId' = id /\ profiles'[id] = server
          BY <2>1, <2>4 DEF ActiveId
        <4>2. id # Demo /\ id # None
          BY <2>2, Distinct
        <4> QED
          BY <4>1, <4>2 DEF ServerOf
      <3> QED
        BY <1>2, <2>1, <2>2, <2>3, <2>5, <3>1, Distinct DEF SessionInv
    <2>8. DialogInv'
      BY <1>1, <2>2 DEF DialogInv
    <2>9. TaskInv'
      <3>1. \A other \in Slots \ {slot} : tasks[other] # None => tasks[other].version # version
        BY <2>2 DEF TaskInv, Doing
      <3>3. \A other \in Slots : ~Doing(other, {"connect"})'
        BY <1>2, <2>2
      <3> QED
        BY <1>2, <3>1, <3>3 DEF TaskInv
    <2> QED
      BY <1>2, <1>3, <1>4, <2>6, <2>7, <2>8, <2>9
  <1> QED
    BY <1>5, <1>6

(* A status answer changes what is shown only in its own session.            *)
LEMMA StatusResultFacts ==
  ASSUME Inv, NEW slot \in Slots, NEW ok \in BOOLEAN, tasks[slot] # None,
         tasks[slot].kind \in StatusKinds, StatusResult(tasks[slot], ok), End(slot),
         UNCHANGED <<refs, stored, demoMode, secrets, session>>
  PROVE  /\ SignalInv' /\ TaskInv' /\ SessionInv' /\ StatusInv'
         /\ version' = version
         /\ tasks' \in [Slots -> Task \cup {None}]
         /\ \A other \in Slots \ {slot} : tasks'[other] = tasks[other]
         /\ \A other \in Slots : \A kinds :
              Doing(other, kinds)' <=> Doing(other, kinds) /\ other # slot
         /\ connected' \in BOOLEAN /\ shown' \in [Data -> Targets \cup {None}]
         /\ statusInFlight' \in Nat /\ statusInFlight' <= version'
  <1> DEFINE task == tasks[slot]
  <1> USE DEF Inv
  <1>1. /\ SignalInv' /\ version' = version /\ TaskInv'
        /\ tasks' \in [Slots -> Task \cup {None}]
        /\ \A other \in Slots \ {slot} : tasks'[other] = tasks[other]
        /\ \A other \in Slots : \A kinds :
             Doing(other, kinds)' <=> Doing(other, kinds) /\ other # slot
    BY TaskEnds DEF stored
  <1>2. /\ statusInFlight' = IF statusInFlight = task.version THEN 0 ELSE statusInFlight
        /\ IF IsCurrent(task)
             THEN /\ connected' = ok
                  /\ shown' = IF ok THEN [shown EXCEPT !["snapshot"] = task.server] ELSE shown
             ELSE UNCHANGED <<connected, shown>>
    BY DEF StatusResult, MarkerAfter
  <1>3. statusInFlight' \in Nat /\ statusInFlight' <= version'
    BY <1>1, <1>2 DEF TypeInv
  <1>4. /\ task.server \in Targets
        /\ IsCurrent(task) => session # None /\ task.server = session /\ version > 0
    <2>1. task \in Task
      BY DEF TypeInv
    <2>2. task.kind # "connect"
      BY DEF StatusKinds
    <2> QED
      BY <2>1, <2>2 DEF Task, TaskInv, IsCurrent, SessionInv
  <1>5. /\ connected' \in BOOLEAN /\ shown' \in [Data -> Targets \cup {None}]
        /\ shown' = shown \/ (IsCurrent(task) /\ shown' = [shown EXCEPT !["snapshot"] = session])
        /\ connected' =>
             \/ connected /\ shown' = shown
             \/ IsCurrent(task) /\ shown' = [shown EXCEPT !["snapshot"] = session]
    BY <1>2, <1>4 DEF TypeInv
  <1>6. SessionInv'
    <2>1. ActiveId' = ActiveId /\ ServerOf(ActiveId)' = ServerOf(ActiveId)
      BY DEF ActiveId, ServerOf, stored
    <2>2. /\ shown["snapshot"] = session => shown'["snapshot"] = session
          /\ \A d \in Data : shown'[d] \in {shown[d], session}
          /\ connected' => session # None /\ shown'["snapshot"] = session
      <3>1. \A d \in Data : [shown EXCEPT !["snapshot"] = session][d] =
                             IF d = "snapshot" THEN session ELSE shown[d]
        BY DEF TypeInv
      <3>2. "snapshot" \in Data
        BY Distinct
      <3> QED
        BY <1>4, <1>5, <3>1, <3>2 DEF SessionInv
    <2> QED
      BY <1>1, <2>1, <2>2 DEF SessionInv
  <1>7. StatusInv'
    <2>1. \A other \in Slots : Doing(other, StatusKinds)' <=>
                                 Doing(other, StatusKinds) /\ other # slot
      BY <1>1
    <2>2. version \in Nat /\ task.version \in Nat /\ task.version <= version
      BY DEF TypeInv, Task, SignalInv
    <2>3. CASE IsCurrent(task)
      <3>1. Doing(slot, StatusKinds) /\ version > 0
        BY <1>4, <2>3 DEF Doing, IsCurrent
      <3>2. statusInFlight = version /\ \A other \in Slots : ~Doing(other, StatusKinds)'
        BY <2>1, <3>1 DEF StatusInv
      <3>3. statusInFlight' = 0
        BY <1>2, <2>3, <3>2 DEF IsCurrent
      <3> QED
        BY <1>1, <3>1, <3>2, <3>3 DEF StatusInv
    <2>4. CASE ~IsCurrent(task)
      <3>1. ~Doing(slot, StatusKinds) /\ task.version # version
        BY <2>4 DEF Doing, IsCurrent
      <3>2. \A other \in Slots : Doing(other, StatusKinds)' <=> Doing(other, StatusKinds)
        BY <2>1, <3>1
      <3>3. statusInFlight = version => statusInFlight' = version
        BY <1>2, <3>1
      <3>4. statusInFlight' = version /\ version > 0 => statusInFlight = version
        BY <1>2, <2>2
      <3> QED
        BY <1>1, <3>2, <3>3, <3>4 DEF StatusInv
    <2> QED
      BY <2>3, <2>4
  <1> QED
    BY <1>1, <1>3, <1>5, <1>6, <1>7

(* An operation that waits for a confirmed command is not one of the others. *)
LEMMA StillConfirming ==
  ASSUME Inv, NEW slot \in Slots, tasks[slot] # None,
         tasks[slot].kind \notin {"confirm", "confirmStatus"},
         \A other \in Slots \ {slot} : tasks'[other] = tasks[other], UNCHANGED confirmationBusy
  PROVE  confirmationBusy' /\ mounted => \E other \in Slots :
           tasks'[other] # None /\ tasks'[other].kind \in {"confirm", "confirmStatus"}
  <1> SUFFICES ASSUME confirmationBusy', mounted
               PROVE  \E other \in Slots :
                 tasks'[other] # None /\ tasks'[other].kind \in {"confirm", "confirmStatus"}
    OBVIOUS
  <1>1. PICK other \in Slots :
          tasks[other] # None /\ tasks[other].kind \in {"confirm", "confirmStatus"}
    BY DEF Inv, BusyInv
  <1>2. other # slot
    BY <1>1
  <1> QED
    BY <1>1, <1>2

(* A status request of the button or of the interval ends.                   *)
LEMMA StatusEndsStep ==
  ASSUME Inv, NEW slot \in Slots, NEW ok \in BOOLEAN, StatusEnds(slot, ok)
  PROVE  Inv'
  <1> DEFINE task == tasks[slot]
  <1> USE DEF Inv
  <1>1. /\ task # None /\ task.kind \in {"status", "poll"} /\ End(slot)
        /\ StatusResult(task, ok)
        /\ refreshing' = (refreshing /\ ~(IsCurrent(task) /\ task.kind = "status"))
        /\ UNCHANGED <<refs, stored, demoMode, secrets, connecting, consoleBusy, loading,
                       dialog, confirmationBusy, mounted, session>>
    BY DEF StatusEnds, Outcome
  <1>2. /\ SignalInv' /\ TaskInv' /\ SessionInv' /\ StatusInv'
        /\ version' = version
        /\ tasks' \in [Slots -> Task \cup {None}]
        /\ \A other \in Slots \ {slot} : tasks'[other] = tasks[other]
        /\ \A other \in Slots : \A kinds :
             Doing(other, kinds)' <=> Doing(other, kinds) /\ other # slot
        /\ connected' \in BOOLEAN /\ shown' \in [Data -> Targets \cup {None}]
        /\ statusInFlight' \in Nat /\ statusInFlight' <= version'
    BY <1>1, StatusResultFacts DEF StatusKinds
  <1>3. TypeInv'
    BY <1>1, <1>2 DEF TypeInv, refs, stored
  <1>4. DialogInv'
    BY <1>1 DEF DialogInv
  <1>5. BusyInv'
    <2>1. \A other \in Slots : \A kinds : "status" \notin kinds /\ "poll" \notin kinds =>
            (Doing(other, kinds)' <=> Doing(other, kinds))
      BY <1>1, <1>2 DEF Doing
    <2>2. \A list \in loading : list # "status" /\ list # "poll"
      BY DashboardAssumption DEF TypeInv, AllLists
    <2>3. ASSUME refreshing', mounted PROVE \E other \in Slots : Doing(other, {"status"})'
      <3>1. refreshing /\ ~(IsCurrent(task) /\ task.kind = "status")
        BY <1>1, <2>3
      <3>2. PICK other \in Slots : Doing(other, {"status"})
        BY <2>3, <3>1 DEF BusyInv
      <3>3. other # slot
        BY <3>1, <3>2 DEF Doing, IsCurrent
      <3> QED
        BY <1>2, <3>2, <3>3
    <2>4. confirmationBusy' /\ mounted => \E other \in Slots :
            tasks'[other] # None /\ tasks'[other].kind \in {"confirm", "confirmStatus"}
      BY <1>1, <1>2, StillConfirming
    <2> QED
      BY <1>1, <1>2, <2>1, <2>2, <2>3, <2>4 DEF BusyInv
  <1> QED
    BY <1>2, <1>3, <1>4, <1>5

(* A console command ends.                                                   *)
LEMMA ConsoleEndsStep ==
  ASSUME Inv, NEW slot \in Slots, NEW ok \in BOOLEAN, ConsoleEnds(slot, ok)
  PROVE  Inv'
  <1> DEFINE task == tasks[slot]
  <1> USE DEF Inv
  <1>1. /\ task # None /\ task.kind = "console" /\ End(slot)
        /\ consoleBusy' = (consoleBusy /\ ~IsCurrent(task))
        /\ UNCHANGED <<refs, statusInFlight, stored, demoMode, secrets, connected, connecting,
                       refreshing, loading, shown, dialog, confirmationBusy, mounted, session>>
    BY DEF ConsoleEnds, Outcome
  <1>2. /\ SignalInv' /\ TaskInv'
        /\ version' = version
        /\ tasks' \in [Slots -> Task \cup {None}]
        /\ \A other \in Slots \ {slot} : tasks'[other] = tasks[other]
        /\ \A other \in Slots : \A kinds :
             Doing(other, kinds)' <=> Doing(other, kinds) /\ other # slot
    BY <1>1, TaskEnds DEF stored
  <1>3. TypeInv'
    BY <1>1, <1>2 DEF TypeInv, refs, stored
  <1>4. SessionInv' /\ DialogInv'
    <2>1. ActiveId' = ActiveId /\ ServerOf(ActiveId)' = ServerOf(ActiveId)
      BY <1>1 DEF ActiveId, ServerOf, stored
    <2> QED
      BY <1>1, <1>2, <2>1 DEF SessionInv, DialogInv
  <1>5. StatusInv'
    <2>1. \A other \in Slots : Doing(other, StatusKinds)' <=> Doing(other, StatusKinds)
      BY <1>1, <1>2 DEF Doing, StatusKinds
    <2> QED
      BY <1>1, <1>2, <2>1, StatusKept
  <1>6. BusyInv'
    <2>1. \A other \in Slots : \A kinds : "console" \notin kinds =>
            (Doing(other, kinds)' <=> Doing(other, kinds))
      BY <1>1, <1>2 DEF Doing
    <2>2. \A list \in loading : list # "console"
      BY DashboardAssumption DEF TypeInv, AllLists
    <2>3. mounted => (consoleBusy' <=> \E other \in Slots : Doing(other, {"console"})')
      <3>1. CASE IsCurrent(task)
        <4>1. Doing(slot, {"console"})
          BY <1>1, <3>1 DEF Doing, IsCurrent
        <4>2. \A other \in Slots : ~Doing(other, {"console"})'
          BY <1>2, <4>1 DEF BusyInv
        <4> QED
          BY <1>1, <3>1, <4>2
      <3>2. CASE ~IsCurrent(task)
        <4>1. ~Doing(slot, {"console"})
          BY <3>2 DEF Doing, IsCurrent
        <4>2. \A other \in Slots : Doing(other, {"console"})' <=> Doing(other, {"console"})
          BY <1>2, <4>1
        <4> QED
          BY <1>1, <3>2, <4>2 DEF BusyInv, TypeInv
      <3> QED
        BY <3>1, <3>2
    <2>4. confirmationBusy' /\ mounted => \E other \in Slots :
            tasks'[other] # None /\ tasks'[other].kind \in {"confirm", "confirmStatus"}
      BY <1>1, <1>2, StillConfirming
    <2> QED
      BY <1>1, <1>2, <2>1, <2>2, <2>3, <2>4 DEF BusyInv
  <1> QED
    BY <1>2, <1>3, <1>4, <1>5, <1>6

(* A list arrives, or does not.                                              *)
LEMMA LoadedStep ==
  ASSUME Inv, NEW slot \in Slots, NEW ok \in BOOLEAN, NEW list, tasks[slot] # None,
         tasks[slot].kind \in Lists \cup {"stage"}, list # "snapshot",
         End(slot), Loaded(tasks[slot], list, ok), UNCHANGED loadFrame
  PROVE  Inv'
  <1> DEFINE task == tasks[slot]
  <1> USE DEF Inv
  <1>1. UNCHANGED <<refs, statusInFlight, stored, demoMode, secrets, connected, connecting,
                    refreshing, consoleBusy, dialog, confirmationBusy, mounted, session>>
    BY DEF loadFrame
  <1>2. /\ SignalInv' /\ TaskInv'
        /\ version' = version
        /\ tasks' \in [Slots -> Task \cup {None}]
        /\ \A other \in Slots \ {slot} : tasks'[other] = tasks[other]
        /\ \A other \in Slots : \A kinds :
             Doing(other, kinds)' <=> Doing(other, kinds) /\ other # slot
    BY <1>1, TaskEnds DEF stored
  <1>3. /\ task.kind \in AllLists \cup {"stage"} /\ task.server \in Targets
        /\ IsCurrent(task) => session # None /\ task.server = session
    <2>1. task \in Task
      BY DEF TypeInv
    <2>2. task.kind \in AllLists \cup {"stage"}
      BY Distinct
    <2>3. task.kind # "connect"
      BY <2>2 DEF AllLists
    <2> QED
      BY <2>1, <2>2, <2>3 DEF Task, TaskInv, IsCurrent
  <1>4. /\ loading' = IF IsCurrent(task) THEN loading \ {task.kind} ELSE loading
        /\ shown' = shown \/ (IsCurrent(task) /\ shown' = [shown EXCEPT ![list] = session])
    BY <1>3 DEF Loaded
  <1>5. /\ shown' \in [Data -> Targets \cup {None}]
        /\ shown'["snapshot"] = shown["snapshot"]
        /\ \A d \in Data : shown'[d] \in {shown[d], session}
    <2>1. CASE shown' = shown
      BY <2>1 DEF TypeInv
    <2>2. CASE shown' = [shown EXCEPT ![list] = session]
      BY <2>2, Distinct DEF TypeInv
    <2> QED
      BY <1>4, <2>1, <2>2
  <1>6. TypeInv'
    BY <1>1, <1>2, <1>4, <1>5 DEF TypeInv, refs, stored
  <1>7. SessionInv' /\ DialogInv'
    <2>1. ActiveId' = ActiveId /\ ServerOf(ActiveId)' = ServerOf(ActiveId)
      BY <1>1 DEF ActiveId, ServerOf, stored
    <2> QED
      BY <1>1, <1>2, <1>5, <2>1 DEF SessionInv, DialogInv
  <1>8. \A other \in Slots : \A kinds : task.kind \notin kinds =>
          (Doing(other, kinds)' <=> Doing(other, kinds))
    BY <1>2 DEF Doing
  <1>9. StatusInv'
    <2>1. task.kind \notin StatusKinds
      BY <1>3 DEF StatusKinds, AllLists
    <2> QED
      BY <1>1, <1>2, <1>8, <2>1, StatusKept
  <1>10. BusyInv'
    <2>1. task.kind \notin {"console", "connect", "status", "confirm", "confirmStatus"}
      BY <1>3 DEF AllLists
    <2>2. /\ \A other \in Slots : Doing(other, {"console"})' <=> Doing(other, {"console"})
          /\ \A other \in Slots : Doing(other, {"connect"})' <=> Doing(other, {"connect"})
          /\ \A other \in Slots : Doing(other, {"status"})' <=> Doing(other, {"status"})
      BY <1>8, <2>1
    <2>3. ASSUME NEW l \in loading', mounted PROVE \E other \in Slots : Doing(other, {l})'
      <3>1. l \in loading
        BY <1>4, <2>3
      <3>2. PICK other \in Slots : Doing(other, {l})
        BY <2>3, <3>1 DEF BusyInv
      <3>3. other # slot
        <4> SUFFICES ASSUME other = slot PROVE FALSE
          OBVIOUS
        <4>1. IsCurrent(task) /\ task.kind = l
          BY <3>2 DEF Doing, IsCurrent
        <4> QED
          BY <1>4, <2>3, <4>1
      <3> QED
        BY <1>2, <3>2, <3>3
    <2>4. confirmationBusy' /\ mounted => \E other \in Slots :
            tasks'[other] # None /\ tasks'[other].kind \in {"confirm", "confirmStatus"}
      BY <1>1, <1>2, <2>1, StillConfirming
    <2> QED
      BY <1>1, <2>2, <2>3, <2>4 DEF BusyInv
  <1> QED
    BY <1>2, <1>6, <1>7, <1>9, <1>10

(* The lists, their titles and the staged mode.                              *)
LEMMA LoadEndSteps ==
  ASSUME Inv, NEW slot \in Slots,
         \/ TitlesArrive(slot)
         \/ \E ok \in BOOLEAN : LoadEnds(slot, ok) \/ StageEnds(slot, ok)
  PROVE  Inv'
  <1>1. CASE TitlesArrive(slot)
    <2>1. /\ tasks[slot] # None /\ tasks[slot].waits = "titles"
          /\ End(slot) /\ Loaded(tasks[slot], "maps", TRUE) /\ UNCHANGED loadFrame
      BY <1>1 DEF TitlesArrive
    <2>2. tasks[slot].kind = "maps" /\ tasks[slot].kind \in Kinds
      BY <2>1 DEF Inv, TaskInv, TypeInv, Task
    <2>3. tasks[slot].kind \in Lists
      BY <2>2 DEF Kinds
    <2> QED
      BY <2>1, <2>3, LoadedStep
  <1>2. ASSUME NEW ok \in BOOLEAN, LoadEnds(slot, ok) PROVE Inv'
    <2>1. /\ tasks[slot] # None /\ tasks[slot].kind \in Lists
          /\ End(slot) /\ Loaded(tasks[slot], tasks[slot].kind, ok) /\ UNCHANGED loadFrame
      BY <1>2 DEF LoadEnds, Outcome
    <2>2. tasks[slot].kind # "snapshot"
      BY <2>1, DashboardAssumption DEF AllLists
    <2> QED
      BY <2>1, <2>2, LoadedStep
  <1>3. ASSUME NEW ok \in BOOLEAN, StageEnds(slot, ok) PROVE Inv'
    <2>1. /\ tasks[slot] # None /\ tasks[slot].kind = "stage"
          /\ End(slot) /\ Loaded(tasks[slot], "mode", ok) /\ UNCHANGED loadFrame
      BY <1>3 DEF StageEnds, Outcome
    <2> QED
      BY <2>1, LoadedStep
  <1> QED
    BY <1>1, <1>2, <1>3

(* The map list is there and its titles are asked for.                       *)
LEMMA AsksTitlesStep ==
  ASSUME Inv, NEW slot \in Slots, AsksTitles(slot)
  PROVE  Inv'
  <1> DEFINE task == tasks[slot]
             next == [task EXCEPT !.waits = "titles"]
  <1> USE DEF Inv
  <1>1. /\ task # None /\ task.kind = "maps"
        /\ tasks' = [tasks EXCEPT ![slot].waits = "titles"]
        /\ UNCHANGED <<refs, statusInFlight, stored, demoMode, secrets, connected, connecting,
                    refreshing, consoleBusy, dialog, confirmationBusy, mounted, session, loading,
                    shown>>
    BY DEF AsksTitles, Outcome, loadFrame
  <1>2. task \in Task
    BY <1>1 DEF TypeInv
  <1>3. /\ next \in Task
        /\ next.kind = task.kind /\ next.version = task.version
        /\ next.controller = task.controller /\ next.id = task.id
        /\ next.server = task.server /\ next.password = task.password
        /\ next.keep = task.keep
    BY <1>2 DEF Task
  <1>4. tasks' = [tasks EXCEPT ![slot] = next]
    BY <1>1
  <1> HIDE DEF next
  <1>5. /\ tasks' \in [Slots -> Task \cup {None}]
        /\ tasks'[slot] = next /\ next # None
        /\ \A other \in Slots \ {slot} : tasks'[other] = tasks[other]
    BY <1>3, <1>4, Distinct DEF TypeInv
  <1>6. \A other \in Slots :
          /\ tasks'[other] # None <=> tasks[other] # None
          /\ tasks[other] # None =>
               /\ tasks'[other].kind = tasks[other].kind
               /\ tasks'[other].version = tasks[other].version
               /\ tasks'[other].controller = tasks[other].controller
               /\ tasks'[other].id = tasks[other].id
               /\ tasks'[other].server = tasks[other].server
               /\ tasks'[other].password = tasks[other].password
               /\ tasks'[other].keep = tasks[other].keep
               /\ tasks'[other].waits = "titles" =>
                    other = slot \/ tasks[other].waits = "titles"
    BY <1>1, <1>3, <1>5
  <1>7. \A other \in Slots : \A kinds : Doing(other, kinds)' <=> Doing(other, kinds)
    BY <1>1, <1>6 DEF Doing, refs
  <1>8. TypeInv'
    BY <1>1, <1>5 DEF TypeInv, refs, stored
  <1>9. SignalInv'
    BY <1>1, <1>6 DEF SignalInv, refs
  <1>10. TaskInv'
    BY <1>1, <1>6, <1>7 DEF TaskInv, refs, stored
  <1>11. SessionInv' /\ DialogInv'
    <2>1. ActiveId' = ActiveId /\ ServerOf(ActiveId)' = ServerOf(ActiveId)
      BY <1>1 DEF ActiveId, ServerOf, stored
    <2> QED
      BY <1>1, <2>1 DEF SessionInv, DialogInv, refs
  <1>12. StatusInv'
    BY <1>1, <1>7, StatusKept DEF refs
  <1>13. BusyInv'
    BY <1>1, <1>6, <1>7 DEF BusyInv
  <1> QED
    BY <1>8, <1>9, <1>10, <1>11, <1>12, <1>13

(* A kick or a ban was answered and the status is asked for.                 *)
LEMMA CommandDoneStep ==
  ASSUME Inv, NEW slot \in Slots, CommandDone(slot)
  PROVE  Inv'
  <1> DEFINE task == tasks[slot]
             next == [task EXCEPT !.kind = "confirmStatus"]
  <1> USE DEF Inv
  <1>1. /\ task # None /\ task.kind = "confirm" /\ IsCurrent(task)
        /\ task.waits = "rcon"
        /\ statusInFlight # version /\ statusInFlight' = version
        /\ tasks' = [tasks EXCEPT ![slot].kind = "confirmStatus"]
        /\ UNCHANGED <<refs, stored, demoMode, secrets, connecting, refreshing, consoleBusy,
                       loading, mounted, session, connected, shown, dialog, confirmationBusy>>
    BY DEF CommandDone, Outcome, confirmFrame
  <1>2. task \in Task
    BY <1>1 DEF TypeInv
  <1>3. /\ next \in Task
        /\ next.kind = "confirmStatus" /\ next.version = task.version
        /\ next.controller = task.controller
        /\ next.server = task.server /\ next.password = task.password
        /\ next.waits = "rcon"
    BY <1>1, <1>2 DEF Task, Kinds
  <1>4. tasks' = [tasks EXCEPT ![slot] = next]
    BY <1>1
  <1> HIDE DEF next
  <1>5. /\ tasks' \in [Slots -> Task \cup {None}]
        /\ tasks'[slot] = next /\ next # None
        /\ \A other \in Slots \ {slot} : tasks'[other] = tasks[other]
    BY <1>3, <1>4, Distinct DEF TypeInv
  <1>6. version' = version /\ task.version = version
    BY <1>1 DEF refs, IsCurrent
  <1>7. \A other \in Slots : \A kinds :
          Doing(other, kinds)' <=> IF other = slot THEN "confirmStatus" \in kinds
                                   ELSE Doing(other, kinds)
    BY <1>3, <1>5, <1>6 DEF Doing
  <1>8. \A kinds : Doing(slot, kinds) => "confirm" \in kinds
    BY <1>1 DEF Doing
  <1>9. TypeInv'
    <2>1. statusInFlight' \in Nat /\ statusInFlight' <= version'
      BY <1>1, <1>6 DEF TypeInv
    <2> QED
      BY <1>1, <1>5, <2>1 DEF TypeInv, refs, stored
  <1>10. SignalInv'
    BY <1>1, <1>3, <1>5 DEF SignalInv, refs
  <1>11. TaskInv'
    <2>1. /\ session # None /\ task.server = session /\ task.server = task.password
      BY <1>1, <1>6 DEF TaskInv
    <2>2. \A other \in Slots : ~Doing(other, {"connect"})'
      <3>1. \A other \in Slots : ~Doing(other, {"connect"})
        BY <2>1 DEF TaskInv, Doing
      <3> QED
        BY <1>7, <3>1
    <2>3. \A other \in Slots : tasks'[other] # None =>
            /\ tasks'[other].server = tasks'[other].password
            /\ tasks'[other].kind = "connect" =>
                 /\ tasks'[other].server \in Servers /\ tasks'[other].id \in Ids
                 /\ tasks'[other].version > 0
            /\ tasks'[other].waits = "titles" => tasks'[other].kind = "maps"
            /\ tasks'[other].version = version' /\ tasks'[other].kind # "connect" =>
                 session' # None /\ tasks'[other].server = session'
      <3> TAKE other \in Slots
      <3>1. CASE other = slot
        BY <1>1, <1>3, <1>5, <2>1, <3>1
      <3>2. CASE other # slot
        BY <1>1, <1>5, <1>6, <3>2 DEF TaskInv
      <3> QED
        BY <3>1, <3>2
    <2> QED
      BY <2>2, <2>3 DEF TaskInv
  <1>12. SessionInv' /\ DialogInv'
    <2>1. ActiveId' = ActiveId /\ ServerOf(ActiveId)' = ServerOf(ActiveId)
      BY <1>1 DEF ActiveId, ServerOf, stored
    <2> QED
      BY <1>1, <2>1 DEF SessionInv, DialogInv, refs
  <1>13. StatusInv'
    <2>1. \A other \in Slots : ~Doing(other, StatusKinds)
      BY <1>1 DEF StatusInv
    <2>2. \A other \in Slots : Doing(other, StatusKinds)' <=> other = slot
      BY <1>7, <2>1 DEF StatusKinds
    <2> QED
      BY <1>1, <1>6, <2>2 DEF StatusInv
  <1>14. BusyInv'
    <2>1. \A other \in Slots : \A kinds : "confirm" \notin kinds /\ "confirmStatus" \notin kinds =>
            (Doing(other, kinds)' <=> Doing(other, kinds))
      BY <1>7, <1>8
    <2>2. \A list \in loading : list # "confirm" /\ list # "confirmStatus"
      BY DashboardAssumption DEF TypeInv, AllLists
    <2>3. tasks'[slot] # None /\ tasks'[slot].kind \in {"confirm", "confirmStatus"}
      BY <1>3, <1>5
    <2> QED
      BY <1>1, <2>1, <2>2, <2>3 DEF BusyInv
  <1> QED
    BY <1>9, <1>10, <1>11, <1>12, <1>13, <1>14

(* A confirmed command ends, with the status it asked for or without.        *)
LEMMA ConfirmEndsStep ==
  ASSUME Inv, NEW slot \in Slots, NEW ok \in BOOLEAN, ConfirmEnds(slot, ok)
  PROVE  Inv'
  <1> DEFINE task == tasks[slot]
  <1> USE DEF Inv
  <1>1. /\ task # None /\ task.kind \in {"confirm", "confirmStatus"} /\ End(slot)
        /\ confirmationBusy' = FALSE
        /\ dialog' = None \/ dialog' = dialog
        /\ IF task.kind = "confirmStatus"
             THEN StatusResult(task, ok)
             ELSE UNCHANGED <<statusInFlight, connected, shown>>
        /\ UNCHANGED <<refs, stored, demoMode, secrets, connecting, refreshing, consoleBusy,
                       loading, mounted, session>>
    BY DEF ConfirmEnds, Outcome, confirmFrame
  <1>2. /\ SignalInv' /\ TaskInv' /\ SessionInv' /\ StatusInv'
        /\ version' = version
        /\ tasks' \in [Slots -> Task \cup {None}]
        /\ \A other \in Slots : \A kinds :
             Doing(other, kinds)' <=> Doing(other, kinds) /\ other # slot
        /\ connected' \in BOOLEAN /\ shown' \in [Data -> Targets \cup {None}]
        /\ statusInFlight' \in Nat /\ statusInFlight' <= version'
    <2>1. CASE task.kind = "confirmStatus"
      BY <1>1, <2>1, StatusResultFacts DEF StatusKinds
    <2>2. CASE task.kind # "confirmStatus"
      <3>1. UNCHANGED <<statusInFlight, connected, shown>>
        BY <1>1, <2>2
      <3>2. /\ SignalInv' /\ TaskInv'
            /\ version' = version
            /\ tasks' \in [Slots -> Task \cup {None}]
            /\ \A other \in Slots : \A kinds :
                 Doing(other, kinds)' <=> Doing(other, kinds) /\ other # slot
        BY <1>1, TaskEnds DEF stored
      <3>3. \A other \in Slots : Doing(other, StatusKinds)' <=> Doing(other, StatusKinds)
        BY <1>1, <2>2, <3>2 DEF Doing, StatusKinds
      <3>4. StatusInv'
        BY <3>1, <3>2, <3>3, StatusKept
      <3>5. ActiveId' = ActiveId /\ ServerOf(ActiveId)' = ServerOf(ActiveId)
        BY <1>1 DEF ActiveId, ServerOf, stored
      <3>6. SessionInv'
        BY <1>1, <3>1, <3>2, <3>5 DEF SessionInv
      <3> QED
        BY <3>1, <3>2, <3>4, <3>6 DEF TypeInv
    <2> QED
      BY <2>1, <2>2
  <1>3. TypeInv'
    <2>1. UNCHANGED <<controller, aborted, profiles, saved, active, demoMode, secrets, connecting,
                      refreshing, consoleBusy, loading, mounted, session>>
      BY <1>1 DEF refs, stored
    <2>2. confirmationBusy' \in BOOLEAN /\ dialog' \in Dialog \cup {None}
      BY <1>1 DEF TypeInv
    <2> QED
      BY <1>2, <2>1, <2>2 DEF TypeInv
  <1>4. DialogInv'
    BY <1>1 DEF DialogInv
  <1>5. BusyInv'
    <2>1. \A other \in Slots : \A kinds : "confirm" \notin kinds /\ "confirmStatus" \notin kinds =>
            (Doing(other, kinds)' <=> Doing(other, kinds))
      BY <1>1, <1>2 DEF Doing
    <2>2. \A list \in loading : list # "confirm" /\ list # "confirmStatus"
      BY DashboardAssumption DEF TypeInv, AllLists
    <2> QED
      BY <1>1, <2>1, <2>2 DEF BusyInv
  <1> QED
    BY <1>2, <1>3, <1>4, <1>5

-----------------------------------------------------------------------------
(* The invariant holds.                                                      *)

(* A handler that a click runs keeps it.                                     *)
LEMMA ClickInv ==
  ASSUME Inv, Click
  PROVE  Inv'
  <1>1. CASE Disconnect \/ ConfirmClear \/ \E id \in Ids : SelectProfile(id)
    BY <1>1, LeavingSteps
  <1>2. CASE ConnectDemo
    BY <1>2, ConnectDemoStep
  <1>3. ASSUME NEW slot \in Slots, NEW id \in Ids,
               SwitchProfile(slot, id) \/ \E server \in Servers : SaveAndConnect(slot, id, server)
        PROVE  Inv'
    BY <1>3, ConnectingSteps
  <1>4. ASSUME NEW slot \in Slots,
               \/ ExecuteConsole(slot) \/ ConfirmCommand(slot) \/ RefreshStatus(slot, "status")
               \/ StageGameMode(slot) \/ \E list \in Lists : Load(slot, list)
        PROVE  Inv'
    <2>1. CASE ExecuteConsole(slot)
      BY <2>1, ExecuteConsoleStep
    <2>2. CASE ConfirmCommand(slot)
      BY <2>2, ConfirmCommandStep
    <2>3. CASE RefreshStatus(slot, "status")
      BY <2>3, RefreshStatusStep
    <2>4. CASE StageGameMode(slot) \/ \E list \in Lists : Load(slot, list)
      BY <2>4, LoadSteps
    <2> QED
      BY <1>4, <2>1, <2>2, <2>3, <2>4
  <1>5. CASE \/ OpenDialog("rcon", None) \/ OpenDialog("clear", None)
             \/ \E id \in Ids : OpenDialog("delete", id)
             \/ CancelDialog
    <2>1. \/ \E kind \in {"rcon", "delete", "clear"}, id \in Ids \cup {None} : OpenDialog(kind, id)
          \/ CancelDialog
      BY <1>5
    <2> QED
      BY <2>1, DialogSteps
  <1>6. CASE ConfirmDelete
    BY <1>6, ConfirmDeleteStep
  <1> QED
    BY <1>1, <1>2, <1>3, <1>4, <1>5, <1>6 DEF Click

(* The end of an operation keeps it.                                         *)
LEMMA SettleInv ==
  ASSUME Inv, NEW slot \in Slots, Settle(slot)
  PROVE  Inv'
  <1>1. ASSUME NEW ok \in BOOLEAN, ConnectEnds(slot, ok) PROVE Inv'
    BY <1>1, ConnectEndsStep
  <1>2. ASSUME NEW ok \in BOOLEAN, StatusEnds(slot, ok) PROVE Inv'
    BY <1>2, StatusEndsStep
  <1>3. ASSUME NEW ok \in BOOLEAN, ConsoleEnds(slot, ok) PROVE Inv'
    BY <1>3, ConsoleEndsStep
  <1>4. ASSUME NEW ok \in BOOLEAN, LoadEnds(slot, ok) \/ StageEnds(slot, ok) PROVE Inv'
    BY <1>4, LoadEndSteps
  <1>5. ASSUME NEW ok \in BOOLEAN, ConfirmEnds(slot, ok) PROVE Inv'
    BY <1>5, ConfirmEndsStep
  <1>6. CASE AsksTitles(slot)
    BY <1>6, AsksTitlesStep
  <1>7. CASE TitlesArrive(slot)
    BY <1>7, LoadEndSteps
  <1>8. CASE CommandDone(slot)
    BY <1>8, CommandDoneStep
  <1> QED
    BY <1>1, <1>2, <1>3, <1>4, <1>5, <1>6, <1>7, <1>8 DEF Settle

(* So does every step, the one that changes nothing included.                *)
LEMMA NextInv ==
  ASSUME Inv, [Next]_vars
  PROVE  Inv'
  <1>1. CASE Click
    BY <1>1, ClickInv
  <1>2. CASE Unmount
    BY <1>2, UnmountStep
  <1>3. ASSUME NEW slot \in Slots, RefreshStatus(slot, "poll") PROVE Inv'
    BY <1>3, RefreshStatusStep
  <1>4. ASSUME NEW slot \in Slots, Settle(slot) PROVE Inv'
    BY <1>4, SettleInv
  <1>5. CASE UNCHANGED vars
    <2> USE <1>5 DEF vars, refs, stored, flags
    <2>1. TypeInv' /\ SignalInv' /\ DialogInv'
      BY DEF Inv, TypeInv, SignalInv, DialogInv
    <2>2. SessionInv'
      BY DEF Inv, SessionInv, ActiveId, ServerOf
    <2>3. TaskInv' /\ StatusInv' /\ BusyInv'
      BY DEF Inv, TaskInv, StatusInv, BusyInv, Doing
    <2> QED
      BY <2>1, <2>2, <2>3 DEF Inv
  <1> QED
    BY <1>1, <1>2, <1>3, <1>4, <1>5 DEF Next

(* The invariant holds in every state of the page.                           *)
LEMMA AlwaysInv == Spec => []Inv
  BY InitInv, NextInv, PTL DEF Spec

-----------------------------------------------------------------------------
(* The properties.                                                           *)

(* Every request carries the password of the server it goes to, however many *)
(* profiles, servers and requests there are (lines 138-153: the closures     *)
(* that runCommands() captured).                                             *)
THEOREM CredentialsAlwaysMatch == Spec => []CredentialsMatchTarget
  <1>1. Inv => CredentialsMatchTarget
    BY DEF Inv, TaskInv, CredentialsMatchTarget, Pending
  <1> QED
    BY <1>1, AlwaysInv, PTL

(* A connected page has a session, and shows nothing of another server.      *)
THEOREM ShownAlwaysOfSession == Spec => []ShownIsOfSession
  <1>1. Inv => ShownIsOfSession
    BY DEF Inv, SessionInv, ShownIsOfSession
  <1> QED
    BY <1>1, AlwaysInv, PTL

(* The active profile and the secrets of a connected page are the session's. *)
THEOREM CommandsAlwaysGoToSession == Spec => []CommandsGoToSession
  <1>1. Inv => CommandsGoToSession
    BY DEF Inv, SessionInv, CommandsGoToSession
  <1> QED
    BY <1>1, AlwaysInv, PTL

(* The requests whose signal is aborted are those of the sessions that ended.*)
THEOREM OldRequestsAlwaysCancelled == Spec => []OldRequestsCancelled
  <1>1. ASSUME Inv PROVE OldRequestsCancelled
    <2> SUFFICES ASSUME NEW slot \in Slots, tasks[slot] # None
                 PROVE  Cancelled(tasks[slot]) <=> tasks[slot].version # version
      BY DEF OldRequestsCancelled, Pending
    <2>1. /\ tasks[slot].controller = tasks[slot].version
          /\ tasks[slot].version = version => ~aborted
          /\ ~aborted => controller = version
      BY <1>1 DEF Inv, SignalInv
    <2> QED
      BY <2>1 DEF Cancelled
  <1> QED
    BY <1>1, AlwaysInv, PTL

(* The current operations of some kinds, as the invariant speaks of them.    *)
LEMMA CurrentIsDoing ==
  ASSUME NEW kinds
  PROVE  Current(kinds) = {slot \in Slots : Doing(slot, kinds)}
  BY DEF Current, Pending, Doing

(* A set with at most one member.                                            *)
LEMMA AtMostOne ==
  ASSUME NEW S, \A x, y \in S : x = y
  PROVE  Cardinality(S) <= 1
  <1>1. CASE S = {}
    BY <1>1, FS_EmptySet
  <1>2. CASE S # {}
    <2>1. PICK x : S = {x}
      BY <1>2
    <2> QED
      BY <2>1, FS_Singleton
  <1> QED
    BY <1>1, <1>2

(* Status and console run one at a time, and every flag that is up, and the  *)
(* marker of the status request, has an operation that will take it down.    *)
THEOREM BusyAlwaysHasOwner == Spec => []BusyHasOwner
  <1>1. ASSUME Inv PROVE BusyHasOwner
    <2> USE <1>1 DEF Inv
    <2>1. StatusRequests = {slot \in Slots : Doing(slot, StatusKinds)}
      BY CurrentIsDoing DEF StatusRequests, StatusKinds
    <2>2. Cardinality(StatusRequests) <= 1
      <3>1. \A x, y \in StatusRequests : x = y
        BY <2>1 DEF StatusInv
      <3> QED
        BY <3>1, AtMostOne
    <2>3. Cardinality(Current({"console"})) <= 1
      <3>1. \A x, y \in Current({"console"}) : x = y
        BY CurrentIsDoing DEF BusyInv
      <3> QED
        BY <3>1, AtMostOne
    <2>4. ASSUME mounted
          PROVE  /\ connecting => Current({"connect"}) # {}
                 /\ refreshing => Current({"status"}) # {}
                 /\ consoleBusy => Current({"console"}) # {}
                 /\ \A list \in loading : Current({list}) # {}
                 /\ confirmationBusy => Pending({"confirm", "confirmStatus"}) # {}
      BY <2>4, CurrentIsDoing DEF BusyInv, Pending
    <2>5. ASSUME statusInFlight \in {0, version}
          PROVE  statusInFlight # 0 <=> StatusRequests # {}
      <3>1. CASE statusInFlight = 0
        <4> SUFFICES ASSUME NEW slot \in Slots, Doing(slot, StatusKinds) PROVE FALSE
          BY <2>1, <3>1
        <4>1. version = 0
          BY <3>1 DEF StatusInv
        <4>2. session # None
          BY DEF TaskInv, Doing, StatusKinds
        <4>3. version > 0
          BY <4>2 DEF SessionInv
        <4> QED
          BY <4>1, <4>3
      <3>2. CASE statusInFlight # 0
        <4>1. statusInFlight = version /\ version > 0
          BY <2>5, <3>2 DEF TypeInv
        <4> QED
          BY <2>1, <3>2, <4>1 DEF StatusInv
      <3> QED
        BY <3>1, <3>2
    <2> QED
      BY <2>2, <2>3, <2>4, <2>5 DEF BusyHasOwner
  <1> QED
    BY <1>1, AlwaysInv, PTL
=============================================================================
