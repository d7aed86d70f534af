-------------------------- MODULE DashboardSession --------------------------
(* The session logic of the browser dashboard                                *)
(* (src/components/rcon-dashboard.tsx): which server the page is connected   *)
(* to, with whose password, and what becomes of the requests that are still  *)
(* in flight when the user switches, disconnects, deletes a profile, clears  *)
(* the local data or leaves.                                                 *)
(*                                                                           *)
(* React runs one handler or continuation at a time and renders before the   *)
(* next event, so every action below is the synchronous run from one event   *)
(* or await to the next await.  Section and modal navigation is left out: a  *)
(* user may go anywhere; what stays is what the page disables.               *)
(* A password is named by the server that accepts it.                        *)
EXTENDS Naturals, FiniteSets

CONSTANTS
  Ids,          \* profile ids
  Servers,      \* host:port pairs
  Lists,        \* the loadable data in play, of AllLists
  Slots,        \* bound: asynchronous operations in flight at once
  MaxSessions,  \* bound on sessionVersion
  Demo, None

AllLists == {"bans", "maps", "mode", "catalog"}
Targets == Servers \cup {Demo}
Data == Lists \cup {"snapshot"}
Kinds == {"connect", "status", "poll", "console", "stage", "confirm", "confirmStatus"} \cup Lists

(* An operation that awaits an answer: what its closure captured, and        *)
(* whether it waits for the server or for the Workshop titles.               *)
Task == [kind : Kinds, version : Nat, controller : Nat, id : Ids \cup {None},
         server : Targets, password : Targets, keep : BOOLEAN, waits : {"rcon", "titles"}]

ASSUME DashboardAssumption ==
  /\ Lists \subseteq AllLists
  /\ IsFiniteSet(Slots) /\ MaxSessions \in Nat
  /\ Demo # None /\ {Demo, None} \cap (Ids \cup Servers) = {}
  /\ None \notin Task

VARIABLES
  \* refs, seen by every closure at once
  version, controller, aborted, statusInFlight,
  \* React state
  profiles, saved, active, demoMode, secrets,
  connected, connecting, refreshing, consoleBusy, loading, shown,
  dialog, confirmationBusy,
  \* the operations that are awaiting something, and whether the page is open
  tasks, mounted,
  \* history: the server whose session has been established and not ended
  session

stored == <<profiles, saved, active>>
flags == <<connected, connecting, refreshing, consoleBusy, loading>>
refs == <<version, controller, aborted>>
vars == <<refs, statusInFlight, stored, demoMode, secrets, flags, shown, dialog,
          confirmationBusy, tasks, mounted, session>>

(* A dialog: its kind and, of the render that opened it, the active profile, *)
(* its server and the password.                                              *)
Dialog == [kind : {"rcon", "delete", "clear"}, id : Ids \cup {None},
           active : Ids \cup {Demo, None}, server : Targets \cup {None},
           password : Targets \cup {None}]

(* activeProfile (lines 226-229): its id, and the server it names.           *)
ActiveId == IF demoMode THEN Demo
            ELSE IF active # None /\ profiles[active] # None THEN active ELSE None
ServerOf(id) == CASE id = Demo -> Demo [] id = None -> None [] OTHER -> profiles[id]

Free(slot) == tasks[slot] = None
Begin(slot, task) == Free(slot) /\ tasks' = [tasks EXCEPT ![slot] = task]
End(slot) == tasks' = [tasks EXCEPT ![slot] = None]

Init ==
  /\ version = 0 /\ controller = 0 /\ aborted = FALSE /\ statusInFlight = 0
  /\ profiles \in [Ids -> Servers \cup {None}]
  /\ saved \in SUBSET {id \in Ids : profiles[id] # None}
  /\ active \in {id \in Ids : profiles[id] # None} \cup {None}
  /\ secrets = IF active \in saved THEN profiles[active] ELSE None
  /\ demoMode = FALSE
  /\ connected = FALSE /\ connecting = FALSE /\ refreshing = FALSE
  /\ consoleBusy = FALSE /\ loading = {}
  /\ shown = [d \in Data |-> None]
  /\ dialog = None /\ confirmationBusy = FALSE
  /\ tasks = [slot \in Slots |-> None]
  /\ mounted = TRUE
  /\ session = None

(* The page takes clicks: it is open and no dialog makes the rest inert.     *)
Clickable == mounted /\ dialog = None

-----------------------------------------------------------------------------
(* The end of a session.                                                     *)

(* Bug: the requests of the session that ends are left running.              *)
BugAborts == UNCHANGED aborted
Aborts == aborted' = TRUE

(* Bug: the console stays busy with the command of the session that ends.    *)
BugIdles == refreshing' = FALSE /\ loading' = {} /\ UNCHANGED consoleBusy
Idles == refreshing' = FALSE /\ loading' = {} /\ consoleBusy' = FALSE

(* disconnect(), lines 597-617, with the data that handlers blank after it.  *)
EndSession ==
  /\ version < MaxSessions
  /\ version' = version + 1
  /\ Aborts /\ UNCHANGED controller
  /\ Idles /\ connecting' = FALSE
  /\ connected' = FALSE /\ demoMode' = FALSE /\ secrets' = None
  /\ session' = None
  /\ dialog' = None

Blank(kept) == [d \in Data |-> IF d \in kept THEN shown[d] ELSE None]

Disconnect ==
  /\ Clickable /\ (connected \/ ActiveId # None)
  /\ EndSession
  /\ shown' = Blank({"catalog"})
  /\ UNCHANGED <<statusInFlight, stored, confirmationBusy, tasks, mounted>>

Unmount ==
  /\ mounted /\ version < MaxSessions
  /\ mounted' = FALSE
  /\ version' = version + 1
  /\ Aborts /\ UNCHANGED controller
  /\ UNCHANGED <<statusInFlight, stored, demoMode, secrets, flags, shown, dialog,
                 confirmationBusy, tasks, session>>

-----------------------------------------------------------------------------
(* Connecting.                                                               *)

(* connectProfile() up to its await, called by switchProfile and by          *)
(* saveAndConnect, which keeps the profile once connected.                   *)
Connect(slot, id, server, keep) ==
  /\ Clickable /\ version < MaxSessions
  /\ keep => ~connecting                       \* the form is disabled
  /\ version' = version + 1 /\ controller' = version + 1 /\ aborted' = FALSE
  /\ Idles /\ connecting' = TRUE /\ connected' = FALSE
  /\ shown' = [shown EXCEPT !["snapshot"] = None]
  /\ session' = None
  /\ Begin(slot, [kind |-> "connect", version |-> version + 1, controller |-> version + 1,
                  id |-> id, server |-> server, password |-> server,
                  keep |-> keep, waits |-> "rcon"])
  /\ UNCHANGED <<statusInFlight, stored, demoMode, secrets, dialog, confirmationBusy, mounted>>

SwitchProfile(slot, id) == id \in saved /\ Connect(slot, id, profiles[id], FALSE)
SaveAndConnect(slot, id, server) == Connect(slot, id, server, TRUE)

(* switchProfile() of a profile whose password is not stored.                *)
SelectProfile(id) ==
  /\ Clickable /\ profiles[id] # None /\ id \notin saved
  /\ EndSession
  /\ shown' = Blank({"catalog"})
  /\ active' = id
  /\ UNCHANGED <<statusInFlight, profiles, saved, confirmationBusy, tasks, mounted>>

(* connectProfile(DEMO_PROFILE) awaits nothing.                              *)
ConnectDemo ==
  /\ Clickable /\ ~connecting /\ version < MaxSessions
  /\ version' = version + 1 /\ controller' = version + 1 /\ aborted' = FALSE
  /\ Idles /\ connected' = TRUE
  /\ demoMode' = TRUE /\ secrets' = Demo /\ session' = Demo
  /\ shown' = [d \in Data |-> IF d \in {"snapshot", "maps"} THEN Demo ELSE None]
  /\ UNCHANGED <<statusInFlight, stored, connecting, dialog, confirmationBusy, tasks, mounted>>

-----------------------------------------------------------------------------
(* Commands: what starts a request.                                          *)

(* runCommands() with the profile and secrets its closure captured.          *)
RunCommands(slot, kind, server, password) ==
  /\ ~aborted
  /\ server # None /\ password # None
  /\ Begin(slot, [kind |-> kind, version |-> version, controller |-> controller,
                  id |-> None, server |-> server, password |-> password,
                  keep |-> FALSE, waits |-> "rcon"])

Start(slot, kind) ==
  /\ connected
  /\ RunCommands(slot, kind, ServerOf(ActiveId), secrets)
  /\ UNCHANGED <<refs, stored, demoMode, secrets, connected, connecting, shown, dialog,
                 confirmationBusy, mounted, session>>

(* refreshStatus(): the button or the interval, which a dialog does not stop. *)
RefreshStatus(slot, kind) ==
  /\ kind \in {"status", "poll"} /\ mounted
  /\ kind = "status" => Clickable /\ ~refreshing
  /\ statusInFlight # version
  /\ statusInFlight' = version
  /\ refreshing' = (refreshing \/ kind = "status")
  /\ Start(slot, kind)
  /\ UNCHANGED <<consoleBusy, loading>>

ExecuteConsole(slot) ==
  /\ Clickable /\ ~consoleBusy
  /\ consoleBusy' = TRUE
  /\ Start(slot, "console")
  /\ UNCHANGED <<statusInFlight, refreshing, loading>>

(* refreshMaps and syncCatalog, whose buttons are disabled while they load;  *)
(* refreshGameMode, which the navigation starts again meanwhile, and         *)
(* refreshBans, which the empty list's button does (line 1064).              *)
Load(slot, list) ==
  /\ Clickable /\ (list \notin loading \/ list \in {"mode", "bans"})
  /\ loading' = loading \cup {list}
  /\ Start(slot, list)
  /\ UNCHANGED <<statusInFlight, refreshing, consoleBusy>>

StageGameMode(slot) ==
  /\ Clickable /\ "mode" \in Lists \ loading
  /\ Start(slot, "stage")
  /\ UNCHANGED <<statusInFlight, refreshing, consoleBusy, loading>>

-----------------------------------------------------------------------------
(* Dialogs: the action is a closure over the render that opened it.          *)

OpenDialog(kind, id) ==
  /\ Clickable
  /\ kind = "rcon" => connected /\ ActiveId # None
  /\ IF kind = "delete" THEN id # None /\ profiles[id] # None ELSE id = None
  /\ dialog' = [kind |-> kind, id |-> id, active |-> ActiveId,
                server |-> ServerOf(ActiveId), password |-> secrets]
  /\ UNCHANGED <<refs, statusInFlight, stored, demoMode, secrets, flags, shown,
                 confirmationBusy, tasks, mounted, session>>

Answerable(kind) == mounted /\ dialog # None /\ ~confirmationBusy /\ dialog.kind = kind

CancelDialog ==
  /\ \E kind \in {"rcon", "delete", "clear"} : Answerable(kind)
  /\ dialog' = None
  /\ UNCHANGED <<refs, statusInFlight, stored, demoMode, secrets, flags, shown,
                 confirmationBusy, tasks, mounted, session>>

ConfirmCommand(slot) ==
  /\ Answerable("rcon")
  /\ confirmationBusy' = TRUE
  /\ RunCommands(slot, "confirm", dialog.server, dialog.password)
  /\ UNCHANGED <<refs, statusInFlight, stored, demoMode, secrets, flags, shown, dialog,
                 mounted, session>>

(* Lines 859-873.  It disconnects if the profile was active in the render    *)
(* that opened the dialog.                                                   *)
ConfirmDelete ==
  /\ Answerable("delete")
  /\ profiles' = [profiles EXCEPT ![dialog.id] = None]
  /\ saved' = saved \ {dialog.id}
  /\ active' = IF active = dialog.id THEN None ELSE active
  /\ IF dialog.active = dialog.id
       THEN EndSession /\ shown' = Blank({"catalog"})
       ELSE dialog' = None /\ UNCHANGED <<refs, demoMode, secrets, flags, shown, session>>
  /\ UNCHANGED <<statusInFlight, confirmationBusy, tasks, mounted>>

ConfirmClear ==
  /\ Answerable("clear")
  /\ EndSession
  /\ shown' = Blank({})
  /\ profiles' = [id \in Ids |-> None] /\ saved' = {} /\ active' = None
  /\ UNCHANGED <<statusInFlight, confirmationBusy, tasks, mounted>>

-----------------------------------------------------------------------------
(* Continuations: what a task does with the outcome of its request.          *)

(* Bug: a continuation does not look whether its session is still there.     *)
BugIsCurrent(task) == TRUE
IsCurrent(task) == task.version = version

Cancelled(task) == task.controller # controller \/ aborted

(* A fetch whose signal was aborted rejects, whatever had arrived; the demo  *)
(* answers by itself and cannot be cancelled.                                *)
Outcome(task, ok) ==
  /\ task # None /\ task.waits = "rcon"
  /\ IF task.server = Demo THEN ok ELSE Cancelled(task) => ~ok

(* What the page selects once the server has accepted the password.  Bugs:   *)
(* the password is forgotten; a real server is connected in demo mode.       *)
BugCommitsTarget(task) == UNCHANGED secrets /\ demoMode' = FALSE /\ active' = task.id
BugCommitsDemo(task) == secrets' = task.password /\ UNCHANGED demoMode /\ active' = task.id
Commits(task) == secrets' = task.password /\ demoMode' = FALSE /\ active' = task.id

ConnectEnds(slot, ok) ==
  LET task == tasks[slot] IN
  /\ Outcome(task, ok) /\ task.kind = "connect"
  /\ End(slot)
  /\ connecting' = (connecting /\ ~IsCurrent(task))
  /\ IF ok /\ IsCurrent(task)
       THEN /\ connected' = TRUE /\ session' = task.server
            /\ Commits(task)
            /\ shown' = [d \in Data |-> IF d = "snapshot" THEN task.server ELSE None]
            /\ IF task.keep
                 THEN /\ profiles' = [profiles EXCEPT ![task.id] = task.server]
                      /\ saved' \in {saved \cup {task.id}, saved \ {task.id}}
                 ELSE UNCHANGED <<profiles, saved>>
       ELSE UNCHANGED <<stored, demoMode, secrets, connected, shown, session>>
  /\ UNCHANGED <<refs, statusInFlight, refreshing, consoleBusy, loading, dialog,
                 confirmationBusy, mounted>>

(* Bugs: the marker is cleared whoever set it; it is never cleared.          *)
BugMarkerAfter(task) == 0
BugMarkerStays(task) == statusInFlight
MarkerAfter(task) == IF statusInFlight = task.version THEN 0 ELSE statusInFlight

StatusResult(task, ok) ==
  /\ statusInFlight' = MarkerAfter(task)
  /\ IF IsCurrent(task)
       THEN /\ connected' = ok
            /\ shown' = IF ok THEN [shown EXCEPT !["snapshot"] = task.server] ELSE shown
       ELSE UNCHANGED <<connected, shown>>

StatusEnds(slot, ok) ==
  LET task == tasks[slot] IN
  /\ Outcome(task, ok) /\ task.kind \in {"status", "poll"}
  /\ End(slot)
  /\ StatusResult(task, ok)
  /\ refreshing' = (refreshing /\ ~(IsCurrent(task) /\ task.kind = "status"))
  /\ UNCHANGED <<refs, stored, demoMode, secrets, connecting, consoleBusy, loading, dialog,
                 confirmationBusy, mounted, session>>

ConsoleEnds(slot, ok) ==
  LET task == tasks[slot] IN
  /\ Outcome(task, ok) /\ task.kind = "console"
  /\ End(slot)
  /\ consoleBusy' = (consoleBusy /\ ~IsCurrent(task))
  /\ UNCHANGED <<refs, statusInFlight, stored, demoMode, secrets, connected, connecting,
                 refreshing, loading, shown, dialog, confirmationBusy, mounted, session>>

loadFrame == <<refs, statusInFlight, stored, demoMode, secrets, connected, connecting,
               refreshing, consoleBusy, dialog, confirmationBusy, mounted, session>>

Loaded(task, list, ok) ==
  IF IsCurrent(task)
    THEN /\ loading' = loading \ {task.kind}
         /\ shown' = IF ok THEN [shown EXCEPT ![list] = task.server] ELSE shown
    ELSE UNCHANGED <<loading, shown>>

LoadEnds(slot, ok) ==
  LET task == tasks[slot] IN
  /\ Outcome(task, ok) /\ task.kind \in Lists
  /\ End(slot)
  /\ Loaded(task, task.kind, ok)
  /\ UNCHANGED loadFrame

(* refreshMaps() asks for the Workshop titles next, with no signal.          *)
AsksTitles(slot) ==
  LET task == tasks[slot] IN
  /\ Outcome(task, TRUE) /\ task.kind = "maps" /\ IsCurrent(task)
  /\ tasks' = [tasks EXCEPT ![slot].waits = "titles"]
  /\ UNCHANGED <<loadFrame, loading, shown>>

TitlesArrive(slot) ==
  LET task == tasks[slot] IN
  /\ task # None /\ task.waits = "titles"
  /\ End(slot)
  /\ Loaded(task, "maps", TRUE)
  /\ UNCHANGED loadFrame

StageEnds(slot, ok) ==
  LET task == tasks[slot] IN
  /\ Outcome(task, ok) /\ task.kind = "stage"
  /\ End(slot)
  /\ Loaded(task, "mode", ok)
  /\ UNCHANGED loadFrame

confirmFrame == <<refs, stored, demoMode, secrets, connecting, refreshing, consoleBusy,
                  loading, mounted, session>>

(* A kick or a ban goes on to refreshStatus(true) when no status runs.       *)
CommandDone(slot) ==
  LET task == tasks[slot] IN
  /\ Outcome(task, TRUE) /\ task.kind = "confirm"
  /\ IsCurrent(task) /\ statusInFlight # version
  /\ statusInFlight' = version
  /\ tasks' = [tasks EXCEPT ![slot].kind = "confirmStatus"]
  /\ UNCHANGED <<confirmFrame, connected, shown, dialog, confirmationBusy>>

ConfirmEnds(slot, ok) ==
  LET task == tasks[slot] IN
  /\ Outcome(task, ok) /\ task.kind \in {"confirm", "confirmStatus"}
  /\ End(slot)
  /\ confirmationBusy' = FALSE
  /\ dialog' = IF IsCurrent(task) /\ (ok \/ task.kind = "confirmStatus") THEN None ELSE dialog
  /\ IF task.kind = "confirmStatus"
       THEN StatusResult(task, ok)
       ELSE UNCHANGED <<statusInFlight, connected, shown>>
  /\ UNCHANGED confirmFrame

-----------------------------------------------------------------------------
Click ==
  \/ Disconnect \/ ConnectDemo
  \/ \E id \in Ids : SelectProfile(id)
  \/ \E slot \in Slots :
       \/ \E id \in Ids : SwitchProfile(slot, id)
       \/ \E id \in Ids, server \in Servers : SaveAndConnect(slot, id, server)
       \/ ExecuteConsole(slot) \/ StageGameMode(slot) \/ ConfirmCommand(slot)
       \/ RefreshStatus(slot, "status")
       \/ \E list \in Lists : Load(slot, list)
  \/ OpenDialog("rcon", None) \/ OpenDialog("clear", None)
  \/ \E id \in Ids : OpenDialog("delete", id)
  \/ CancelDialog \/ ConfirmDelete \/ ConfirmClear

Settle(slot) ==
  \/ \E ok \in BOOLEAN :
       \/ ConnectEnds(slot, ok) \/ StatusEnds(slot, ok) \/ ConsoleEnds(slot, ok)
       \/ LoadEnds(slot, ok) \/ StageEnds(slot, ok) \/ ConfirmEnds(slot, ok)
  \/ AsksTitles(slot) \/ TitlesArrive(slot) \/ CommandDone(slot)

Next ==
  \/ Click \/ Unmount
  \/ \E slot \in Slots : RefreshStatus(slot, "poll") \/ Settle(slot)

Spec == Init /\ [][Next]_vars

-----------------------------------------------------------------------------
(* Properties                                                                *)

Pending(kinds) == {slot \in Slots : tasks[slot] # None /\ tasks[slot].kind \in kinds}
Current(kinds) == {slot \in Pending(kinds) : tasks[slot].version = version}

StatusRequests == Current({"status", "poll", "confirmStatus"})

(* "switching profiles could combine a new target with old credentials"      *)
(* (docs/validation.md line 9) and no longer does: every request carries the *)
(* password of the server it goes to, whenever its closure was made.         *)
CredentialsMatchTarget ==
  \A slot \in Pending(Kinds) : tasks[slot].server = tasks[slot].password

(* "stale responses cannot restore an old session or overwrite the new       *)
(* server's data" (docs/validation.md line 9): while the page says connected *)
(* there is a session, and all it shows came from that session's server.     *)
ShownIsOfSession ==
  mounted /\ connected =>
    /\ session # None
    /\ shown["snapshot"] = session
    /\ \A d \in Data : shown[d] \in {session, None}

(* Commands of a connected page go to the session's server, except that one  *)
(* whose profile was deleted meanwhile has nowhere to send them.             *)
CommandsGoToSession ==
  mounted /\ connected /\ ActiveId # None =>
    ServerOf(ActiveId) = session /\ secrets = session

(* "Disconnect, switching, unmount, and clearing local data cancel pending   *)
(* RCON requests" (docs/validation.md line 9), and only those: a request of  *)
(* the current session runs under a signal that is not aborted.              *)
OldRequestsCancelled ==
  \A slot \in Pending(Kinds) :
    tasks[slot].waits = "rcon" =>
      (Cancelled(tasks[slot]) <=> tasks[slot].version # version)

(* "Status polling no longer overlaps itself" (docs/validation.md line 9),   *)
(* no spinner is left turning, and no marker is left behind that would keep  *)
(* later polls from starting: the marker that keeps status requests apart    *)
(* and every busy flag have an operation of this session that will clear     *)
(* them, status and console just one, whatever mix of interval, button and   *)
(* confirmed action started it; every operation ends, since every request    *)
(* times out (lines 273-291, 314-336; the finally blocks compare versions,   *)
(* and connecting and disconnecting clear what these no longer will).        *)
BusyHasOwner ==
  /\ Cardinality(StatusRequests) <= 1 /\ Cardinality(Current({"console"})) <= 1
  /\ mounted =>
       /\ connecting => Current({"connect"}) # {}
       /\ refreshing => Current({"status"}) # {}
       /\ consoleBusy => Current({"console"}) # {}
       /\ \A list \in loading : Current({list}) # {}
       /\ confirmationBusy => Pending({"confirm", "confirmStatus"}) # {}
       /\ statusInFlight \in {0, version} => (statusInFlight # 0 <=> StatusRequests # {})
=============================================================================
