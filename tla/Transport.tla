------------------------------ MODULE Transport -----------------------------
(* Which way the requests of a page go: to the website that hosts it, or to  *)
(* the helper on the user's computer (src/lib/helper-install.ts, the         *)
(* connection form src/components/connection-panel.tsx, the pairing form     *)
(* src/components/helper-launcher.tsx), against a helper that may stop and   *)
(* start again at any time (HelperAccess).                                   *)
(*                                                                           *)
(* The connection form is on the welcome page and in a dialog, and each has  *)
(* its own state.  Only what the forms need of the dashboard's session is    *)
(* kept: DashboardSession has the rest.                                      *)
EXTENDS HelperAccess

CONSTANTS
  MaxRuns,      \* bound on starts of the helper
  MaxSessions,  \* bound on sessionVersion
  Slots,        \* bound: pairings and commands in flight at once
  None

Runs == 1..MaxRuns
Panels == {"page", "dialog"}

ASSUME TransportAssumption ==
  /\ MaxRuns \in Nat /\ MaxSessions \in Nat
  /\ None \notin Slots \cup Panels

VARIABLES
  home,       \* who served the page: "site", or the helper ("workspace")
  cookie,     \* the workspace cookie of this browser
  helper,     \* the helper process
  token,      \* browserToken, 0 for null
  known,      \* knownHelper is set
  section, connected, connecting, version,  \* of the dashboard
  dialogOpen, \* connectOpen
  panels,     \* the state of each mounted form
  requests,   \* pairings and commands in flight
  \* history: how the session was opened, whether the user left the helper it
  \* was opened through, the runs the user let this page use, those that ran its commands,
  \* and whether two forms have been mounted at once
  openedVia, left, admitted, used, twoForms

dashboard == <<section, connected, connecting, version, dialogOpen>>
history == <<openedVia, left, admitted, used, twoForms>>
vars == <<home, cookie, helper, token, known, dashboard, panels, requests, history>>

(* A route is the way a request goes (via: "hosted" or "helper") and the     *)
(* token and cookie it carries; 0 is none.  The website's access key, which  *)
(* decides nothing here, is left out.                                        *)

(* fetchRcon (52-59) with this token.  Bug: a request goes to the website    *)
(* when no helper answers.                                                   *)
BugFallsBack(bearer) ==
  [via |-> IF (bearer # 0 /\ helper.running) \/ home = "workspace" THEN "helper" ELSE "hosted",
   bearer |-> bearer,
   cookie |-> IF bearer = 0 /\ home = "workspace" THEN cookie ELSE 0]
Route(bearer) ==
  [via |-> IF bearer # 0 \/ home = "workspace" THEN "helper" ELSE "hosted",
   bearer |-> bearer,
   cookie |-> IF bearer = 0 /\ home = "workspace" THEN cookie ELSE 0]

(* What the helper makes of a request to /api/rcon that was sent this way.   *)
Verdict(route, method) ==
  Serve(helper, [host |-> "own", path |-> "rcon", method |-> method,
                 origin |-> IF home = "site" THEN "site" ELSE "own",
                 asks |-> method, headers |-> "allowed",
                 code |-> 0, cookie |-> route.cookie, bearer |-> route.bearer])

Answers(route, method) ==
  CASE route.via = "hosted" -> {IF method = "GET" THEN "integrated" ELSE "done", "failed"}
    [] route.via = "helper" /\ helper.running ->
         CASE Verdict(route, method) = "settings" -> {"local", "failed"}
           [] Verdict(route, method) = "rcon" -> {"done", "failed"}
           [] OTHER -> {"failed"}
    [] OTHER -> {"failed"}

(* A form that is mounted asks for the settings (65-106): check is the       *)
(* request of its effect, which unmounting and retrying abort.               *)
Fresh == [local |-> known, mode |-> "hosted", check |-> Route(token)]

Shown(p, isConnected, place, open) ==
  IF p = "dialog" THEN open ELSE ~isConnected /\ place = "console"

(* React mounts and unmounts the forms that the new state shows.             *)
Renders(isConnected, place, open) ==
  /\ connected' = isConnected /\ section' = place /\ dialogOpen' = open
  /\ panels' = [p \in Panels |->
       IF ~Shown(p, isConnected, place, open) THEN None
       ELSE IF panels[p] = None THEN Fresh ELSE panels[p]]
  /\ twoForms' = (twoForms \/ \A p \in Panels : Shown(p, isConnected, place, open))

(* A launcher that is unmounted still pairs, but has no form to tell.        *)
Orphaned(rs) ==
  [s \in Slots |-> IF rs[s] # None /\ rs[s].kind = "pair" /\ rs[s].panel # None
                      /\ panels'[rs[s].panel] = None
                   THEN [rs[s] EXCEPT !.panel = None] ELSE rs[s]]

Free(slot) == requests[slot] = None
Request(kind, panel, v, route) == [kind |-> kind, panel |-> panel, version |-> v, route |-> route]

Init ==
  /\ home \in {"site", "workspace"}
  /\ helper \in [running : {TRUE}, run : {1}, secret : {1}, paired : {home = "workspace"}, browserConnect : BOOLEAN]
  /\ cookie = IF home = "workspace" THEN 1 ELSE 0
  /\ token = 0 /\ known = FALSE
  /\ section = "console" /\ connected = FALSE /\ connecting = FALSE /\ version = 0
  /\ dialogOpen = FALSE
  /\ panels = [p \in Panels |-> IF p = "page" THEN Fresh ELSE None]
  /\ requests = [s \in Slots |-> None]
  /\ openedVia = "none" /\ left = FALSE
  /\ admitted = (IF home = "workspace" THEN {1} ELSE {}) /\ used = {}
  /\ twoForms = FALSE

-----------------------------------------------------------------------------
(* The helper process.                                                       *)

StopHelper ==
  /\ helper.running
  /\ helper' = [helper EXCEPT !.running = FALSE]
  /\ UNCHANGED <<home, cookie, token, known, dashboard, panels, requests, history>>

(* Bug: the secrets of the run before are used again.                        *)
BugNewHelper(bc) == [running |-> TRUE, run |-> helper.run + 1, secret |-> helper.secret,
                     paired |-> FALSE, browserConnect |-> bc]
NewHelper(bc) == [running |-> TRUE, run |-> helper.run + 1, secret |-> helper.run + 1,
                  paired |-> FALSE, browserConnect |-> bc]

StartHelper ==
  /\ ~helper.running /\ helper.run < MaxRuns
  /\ \E bc \in BOOLEAN : helper' = NewHelper(bc)
  /\ UNCHANGED <<home, cookie, token, known, dashboard, panels, requests, history>>

(* The user of a workspace opens the one-time link in another tab.           *)
OpenLink ==
  /\ home = "workspace" /\ helper.running
  /\ Serve(helper, [host |-> "own", path |-> "start", method |-> "GET", origin |-> "none",
                    asks |-> "GET", headers |-> "allowed",
                    code |-> helper.secret, cookie |-> cookie, bearer |-> 0]) = "paired"
  /\ helper' = [helper EXCEPT !.paired = TRUE]
  /\ cookie' = helper.secret
  /\ admitted' = admitted \cup {helper.run}
  /\ UNCHANGED <<home, token, known, dashboard, panels, requests, openedVia, left, used, twoForms>>

-----------------------------------------------------------------------------
(* Moving about.                                                             *)

pageFrame == <<home, cookie, helper, token, known>>

Navigate ==
  /\ ~dialogOpen
  /\ Renders(connected, IF section = "console" THEN "other" ELSE "console", FALSE)
  /\ requests' = Orphaned(requests)
  /\ UNCHANGED <<pageFrame, connecting, version, openedVia, left, admitted, used>>

OpenDialog ==
  /\ ~dialogOpen /\ (connected \/ section = "other")
  /\ Renders(connected, section, TRUE)
  /\ UNCHANGED <<pageFrame, connecting, version, requests, openedVia, left, admitted, used>>

CloseDialog ==
  /\ dialogOpen /\ ~connecting
  /\ Renders(connected, section, FALSE)
  /\ requests' = Orphaned(requests)
  /\ UNCHANGED <<pageFrame, connecting, version, openedVia, left, admitted, used>>

(* disconnect(), alone or before the dialog of a profile without password.   *)
Disconnect(opensDialog) ==
  /\ ~dialogOpen /\ (connected \/ section = "other") /\ version < MaxSessions
  /\ version' = version + 1 /\ connecting' = FALSE
  /\ Renders(FALSE, "console", opensDialog)
  /\ requests' = Orphaned(requests)
  /\ openedVia' = "none" /\ left' = FALSE
  /\ UNCHANGED <<pageFrame, admitted, used>>

-----------------------------------------------------------------------------
(* The connection form.  The dialog makes the page under it inert.           *)

Operable(p) == panels[p] # None /\ (p = "page" => ~dialogOpen)

ChooseDevice(p) ==
  /\ Operable(p) /\ ~connecting
  /\ panels' = [panels EXCEPT ![p].mode = "device"]
  /\ UNCHANGED <<pageFrame, section, connected, connecting, version, dialogOpen, requests, history>>

(* disconnectBrowserHelper.  Bug: the helper is still remembered.            *)
BugDisconnectHelper == token' = 0 /\ UNCHANGED known
DisconnectHelper == token' = 0 /\ known' = FALSE

(* selectMode("hosted"), lines 140-155.  Without a pairing the loopback      *)
(* workspace leaves for its website, which ends this page.                   *)
ChooseHosted(p) ==
  /\ Operable(p) /\ ~connecting
  /\ panels[p].local => token # 0
  /\ IF panels[p].local
       THEN /\ DisconnectHelper /\ left' = (openedVia = "helper")
            /\ panels' = [panels EXCEPT ![p] =
                 [local |-> FALSE, mode |-> "hosted", check |-> Route(0)]]
       ELSE /\ panels' = [panels EXCEPT ![p].mode = "hosted"]
            /\ UNCHANGED <<token, known, left>>
  /\ UNCHANGED <<home, cookie, helper, dashboard, requests, openedVia, admitted, used, twoForms>>

(* pair() in the launcher of a form: the user pastes the token of a run.     *)
Pair(p, slot, run) ==
  /\ Operable(p) /\ ~panels[p].local /\ panels[p].mode = "device"
  /\ \A s \in Slots : requests[s] # None => requests[s].panel # p
  /\ Free(slot) /\ run <= helper.run
  /\ requests' = [requests EXCEPT ![slot] =
                      Request("pair", p, version, Route(run))]
  /\ admitted' = admitted \cup {run}
  /\ UNCHANGED <<home, cookie, helper, token, known, dashboard, panels, openedVia, left, used, twoForms>>

(* connectProfile up to the request: a new session, opened the way requests  *)
(* go at this moment.                                                        *)
ConnectProfile(slot) ==
  /\ Free(slot) /\ version < MaxSessions
  /\ version' = version + 1 /\ connecting' = TRUE
  /\ Renders(FALSE, section, dialogOpen)
  /\ requests' = [Orphaned(requests) EXCEPT ![slot] = Request("connect", None, version + 1, Route(token))]
  /\ openedVia' = Route(token).via /\ left' = FALSE
  /\ UNCHANGED <<home, cookie, helper, token, known, admitted, used>>

(* submit() and saveAndConnect.                                              *)
Submit(p, slot) ==
  /\ Operable(p) /\ ~connecting /\ (panels[p].local \/ panels[p].mode = "hosted")
  /\ ConnectProfile(slot)

(* switchProfile, from the settings: a saved password needs no form, also    *)
(* while another connection is being made.  Without one it is                *)
(* Disconnect(TRUE).                                                         *)
SwitchProfile(slot) ==
  /\ ~dialogOpen /\ section = "other"
  /\ ConnectProfile(slot)

(* A command of the session: a poll, or one of the user.                     *)
Command(slot) ==
  /\ connected /\ Free(slot)
  /\ requests' = [requests EXCEPT ![slot] = Request("command", None, version, Route(token))]
  /\ UNCHANGED <<home, cookie, helper, token, known, dashboard, panels, history>>

-----------------------------------------------------------------------------
(* The other end answers, and the page goes on.  An answer does not wait: one *)
(* that was given before the helper stopped could as well come after it.     *)

(* The continuation of the check (73-100), or its five seconds.              *)
Checked(p) ==
  /\ panels[p] # None /\ panels[p].check # None
  /\ \E reply \in Answers(panels[p].check, "GET") \cup {"failed"} :
       /\ known' = (known \/ reply = "local")
       /\ panels' = [panels EXCEPT ![p] =
            [local |-> @.local \/ reply = "local", mode |-> @.mode, check |-> None]]
  /\ UNCHANGED <<home, cookie, helper, token, dashboard, requests, history>>

(* A launcher also asks who serves the page (helper-launcher.tsx 16-49): only *)
(* the local workspace answers with a helper.                                *)
Resolved(p) ==
  /\ panels[p] # None /\ ~panels[p].local /\ ~known
  /\ home = "workspace" /\ "local" \in Answers(Route(0), "GET")
  /\ known' = TRUE
  /\ UNCHANGED <<home, cookie, helper, token, dashboard, panels, requests, history>>

(* The continuation of pairBrowserHelper (43-50), then onPaired.  The helper *)
(* names its website, which is never the local workspace.                    *)
Pairs(r) == home = "site" /\ "local" \in Answers(r.route, "GET")

Paired(slot) ==
  LET r == requests[slot] IN
  /\ r # None /\ r.kind = "pair"
  /\ requests' = [requests EXCEPT ![slot] = None]
  /\ Pairs(r)
  /\ token' = r.route.bearer /\ known' = TRUE
  /\ panels' = IF r.panel = None THEN panels
       ELSE [panels EXCEPT ![r.panel] = [local |-> TRUE, mode |-> @.mode, check |-> r.route]]
  /\ UNCHANGED <<home, cookie, helper, dashboard, history>>

PairingFails(slot) ==
  /\ requests[slot] # None /\ requests[slot].kind = "pair"
  /\ requests' = [requests EXCEPT ![slot] = None]
  /\ UNCHANGED <<home, cookie, helper, token, known, dashboard, panels, history>>

(* The answer of a command, or its cancellation, may come after it was       *)
(* executed or without.  A failed poll ends the connection, a failed command *)
(* of the user does not.                                                     *)
Ended(slot, ok) ==
  LET r == requests[slot] IN
  /\ r # None /\ r.kind \in {"connect", "command"}
  /\ (IF ok THEN "done" ELSE "failed") \in Answers(r.route, "POST")
  /\ used' \in IF r.route.via = "helper" /\ "done" \in Answers(r.route, "POST")
                THEN IF ok THEN {used \cup {helper.run}} ELSE {used, used \cup {helper.run}}
                ELSE {used}
  /\ IF r.version # version
     THEN /\ requests' = [requests EXCEPT ![slot] = None]
          /\ UNCHANGED <<dashboard, panels, twoForms>>
     ELSE /\ connecting' = (connecting /\ r.kind # "connect")
          /\ \/ r.kind = "connect" /\ ok /\ Renders(TRUE, "console", FALSE)
             \/ r.kind = "command" /\ ~ok /\ connected /\ Renders(FALSE, section, dialogOpen)
             \/ /\ ~(r.kind = "connect" /\ ok)
                /\ UNCHANGED <<section, connected, dialogOpen, panels, twoForms>>
          /\ requests' = [Orphaned(requests) EXCEPT ![slot] = None]
          /\ UNCHANGED version
  /\ UNCHANGED <<home, cookie, helper, token, known, openedVia, left, admitted>>

Next ==
  \/ StopHelper \/ StartHelper \/ OpenLink
  \/ Navigate \/ OpenDialog \/ CloseDialog \/ \E opens \in BOOLEAN : Disconnect(opens)
  \/ \E p \in Panels : ChooseDevice(p) \/ ChooseHosted(p) \/ Checked(p) \/ Resolved(p)
  \/ \E slot \in Slots :
       \/ \E p \in Panels : Submit(p, slot) \/ \E run \in Runs : Pair(p, slot, run)
       \/ SwitchProfile(slot) \/ Command(slot) \/ Paired(slot) \/ PairingFails(slot)
       \/ \E ok \in BOOLEAN : Ended(slot, ok)

Spec == Init /\ [][Next]_vars

-----------------------------------------------------------------------------
(* Properties                                                                *)

Pending(kinds) == {slot \in Slots : requests[slot] # None /\ requests[slot].kind \in kinds}

(* "A failed local request does not silently switch to a hosted connection." *)
(* (helper/README.md line 13): whatever the helper does, a session opened    *)
(* through it sends nothing to the website until the user chooses hosted in  *)
(* a form (left), whether for this session or for the next.                  *)
FailsClosed ==
  \A slot \in Pending({"connect", "command"}) :
    requests[slot].version = version /\ openedVia = "helper" /\ ~left
      => requests[slot].route.via = "helper"

(* "stop the helper to revoke the token" (connection-guide-content.tsx line  *)
(* 120): a run of the helper executes commands of a page only if the user    *)
(* gave the page its token or opened its link, not those of a run before.    *)
OnlyAdmittedRunsServe == used \subseteq admitted

(* "RCON stays on this device." (connection-panel.tsx line 202): a form that *)
(* says it uses the helper sends what is submitted to the helper.            *)
FormTellsTheTruth ==
  \A p \in Panels : panels[p] # None /\ panels[p].local => Route(token).via = "helper"

(* It does as long as there has only been one form at a time.                *)
OneFormTellsTheTruth == ~twoForms => FormTellsTheTruth
=============================================================================
