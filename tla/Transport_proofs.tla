-------------------------- MODULE Transport_proofs --------------------------
(* For any number of runs of the helper, sessions and requests in flight:    *)
(* the three properties of Transport, from one inductive invariant.  And how  *)
(* the helper got to the user's computer (HelperRelease), for any number of  *)
(* builds, launchers and targets: a release appears whole, never changes,    *)
(* and launchers run its bytes.                                              *)
EXTENDS Transport, HelperRelease, TLAPS

-----------------------------------------------------------------------------
(* HelperAccess.                                                             *)

(* The helper serves nothing without a secret of its own run.                *)
LEMMA ServedWithSecret ==
  ASSUME NEW h, NEW request
  PROVE  ServedOnlyWithSecret(h, request)
<1>1. CASE request.host # "own"
  BY <1>1 DEF ServedOnlyWithSecret, Serve
<1>2. CASE request.host = "own" /\ h.browserConnect /\ request.origin = "site"
  <2>1. Serve(h, request) = BrowserRcon(h, request)
    BY <1>2 DEF Serve
  <2>2. BrowserRcon(h, request) \in {"rcon", "settings", "workshop", "proxy", "paired"} =>
          /\ request.path = "rcon" /\ request.method # "OPTIONS"
          /\ request.bearer = h.secret
          /\ BrowserRcon(h, request) = RconEndpoint(request.method)
    BY DEF BrowserRcon, Preflight
  <2>3. RconEndpoint(request.method) \in {"settings", "rcon", "METHOD_NOT_ALLOWED"}
    BY DEF RconEndpoint
  <2>4. QED
    BY <1>2, <2>1, <2>2, <2>3 DEF ServedOnlyWithSecret
<1>3. CASE request.host = "own" /\ ~(h.browserConnect /\ request.origin = "site")
  <2>1. CASE request.origin \notin {"none", "own"}
    BY <1>3, <2>1 DEF ServedOnlyWithSecret, Serve
  <2>2. CASE request.origin \in {"none", "own"} /\ request.path = "start"
    <3>1. Serve(h, request) = Start(h, request)
      BY <1>3, <2>2 DEF Serve
    <3>2. Start(h, request) \in {"METHOD_NOT_ALLOWED", "paired", "redirect", "PAIRING_EXPIRED"}
      BY DEF Start
    <3>3. Start(h, request) = "paired" => Redeems(h, request)
      BY DEF Start
    <3>4. QED
      BY <1>3, <2>2, <3>1, <3>2, <3>3 DEF ServedOnlyWithSecret, Redeems
  <2>3. CASE request.origin \in {"none", "own"} /\ request.path # "start"
    <3>1. Serve(h, request) = Workspace(h, request)
      BY <1>3, <2>3 DEF Serve
    <3>2. ~Authenticated(h, request) => Workspace(h, request) \in {"locked", "SESSION_REQUIRED"}
      BY DEF Workspace
    <3>3. RconEndpoint(request.method) \in {"settings", "rcon", "METHOD_NOT_ALLOWED"}
      BY DEF RconEndpoint
    <3>4. Workspace(h, request) # "paired"
      BY <3>3 DEF Workspace
    <3>5. QED
      BY <1>3, <2>3, <3>1, <3>2, <3>4 DEF ServedOnlyWithSecret, Authenticated
  <2>4. QED
    BY <1>3, <2>1, <2>2, <2>3
<1>4. QED
  BY <1>1, <1>2, <1>3

-----------------------------------------------------------------------------
(* The invariant.                                                            *)

RouteSet == [via : {"hosted", "helper"}, bearer : Nat, cookie : Nat]
(* The mode of a form; that of a form that is gone could be anything.        *)
Modes == {"hosted", "device", None.mode}
PanelSet == [local : BOOLEAN, mode : Modes, check : RouteSet \cup {None}]
RequestSet == [kind : {"pair", "connect", "command"}, panel : Panels \cup {None},
               version : Nat, route : RouteSet]

TypeInv ==
  /\ home \in {"site", "workspace"}
  /\ helper.run \in Nat \ {0}
  /\ cookie \in Nat /\ token \in Nat /\ version \in Nat
  /\ known \in BOOLEAN
  /\ panels \in [Panels -> PanelSet \cup {None}]
  /\ requests \in [Slots -> RequestSet \cup {None}]

(* A route with no secret the user did not give.                             *)
Sound(route, runs) ==
  /\ route.bearer \in runs \cup {0} /\ route.cookie \in runs \cup {0}

SecretsInv ==
  /\ helper.secret = helper.run
  /\ token \in admitted \cup {0} /\ cookie \in admitted \cup {0}
  /\ \A p \in Panels : panels[p] # None /\ panels[p].check # None => Sound(panels[p].check, admitted)
  /\ \A s \in Slots : requests[s] # None => Sound(requests[s].route, admitted)
  /\ \A s \in Slots : requests[s] # None /\ requests[s].kind = "pair" => requests[s].route.bearer # 0
  /\ used \subseteq admitted

(* fetchRcon goes to the helper: a token, or the helper's own page.          *)
Local == token # 0 \/ home = "workspace"

(* Until the user leaves it, the way of a helper's session stays open.       *)
ClosedInv ==
  /\ openedVia = "helper" /\ ~left => Local
  /\ \A s \in Slots : requests[s] # None =>
       /\ requests[s].version <= version
       /\ /\ requests[s].kind \in {"connect", "command"} /\ requests[s].version = version
          /\ openedVia = "helper" /\ ~left
          => requests[s].route.via = "helper"

(* A single form, and what it is waiting for, say what the page does.        *)
FormInv ==
  ~twoForms =>
    /\ \E p \in Panels : \A q \in Panels : panels[q] # None => q = p
    /\ known => Local
    /\ \A p \in Panels : panels[p] # None =>
         /\ panels[p].local => Local
         /\ panels[p].check # None /\ panels[p].check.via = "helper" => Local

Inv == TypeInv /\ SecretsInv /\ ClosedInv /\ FormInv

(* The forms that exist, and those that a pairing will tell, are those that  *)
(* the page shows; twoForms remembers when it showed both.                   *)
OnScreen(p) == Shown(p, connected, section, dialogOpen)

MountedInv ==
  /\ \A p \in Panels : panels[p] # None => OnScreen(p)
  /\ \A s \in Slots : requests[s] # None /\ requests[s].kind = "pair" /\ requests[s].panel # None =>
       OnScreen(requests[s].panel)
  /\ ~twoForms => \E p \in Panels : ~OnScreen(p)

-----------------------------------------------------------------------------
(* What the helpers of the actions return.                                   *)

LEMMA RouteFacts ==
  ASSUME NEW bearer \in Nat, TypeInv
  PROVE  /\ Route(bearer) \in RouteSet
         /\ Route(bearer).bearer = bearer
         /\ Route(bearer).via = "helper" <=> bearer # 0 \/ home = "workspace"
         /\ \A runs : bearer \in runs \cup {0} /\ cookie \in runs \cup {0} =>
              Sound(Route(bearer), runs)
BY DEF Route, RouteSet, Sound, TypeInv

LEMMA FreshFacts ==
  ASSUME TypeInv
  PROVE  Fresh \in PanelSet /\ Fresh.local = known /\ Fresh.check = Route(token)
BY RouteFacts DEF Fresh, PanelSet, Modes, TypeInv

(* The panels after React rendered: as they were, fresh ones or gone.        *)
LEMMA RenderFacts ==
  ASSUME TypeInv, NEW c, NEW place, NEW open, Renders(c, place, open)
  PROVE  /\ panels' \in [Panels -> PanelSet \cup {None}]
         /\ \A p \in Panels : panels'[p] # None =>
              \/ panels[p] # None /\ panels'[p] = panels[p]
              \/ panels'[p] = Fresh
         /\ twoForms => twoForms'
         /\ ~twoForms' => \E p \in Panels : \A q \in Panels : panels'[q] # None => q = p
<1>1. /\ panels' = [p \in Panels |->
            IF ~Shown(p, c, place, open) THEN None
            ELSE IF panels[p] = None THEN Fresh ELSE panels[p]]
      /\ twoForms' = (twoForms \/ \A p \in Panels : Shown(p, c, place, open))
  BY DEF Renders
<1>2. panels' \in [Panels -> PanelSet \cup {None}]
  BY <1>1, FreshFacts DEF TypeInv
<1>3. ~twoForms' => \E p \in Panels : \A q \in Panels : panels'[q] # None => q = p
  <2> SUFFICES ASSUME ~twoForms' PROVE \E p \in Panels : \A q \in Panels : panels'[q] # None => q = p
    OBVIOUS
  <2>1. PICK r \in Panels : ~Shown(r, c, place, open)
    BY <1>1
  <2>2. panels'[r] = None
    BY <1>1, <2>1
  <2>3. PICK p \in Panels : p # r /\ \A q \in Panels : q = p \/ q = r
    BY DEF Panels
  <2>4. \A q \in Panels : panels'[q] # None => q = p
    BY <2>2, <2>3
  <2>5. QED
    BY <2>4
<1>4. QED
  BY <1>1, <1>2, <1>3

(* Unmounting a form changes no request but for whom a pairing tells.        *)
LEMMA OrphanFacts ==
  ASSUME NEW rs \in [Slots -> RequestSet \cup {None}]
  PROVE  /\ Orphaned(rs) \in [Slots -> RequestSet \cup {None}]
         /\ \A s \in Slots : Orphaned(rs)[s] # None =>
              /\ rs[s] # None
              /\ Orphaned(rs)[s].kind = rs[s].kind /\ Orphaned(rs)[s].version = rs[s].version
              /\ Orphaned(rs)[s].route = rs[s].route
<1>1. \A r \in RequestSet : [r EXCEPT !.panel = None] \in RequestSet
  BY DEF RequestSet
<1>2. \A s \in Slots : Orphaned(rs)[s] # None =>
              /\ rs[s] # None
              /\ Orphaned(rs)[s].kind = rs[s].kind /\ Orphaned(rs)[s].version = rs[s].version
              /\ Orphaned(rs)[s].route = rs[s].route
  BY DEF Orphaned, RequestSet
<1>3. QED
  BY <1>1, <1>2 DEF Orphaned

LEMMA AnswerFacts ==
  ASSUME NEW route, NEW method
  PROVE  /\ "local" \in Answers(route, method) => route.via = "helper"
         /\ route.via = "helper" /\ "done" \in Answers(route, method) =>
              route.cookie = helper.secret \/ route.bearer = helper.secret
<1>1. "local" \in Answers(route, method) => route.via = "helper"
  BY DEF Answers
<1>2. ASSUME route.via = "helper", "done" \in Answers(route, method)
      PROVE  route.cookie = helper.secret \/ route.bearer = helper.secret
  <2> DEFINE request == [host |-> "own", path |-> "rcon", method |-> method,
                         origin |-> IF home = "site" THEN "site" ELSE "own",
                         asks |-> method, headers |-> "allowed",
                         code |-> 0, cookie |-> route.cookie, bearer |-> route.bearer]
  <2>1. Verdict(route, method) = "rcon"
    BY <1>2 DEF Answers
  <2>2. Serve(helper, request) = "rcon"
    BY <2>1 DEF Verdict
  <2>3. request.cookie = helper.secret \/ request.bearer = helper.secret
    <3> HIDE DEF request
    <3> QED
      BY <2>2, ServedWithSecret DEF ServedOnlyWithSecret
  <2>4. QED
    BY <2>3
<1>3. QED
  BY <1>1, <1>2

-----------------------------------------------------------------------------
(* The actions that change neither panels nor requests, or one of them.      *)

LEMMA InitInv == Init => Inv
<1> SUFFICES ASSUME Init PROVE Inv
  OBVIOUS
<1>1. /\ home \in {"site", "workspace"} /\ helper.run = 1 /\ helper.secret = 1
      /\ cookie \in Nat /\ token = 0 /\ version = 0 /\ known = FALSE
  BY DEF Init
<1>2. Route(token) \in RouteSet
  BY <1>1 DEF Route, RouteSet
<1>3. Fresh \in PanelSet
  BY <1>1, <1>2 DEF Fresh, PanelSet, Modes
<1>4. panels \in [Panels -> PanelSet \cup {None}] /\ requests \in [Slots -> RequestSet \cup {None}]
  BY <1>3 DEF Init
<1>5. TypeInv
  <2>1. known \in BOOLEAN
    BY <1>1, Zenon
  <2>2. helper.run \in Nat \ {0} /\ token \in Nat /\ version \in Nat
    BY <1>1
  <2>3. QED
    BY <1>1, <1>4, <2>1, <2>2 DEF TypeInv
<1>6. /\ Route(token).via = "helper" <=> home = "workspace"
      /\ Sound(Route(token), admitted)
  <2>1. token \in admitted \cup {0} /\ cookie \in admitted \cup {0}
    BY DEF Init
  <2>2. token \in Nat
    BY <1>1
  <2>3. QED
    BY <1>1, <1>5, <2>1, <2>2, RouteFacts
<1>7. \A p \in Panels : panels[p] # None => p = "page" /\ panels[p] = Fresh
  BY DEF Init, Panels
<1>8. Fresh.local = FALSE /\ Fresh.check = Route(token)
  BY <1>5, FreshFacts, <1>1
<1>9. SecretsInv
  BY <1>1, <1>6, <1>7, <1>8 DEF Init, SecretsInv
<1>10. ClosedInv
  BY DEF Init, ClosedInv
<1>11. FormInv
  <2>1. \E p \in Panels : \A q \in Panels : panels[q] # None => q = p
    BY <1>7 DEF Panels
  <2>2. \A p \in Panels : panels[p] # None =>
          /\ panels[p].local => Local
          /\ panels[p].check # None /\ panels[p].check.via = "helper" => Local
    BY <1>6, <1>7, <1>8 DEF Local
  <2>3. QED
    BY <1>1, <2>1, <2>2 DEF FormInv
<1>12. QED
  BY <1>5, <1>9, <1>10, <1>11 DEF Inv

(* The other end: the helper stops, starts, or is opened in another tab.     *)
LEMMA HelperSteps == Inv /\ (StopHelper \/ StartHelper \/ OpenLink) => Inv'
<1> SUFFICES ASSUME Inv, StopHelper \/ StartHelper \/ OpenLink PROVE Inv'
  OBVIOUS
<1>1. /\ helper'.run \in Nat \ {0} /\ helper'.secret = helper'.run
      /\ admitted \subseteq admitted' /\ UNCHANGED used
      /\ cookie' \in Nat /\ cookie' \in admitted' \cup {0}
  <2>1. CASE StopHelper
    BY <2>1 DEF StopHelper, Inv, TypeInv, SecretsInv, history
  <2>2. CASE StartHelper
    BY <2>2 DEF StartHelper, NewHelper, Inv, TypeInv, SecretsInv, history
  <2>3. CASE OpenLink
    BY <2>3 DEF OpenLink, Inv, TypeInv, SecretsInv
  <2>4. QED
    BY <2>1, <2>2, <2>3
<1>2. UNCHANGED <<home, token, known, dashboard, panels, requests, openedVia, left, twoForms>>
  BY DEF StopHelper, StartHelper, OpenLink, history
<1>3. TypeInv'
  BY <1>1, <1>2 DEF dashboard, Inv, TypeInv
<1>4. SecretsInv'
  BY <1>1, <1>2 DEF Inv, SecretsInv, Sound
<1>5. ClosedInv'
  BY <1>2 DEF dashboard, Inv, ClosedInv, Local
<1>6. FormInv'
  BY <1>2 DEF Inv, FormInv, Local
<1>7. QED
  BY <1>3, <1>4, <1>5, <1>6 DEF Inv

(* Forms appear and disappear; no request is sent but their checks.          *)
LEMMA MovingSteps ==
  ASSUME Inv, Navigate \/ OpenDialog \/ CloseDialog \/ \E opens \in BOOLEAN : Disconnect(opens)
  PROVE  Inv'
<1>1. /\ \E c, place, open : Renders(c, place, open)
      /\ requests' = requests \/ requests' = Orphaned(requests)
      /\ UNCHANGED <<home, cookie, helper, token, known, admitted, used>>
      /\ \/ UNCHANGED <<version, openedVia, left>>
         \/ version' = version + 1 /\ openedVia' = "none"
  BY DEF Navigate, OpenDialog, CloseDialog, Disconnect, pageFrame
<1> DEFINE Same(r, s) == r.kind = s.kind /\ r.version = s.version /\ r.route = s.route
<1>2. /\ requests' \in [Slots -> RequestSet \cup {None}]
      /\ \A s \in Slots : requests'[s] # None => requests[s] # None /\ Same(requests'[s], requests[s])
  BY <1>1, OrphanFacts DEF Inv, TypeInv
<1>3. /\ panels' \in [Panels -> PanelSet \cup {None}]
      /\ \A p \in Panels : panels'[p] # None =>
           \/ panels[p] # None /\ panels'[p] = panels[p]
           \/ panels'[p] = Fresh
      /\ twoForms => twoForms'
      /\ ~twoForms' => \E p \in Panels : \A q \in Panels : panels'[q] # None => q = p
  BY <1>1, RenderFacts DEF Inv
<1>4. /\ Fresh.local = known /\ Fresh.check = Route(token)
      /\ Route(token).via = "helper" <=> Local
      /\ Sound(Route(token), admitted)
  BY FreshFacts, RouteFacts DEF Inv, TypeInv, SecretsInv, Local
<1>5. TypeInv'
  BY <1>1, <1>2, <1>3 DEF Inv, TypeInv
<1>6. SecretsInv'
  BY <1>1, <1>2, <1>3, <1>4 DEF Inv, SecretsInv
<1>7. ClosedInv'
  <2>1. CASE UNCHANGED <<version, openedVia, left>>
    BY <1>1, <1>2, <2>1 DEF Inv, ClosedInv, Local
  <2>2. CASE version' = version + 1 /\ openedVia' = "none"
    <3>1. \A s \in Slots : requests'[s] # None => requests'[s].version \in Nat /\ requests'[s].version <= version
      BY <1>2 DEF Inv, ClosedInv, TypeInv, RequestSet
    <3>2. QED
      BY <2>2, <3>1 DEF Inv, ClosedInv, TypeInv
  <2>3. QED
    BY <1>1, <2>1, <2>2
<1>8. FormInv'
  BY <1>1, <1>3, <1>4 DEF Inv, FormInv, Local
<1>9. QED
  BY <1>5, <1>6, <1>7, <1>8 DEF Inv

(* The connection form: its mode, and leaving the helper.                    *)
LEMMA FormSteps ==
  ASSUME Inv, NEW p \in Panels, ChooseDevice(p) \/ ChooseHosted(p) \/ Checked(p) \/ Resolved(p)
  PROVE  Inv'
<1>1. CASE ChooseDevice(p)
  <2>1. /\ panels[p] \in PanelSet /\ panels' = [panels EXCEPT ![p].mode = "device"]
        /\ UNCHANGED <<pageFrame, section, connected, connecting, version, dialogOpen, requests, history>>
    BY <1>1 DEF ChooseDevice, Operable, Inv, TypeInv
  <2>2. \A x \in PanelSet : [x EXCEPT !.mode = "device"] \in PanelSet
    BY DEF PanelSet, Modes
  <2>3. panels'[p] \in PanelSet /\ panels'[p].local = panels[p].local /\ panels'[p].check = panels[p].check
    BY <2>1, <2>2 DEF Inv, TypeInv, PanelSet
  <2>4. panels' \in [Panels -> PanelSet \cup {None}] /\ \A q \in Panels \ {p} : panels'[q] = panels[q]
    BY <2>1, <2>3 DEF Inv, TypeInv
  <2>5. panels[p] # None
    BY <1>1 DEF ChooseDevice, Operable
  <2>6. TypeInv'
    BY <2>1, <2>4 DEF pageFrame, Inv, TypeInv
  <2>7. SecretsInv'
    BY <2>1, <2>3, <2>4, <2>5 DEF pageFrame, history, Inv, SecretsInv
  <2>8. ClosedInv'
    BY <2>1 DEF pageFrame, history, Inv, ClosedInv, Local
  <2>9. FormInv'
    BY <2>1, <2>3, <2>4, <2>5 DEF pageFrame, history, Inv, FormInv, Local
  <2>10. QED
    BY <2>6, <2>7, <2>8, <2>9 DEF Inv
<1>2. CASE ChooseHosted(p) /\ panels[p].local
  <2>1. /\ token' = 0 /\ known' = FALSE /\ left' = (openedVia = "helper")
        /\ panels' = [panels EXCEPT ![p] =
             [local |-> FALSE, mode |-> "hosted", check |-> Route(0)]]
        /\ UNCHANGED <<home, cookie, helper, dashboard, requests, openedVia, admitted, used, twoForms>>
    BY <1>2 DEF ChooseHosted, DisconnectHelper
  <2> DEFINE new == [local |-> FALSE, mode |-> "hosted", check |-> Route(0)]
  <2>2. /\ Route(0) \in RouteSet /\ Sound(Route(0), admitted)
        /\ Route(0).via = "helper" => home = "workspace"
    BY RouteFacts DEF Inv, TypeInv, SecretsInv
  <2>3. new \in PanelSet
    BY <2>2 DEF PanelSet, Modes
  <2>4. /\ panels' \in [Panels -> PanelSet \cup {None}] /\ panels'[p] = new
        /\ \A q \in Panels \ {p} : panels'[q] = panels[q]
    BY <2>1, <2>3 DEF Inv, TypeInv
  <2>5. panels[p] # None
    BY <1>2 DEF ChooseHosted, Operable
  <2>6. TypeInv'
    BY <2>1, <2>4 DEF dashboard, Inv, TypeInv
  <2>7. SecretsInv'
    BY <2>1, <2>2, <2>4 DEF Inv, SecretsInv
  <2>8. ClosedInv'
    BY <2>1 DEF dashboard, Inv, ClosedInv
  <2>9. FormInv'
    <3> SUFFICES ASSUME ~twoForms PROVE FormInv'
      BY <2>1 DEF FormInv
    <3>1. \A q \in Panels \ {p} : panels[q] = None
      BY <2>5 DEF Inv, FormInv
    <3>2. \A q \in Panels : panels'[q] # None => q = p
      BY <2>4, <3>1
    <3>3. home = "workspace" => Local'
      BY <2>1 DEF Local
    <3>4. QED
      BY <2>1, <2>2, <2>4, <3>2, <3>3 DEF FormInv
  <2>10. QED
    BY <2>6, <2>7, <2>8, <2>9 DEF Inv
<1>3. CASE ChooseHosted(p) /\ ~panels[p].local
  <2>1. /\ panels[p] \in PanelSet /\ panels' = [panels EXCEPT ![p].mode = "hosted"]
        /\ UNCHANGED <<home, cookie, helper, token, known, left, dashboard, requests, openedVia, admitted, used, twoForms>>
    BY <1>3 DEF ChooseHosted, Operable, Inv, TypeInv
  <2>2. \A x \in PanelSet : [x EXCEPT !.mode = "hosted"] \in PanelSet
    BY DEF PanelSet, Modes
  <2>3. panels'[p] \in PanelSet /\ panels'[p].local = panels[p].local /\ panels'[p].check = panels[p].check
    BY <2>1, <2>2 DEF Inv, TypeInv, PanelSet
  <2>4. panels' \in [Panels -> PanelSet \cup {None}] /\ \A q \in Panels \ {p} : panels'[q] = panels[q]
    BY <2>1, <2>3 DEF Inv, TypeInv
  <2>5. panels[p] # None
    BY <1>3 DEF ChooseHosted, Operable
  <2>6. TypeInv'
    BY <2>1, <2>4 DEF dashboard, Inv, TypeInv
  <2>7. SecretsInv'
    BY <2>1, <2>3, <2>4, <2>5 DEF Inv, SecretsInv
  <2>8. ClosedInv'
    BY <2>1 DEF dashboard, Inv, ClosedInv, Local
  <2>9. FormInv'
    BY <2>1, <2>3, <2>4, <2>5 DEF Inv, FormInv, Local
  <2>10. QED
    BY <2>6, <2>7, <2>8, <2>9 DEF Inv
<1>4. CASE Checked(p)
  <2>1. /\ panels[p] # None /\ panels[p] \in PanelSet /\ panels[p].check # None
        /\ UNCHANGED <<home, cookie, helper, token, dashboard, requests, history>>
    BY <1>4 DEF Checked, Inv, TypeInv
  <2>2. PICK reply \in Answers(panels[p].check, "GET") \cup {"failed"} :
          /\ known' = (known \/ reply = "local")
          /\ panels' = [panels EXCEPT ![p] =
               [local |-> @.local \/ reply = "local", mode |-> @.mode, check |-> None]]
    BY <1>4 DEF Checked
  <2>3. reply = "local" => panels[p].check.via = "helper"
    BY AnswerFacts
  <2> DEFINE new == [local |-> panels[p].local \/ reply = "local", mode |-> panels[p].mode, check |-> None]
  <2>4. new \in PanelSet
    BY <2>1 DEF PanelSet
  <2>5. /\ panels' \in [Panels -> PanelSet \cup {None}] /\ panels'[p] = new
        /\ \A q \in Panels \ {p} : panels'[q] = panels[q]
    BY <2>2, <2>4 DEF Inv, TypeInv
  <2>6. TypeInv'
    BY <2>1, <2>2, <2>5 DEF dashboard, Inv, TypeInv
  <2>7. SecretsInv'
    BY <2>1, <2>5 DEF history, Inv, SecretsInv
  <2>8. ClosedInv'
    BY <2>1 DEF dashboard, history, Inv, ClosedInv, Local
  <2>9. FormInv'
    BY <2>1, <2>2, <2>3, <2>5 DEF history, Inv, FormInv, Local
  <2>10. QED
    BY <2>6, <2>7, <2>8, <2>9 DEF Inv
<1>5. CASE Resolved(p)
  <2>1. /\ home = "workspace" /\ known' = TRUE
        /\ UNCHANGED <<home, cookie, helper, token, dashboard, panels, requests, history>>
    BY <1>5 DEF Resolved
  <2>2. TypeInv'
    BY <2>1 DEF dashboard, Inv, TypeInv
  <2>3. SecretsInv'
    BY <2>1 DEF history, Inv, SecretsInv
  <2>4. ClosedInv'
    BY <2>1 DEF dashboard, history, Inv, ClosedInv, Local
  <2>5. FormInv'
    BY <2>1 DEF history, Inv, FormInv, Local
  <2>6. QED
    BY <2>2, <2>3, <2>4, <2>5 DEF Inv
<1>6. QED
  BY <1>1, <1>2, <1>3, <1>4, <1>5

(* Requests that start.                                                      *)
LEMMA StartSteps ==
  ASSUME Inv, NEW slot \in Slots,
         \/ \E p \in Panels, run \in Runs : Pair(p, slot, run)
         \/ \E p \in Panels : Submit(p, slot)
         \/ SwitchProfile(slot)
         \/ Command(slot)
  PROVE  Inv'
<1>1. ASSUME NEW p \in Panels, NEW run \in Runs, Pair(p, slot, run) PROVE Inv'
  <2> DEFINE new == Request("pair", p, version, Route(run))
  <2>1. /\ requests' = [requests EXCEPT ![slot] = new] /\ admitted' = admitted \cup {run}
        /\ UNCHANGED <<home, cookie, helper, token, known, dashboard, panels, openedVia, left, used, twoForms>>
    BY <1>1 DEF Pair
  <2>2. run \in Nat /\ run # 0
    BY TransportAssumption DEF Runs
  <2>3. Route(run) \in RouteSet /\ Route(run).bearer = run
    BY <2>2, RouteFacts DEF Inv
  <2>4. Sound(Route(run), admitted')
    <3>1. run \in admitted' \cup {0} /\ cookie \in admitted' \cup {0}
      BY <2>1 DEF Inv, SecretsInv
    <3>2. QED
      BY <2>2, <3>1, RouteFacts DEF Inv
  <2>5. new \in RequestSet /\ new.kind = "pair" /\ new.version = version /\ new.route = Route(run)
    BY <2>3 DEF Request, RequestSet, Inv, TypeInv
  <2>6. /\ requests' \in [Slots -> RequestSet \cup {None}] /\ requests'[slot] = new
        /\ \A s \in Slots \ {slot} : requests'[s] = requests[s]
    <3> HIDE DEF new
    <3> QED
      BY <2>1, <2>5 DEF Inv, TypeInv
  <2>7. TypeInv'
    BY <2>1, <2>6 DEF dashboard, Inv, TypeInv
  <2>8. SecretsInv'
    <3> HIDE DEF new
    <3> QED
      BY <2>1, <2>2, <2>3, <2>4, <2>5, <2>6 DEF Inv, SecretsInv, Sound
  <2>9. ClosedInv'
    <3> HIDE DEF new
    <3> QED
      BY <2>1, <2>5, <2>6 DEF dashboard, Inv, TypeInv, ClosedInv, Local
  <2>10. FormInv'
    BY <2>1 DEF Inv, FormInv, Local
  <2>11. QED
    BY <2>7, <2>8, <2>9, <2>10 DEF Inv
<1>2. CASE ConnectProfile(slot)
  <2> DEFINE route == Route(token)
             new == Request("connect", None, version + 1, route)
             old == Orphaned(requests)
  <2>1. /\ requests' = [old EXCEPT ![slot] = new] /\ version' = version + 1
        /\ Renders(FALSE, section, dialogOpen)
        /\ openedVia' = route.via /\ left' = FALSE
        /\ UNCHANGED <<home, cookie, helper, token, known, admitted, used>>
    BY <1>2 DEF ConnectProfile
  <2>2. /\ route \in RouteSet /\ Sound(route, admitted)
        /\ route.via = "helper" <=> Local
    BY RouteFacts DEF Inv, TypeInv, SecretsInv, Local
  <2>3. /\ old \in [Slots -> RequestSet \cup {None}]
        /\ \A s \in Slots : old[s] # None =>
             /\ requests[s] # None
             /\ old[s].kind = requests[s].kind /\ old[s].version = requests[s].version
             /\ old[s].route = requests[s].route
    BY OrphanFacts DEF Inv, TypeInv
  <2>4. new \in RequestSet /\ new.kind = "connect" /\ new.version = version + 1 /\ new.route = route
    BY <2>2 DEF Request, RequestSet, Inv, TypeInv
  <2>5. /\ requests' \in [Slots -> RequestSet \cup {None}] /\ requests'[slot] = new
        /\ \A s \in Slots \ {slot} : requests'[s] = old[s]
    <3> HIDE DEF new, old
    <3> QED
      BY <2>1, <2>3, <2>4
  <2>6. /\ panels' \in [Panels -> PanelSet \cup {None}]
        /\ \A q \in Panels : panels'[q] # None =>
             \/ panels[q] # None /\ panels'[q] = panels[q]
             \/ panels'[q] = Fresh
        /\ twoForms => twoForms'
        /\ ~twoForms' => \E r \in Panels : \A q \in Panels : panels'[q] # None => q = r
    BY <2>1, RenderFacts DEF Inv
  <2>7. /\ Fresh.local = known /\ Fresh.check = Route(token)
        /\ Route(token).via = "helper" <=> Local
        /\ Sound(Route(token), admitted)
    BY FreshFacts, RouteFacts DEF Inv, TypeInv, SecretsInv, Local
  <2> HIDE DEF new, old, route
  <2>8. TypeInv'
    BY <2>1, <2>5, <2>6 DEF Inv, TypeInv
  <2>9. SecretsInv'
    BY ZenonT(60), <2>1, <2>2, <2>3, <2>4, <2>5, <2>6, <2>7 DEF Inv, SecretsInv
  <2>10. ClosedInv'
    <3>1. \A s \in Slots \ {slot} : requests'[s] # None =>
            requests'[s].version \in Nat /\ requests'[s].version <= version
      BY <2>3, <2>5 DEF Inv, ClosedInv, TypeInv, RequestSet
    <3>2. version' = version + 1 /\ version \in Nat
      BY <2>1 DEF Inv, TypeInv
    <3>3. openedVia' = "helper" => Local'
      BY <2>1, <2>2 DEF Local
    <3>4. QED
      BY <2>1, <2>4, <2>5, <3>1, <3>2, <3>3 DEF ClosedInv
  <2>11. FormInv'
    BY <2>1, <2>6, <2>7 DEF Inv, FormInv, Local
  <2>12. QED
    BY <2>8, <2>9, <2>10, <2>11 DEF Inv
<1>3. CASE Command(slot)
  <2> DEFINE route == Route(token)
             new == Request("command", None, version, route)
  <2>1. /\ requests' = [requests EXCEPT ![slot] = new]
        /\ UNCHANGED <<home, cookie, helper, token, known, dashboard, panels, history>>
    BY <1>3 DEF Command
  <2>2. /\ route \in RouteSet /\ Sound(route, admitted)
        /\ route.via = "helper" <=> Local
    BY RouteFacts DEF Inv, TypeInv, SecretsInv, Local
  <2>3. new \in RequestSet /\ new.kind = "command" /\ new.version = version /\ new.route = route
    BY <2>2 DEF Request, RequestSet, Inv, TypeInv
  <2> HIDE DEF new, route
  <2>4. /\ requests' \in [Slots -> RequestSet \cup {None}] /\ requests'[slot] = new
        /\ \A s \in Slots \ {slot} : requests'[s] = requests[s]
    BY <2>1, <2>3 DEF Inv, TypeInv
  <2>5. TypeInv'
    BY <2>1, <2>4 DEF dashboard, Inv, TypeInv
  <2>6. SecretsInv'
    BY <2>1, <2>2, <2>3, <2>4 DEF history, Inv, SecretsInv
  <2>7. ClosedInv'
    BY <2>1, <2>2, <2>3, <2>4 DEF dashboard, history, Inv, TypeInv, ClosedInv, Local
  <2>8. FormInv'
    BY <2>1 DEF history, Inv, FormInv, Local
  <2>9. QED
    BY <2>5, <2>6, <2>7, <2>8 DEF Inv
<1>4. QED
  BY <1>1, <1>2, <1>3 DEF Submit, SwitchProfile

(* Requests that end.                                                        *)
LEMMA EndSteps ==
  ASSUME Inv, MountedInv, NEW slot \in Slots, Paired(slot) \/ PairingFails(slot) \/ \E ok \in BOOLEAN : Ended(slot, ok)
  PROVE  Inv'
<1>1. CASE Paired(slot)
  <2> DEFINE r == requests[slot]
  <2>1. /\ r # None /\ r.kind = "pair" /\ r \in RequestSet
        /\ requests' = [requests EXCEPT ![slot] = None]
        /\ token' = r.route.bearer /\ known' = TRUE
        /\ panels' = IF r.panel = None THEN panels
             ELSE [panels EXCEPT ![r.panel] = [local |-> TRUE, mode |-> @.mode, check |-> r.route]]
        /\ UNCHANGED <<home, cookie, helper, dashboard, history>>
    BY <1>1 DEF Paired, Inv, TypeInv
  <2>2. /\ r.route.bearer \in Nat \ {0} /\ r.route \in RouteSet
        /\ Sound(r.route, admitted) /\ r.panel \in Panels \cup {None}
    BY <2>1 DEF Inv, SecretsInv, RequestSet, RouteSet
  <2>3. /\ requests' \in [Slots -> RequestSet \cup {None}]
        /\ \A s \in Slots : requests'[s] # None => requests'[s] = requests[s]
    BY <2>1 DEF Inv, TypeInv
  <2> DEFINE new(p) == [local |-> TRUE, mode |-> panels[p].mode, check |-> r.route]
  <2>4. \A p \in Panels : new(p) \in PanelSet /\ new(p).check = r.route
    <3>1. \A p \in Panels : panels[p].mode \in Modes
      BY DEF Inv, TypeInv, PanelSet, Modes
    <3>2. QED
      BY <2>2, <3>1 DEF PanelSet
  <2>5. /\ panels' \in [Panels -> PanelSet \cup {None}]
        /\ \A p \in Panels : panels'[p] = panels[p] \/ (panels'[p] = new(p) /\ p = r.panel)
    BY <2>1, <2>2, <2>4 DEF Inv, TypeInv
  <2>6. TypeInv'
    BY <2>1, <2>2, <2>3, <2>5 DEF dashboard, Inv, TypeInv
  <2>7. SecretsInv'
    BY <2>1, <2>2, <2>3, <2>4, <2>5 DEF history, Inv, SecretsInv, Sound
  <2>8. ClosedInv'
    BY <2>1, <2>2, <2>3 DEF dashboard, history, Inv, ClosedInv, Local
  <2>9. FormInv'
    <3>1. Local'
      BY <2>1, <2>2 DEF Local
    <3>2. \A p \in Panels : panels'[p] # None => OnScreen(p)
      BY <2>1, <2>2, <2>5 DEF MountedInv
    <3>3. ~twoForms => \E p \in Panels : \A q \in Panels : panels'[q] # None => q = p
      BY <3>2 DEF MountedInv, Panels
    <3>4. twoForms' = twoForms
      BY <2>1 DEF history
    <3>5. QED
      BY <3>1, <3>3, <3>4 DEF FormInv
  <2>10. QED
    BY <2>6, <2>7, <2>8, <2>9 DEF Inv
<1>2. CASE PairingFails(slot)
  <2>1. /\ requests' = [requests EXCEPT ![slot] = None]
        /\ UNCHANGED <<home, cookie, helper, token, known, dashboard, panels, history>>
    BY <1>2 DEF PairingFails
  <2>2. /\ requests' \in [Slots -> RequestSet \cup {None}]
        /\ \A s \in Slots : requests'[s] # None => requests'[s] = requests[s]
    BY <2>1 DEF Inv, TypeInv
  <2>3. TypeInv'
    BY <2>1, <2>2 DEF dashboard, Inv, TypeInv
  <2>4. SecretsInv'
    BY <2>1, <2>2 DEF history, Inv, SecretsInv
  <2>5. ClosedInv'
    BY <2>1, <2>2 DEF dashboard, history, Inv, ClosedInv, Local
  <2>6. FormInv'
    BY <2>1 DEF history, Inv, FormInv, Local
  <2>7. QED
    BY <2>3, <2>4, <2>5, <2>6 DEF Inv
<1>3. ASSUME NEW ok \in BOOLEAN, Ended(slot, ok) PROVE Inv'
  <2> DEFINE r == requests[slot]
  <2>1. /\ r # None /\ r.kind \in {"connect", "command"}
        /\ (IF ok THEN "done" ELSE "failed") \in Answers(r.route, "POST")
        /\ used' \in IF r.route.via = "helper" /\ "done" \in Answers(r.route, "POST")
                      THEN IF ok THEN {used \cup {helper.run}} ELSE {used, used \cup {helper.run}}
                      ELSE {used}
        /\ UNCHANGED <<home, cookie, helper, token, known, openedVia, left, admitted, version>>
    BY <1>3 DEF Ended, dashboard
  <2>2. used' \subseteq admitted
    <3>1. used' = used \/ (/\ used' = used \cup {helper.run}
                          /\ r.route.via = "helper" /\ "done" \in Answers(r.route, "POST"))
      BY <2>1
    <3>2. r.route.via = "helper" /\ "done" \in Answers(r.route, "POST") => helper.run \in admitted
      BY <2>1, AnswerFacts DEF Inv, TypeInv, SecretsInv, Sound
    <3>3. QED
      BY <3>1, <3>2 DEF Inv, SecretsInv
  <2>3. /\ requests' \in [Slots -> RequestSet \cup {None}]
        /\ \A s \in Slots : requests'[s] # None =>
             /\ requests[s] # None
             /\ requests'[s].kind = requests[s].kind /\ requests'[s].version = requests[s].version
             /\ requests'[s].route = requests[s].route
    <3>1. requests' = [requests EXCEPT ![slot] = None] \/ requests' = [Orphaned(requests) EXCEPT ![slot] = None]
      BY <1>3 DEF Ended
    <3>2. /\ Orphaned(requests) \in [Slots -> RequestSet \cup {None}]
          /\ \A s \in Slots : Orphaned(requests)[s] # None =>
               /\ requests[s] # None
               /\ Orphaned(requests)[s].kind = requests[s].kind
               /\ Orphaned(requests)[s].version = requests[s].version
               /\ Orphaned(requests)[s].route = requests[s].route
      BY OrphanFacts DEF Inv, TypeInv
    <3>3. QED
      BY <3>1, <3>2 DEF Inv, TypeInv
  <2>4. \/ UNCHANGED <<panels, twoForms>>
        \/ \E c, place, open : Renders(c, place, open)
    BY <1>3 DEF Ended
  <2>5. /\ panels' \in [Panels -> PanelSet \cup {None}]
        /\ \A p \in Panels : panels'[p] # None =>
             \/ panels[p] # None /\ panels'[p] = panels[p]
             \/ panels'[p] = Fresh
        /\ twoForms => twoForms'
        /\ ~twoForms' => \E p \in Panels : \A q \in Panels : panels'[q] # None => q = p
    <3>1. CASE UNCHANGED <<panels, twoForms>>
      BY <3>1 DEF Inv, TypeInv, FormInv
    <3>2. QED
      BY <2>4, <3>1, RenderFacts DEF Inv
  <2>6. /\ Fresh.local = known /\ Fresh.check = Route(token)
        /\ Route(token).via = "helper" <=> Local
        /\ Sound(Route(token), admitted)
    BY FreshFacts, RouteFacts DEF Inv, TypeInv, SecretsInv, Local
  <2>7. TypeInv'
    BY <2>1, <2>3, <2>5 DEF Inv, TypeInv
  <2>8. SecretsInv'
    BY <2>1, <2>2, <2>3, <2>5, <2>6 DEF Inv, SecretsInv
  <2>9. ClosedInv'
    BY <2>1, <2>3 DEF Inv, ClosedInv, Local
  <2>10. FormInv'
    BY <2>1, <2>5, <2>6 DEF Inv, FormInv, Local
  <2>11. QED
    BY <2>7, <2>8, <2>9, <2>10 DEF Inv
<1>4. QED
  BY <1>1, <1>2, <1>3

(* What is mounted, after each action.                                       *)
LEMMA MountedSteps == Inv /\ MountedInv /\ [Next]_vars => MountedInv'
<1> SUFFICES ASSUME Inv, MountedInv, [Next]_vars PROVE MountedInv'
  OBVIOUS
<1> DEFINE Told(rs) == \A s \in Slots : rs[s] # None /\ rs[s].kind = "pair" /\ rs[s].panel # None =>
                         rs[s].panel \in Panels /\ OnScreen(rs[s].panel)
           Same == UNCHANGED <<section, connected, dialogOpen, twoForms>>
<1>1. Told(requests) /\ requests \in [Slots -> RequestSet \cup {None}]
  BY DEF MountedInv, Inv, TypeInv, RequestSet
<1>2. ASSUME Same, \A p \in Panels : panels'[p] # None => panels[p] # None \/ OnScreen(p),
             Told(requests') PROVE MountedInv'
  BY <1>2 DEF MountedInv, OnScreen, Shown
<1> DEFINE Appears(p) == Shown(p, connected', section', dialogOpen')
<1>3. ASSUME NEW c, NEW place, NEW open, Renders(c, place, open)
      PROVE  /\ \A p \in Panels : panels'[p] # None => Appears(p)
             /\ ~twoForms' => \E p \in Panels : ~Appears(p)
             /\ \A s \in Slots : LET r == Orphaned(requests)[s] IN
                  r # None /\ r.kind = "pair" /\ r.panel # None => Appears(r.panel)
  <2>1. connected' = c /\ section' = place /\ dialogOpen' = open
    BY <1>3 DEF Renders
  <2>2. \A p \in Panels : panels'[p] # None => Appears(p)
    BY <1>3, <2>1 DEF Renders
  <2>3. ~twoForms' => \E p \in Panels : ~Appears(p)
    BY <1>3, <2>1 DEF Renders
  <2>4. ASSUME NEW s \in Slots, Orphaned(requests)[s] # None,
               Orphaned(requests)[s].kind = "pair", Orphaned(requests)[s].panel # None
        PROVE  Appears(Orphaned(requests)[s].panel)
    <3>1. requests[s] # None /\ requests[s].kind = "pair" /\ requests[s] \in RequestSet
      BY <1>1, <2>4, OrphanFacts
    <3>2. Orphaned(requests)[s] = requests[s] /\ panels'[requests[s].panel] # None
      BY <2>4, <3>1 DEF Orphaned, RequestSet
    <3>3. requests[s].panel \in Panels
      BY <1>1, <2>4, <3>1, <3>2
    <3>4. QED
      BY <2>2, <3>2, <3>3
  <2>5. QED
    BY <2>2, <2>3, <2>4
<1>4. CASE UNCHANGED vars
  BY <1>1, <1>2, <1>4 DEF vars, dashboard, history
<1>5. CASE StopHelper \/ StartHelper \/ OpenLink
  BY <1>1, <1>2, <1>5 DEF StopHelper, StartHelper, OpenLink, dashboard, history
<1>6. CASE Navigate \/ CloseDialog \/ \E opens \in BOOLEAN : Disconnect(opens)
  <2>1. requests' = Orphaned(requests) /\ \E c, place, open : Renders(c, place, open)
    BY <1>6 DEF Navigate, CloseDialog, Disconnect
  <2>2. QED
    BY <1>3, <2>1 DEF MountedInv, OnScreen
<1>7. CASE OpenDialog
  <2>1. requests' = requests /\ Renders(connected, section, TRUE)
    BY <1>7 DEF OpenDialog
  <2>2. \A p \in Panels : OnScreen(p) => Appears(p)
    BY <2>1 DEF Renders, OnScreen, Shown
  <2>3. QED
    BY <1>1, <1>3, <2>1, <2>2 DEF MountedInv, OnScreen
<1>8. ASSUME NEW p \in Panels, ChooseDevice(p) \/ ChooseHosted(p) \/ Checked(p) \/ Resolved(p)
      PROVE  MountedInv'
  <2>1. /\ Same /\ requests' = requests
        /\ panels' = panels \/ (panels[p] # None /\ \A q \in Panels \ {p} : panels'[q] = panels[q])
    BY <1>8 DEF ChooseDevice, ChooseHosted, Checked, Resolved, Operable, dashboard, history, pageFrame, Inv, TypeInv
  <2>2. \A q \in Panels : panels'[q] # None => panels[q] # None
    BY <2>1 DEF Inv, TypeInv
  <2>3. QED
    BY <1>1, <1>2, <2>1, <2>2
<1>9. ASSUME NEW slot \in Slots, NEW p \in Panels, NEW run \in Runs, Pair(p, slot, run) PROVE MountedInv'
  <2>1. /\ Same /\ panels' = panels /\ panels[p] # None
        /\ requests' = [requests EXCEPT ![slot] = Request("pair", p, version, Route(run))]
    BY <1>9 DEF Pair, Operable, dashboard
  <2>2. Told(requests')
    BY <1>1, <2>1 DEF Request, MountedInv
  <2>3. QED
    BY <1>2, <2>1, <2>2
<1>10. ASSUME NEW slot \in Slots, ConnectProfile(slot) PROVE MountedInv'
  <2> DEFINE new == Request("connect", None, version + 1, Route(token))
  <2>1. /\ requests' = [Orphaned(requests) EXCEPT ![slot] = new] /\ new.kind = "connect"
        /\ Renders(FALSE, section, dialogOpen)
    BY <1>10 DEF ConnectProfile, Request
  <2>2. Orphaned(requests) \in [Slots -> RequestSet \cup {None}]
    BY <1>1, OrphanFacts
  <2> HIDE DEF new
  <2>3. requests'[slot] = new /\ \A s \in Slots \ {slot} : requests'[s] = Orphaned(requests)[s]
    BY <2>1, <2>2
  <2>4. QED
    BY <1>3, <2>1, <2>3 DEF MountedInv, OnScreen
<1>11. ASSUME NEW slot \in Slots, Command(slot) PROVE MountedInv'
  <2>1. /\ Same /\ panels' = panels
        /\ requests' = [requests EXCEPT ![slot] = Request("command", None, version, Route(token))]
    BY <1>11 DEF Command, dashboard, history
  <2>2. Told(requests')
    BY <1>1, <2>1 DEF Request
  <2>3. QED
    BY <1>2, <2>1, <2>2
<1>12. ASSUME NEW slot \in Slots, Paired(slot) PROVE MountedInv'
  <2> DEFINE r == requests[slot]
  <2>1. /\ Same /\ requests' = [requests EXCEPT ![slot] = None] /\ r # None /\ r.kind = "pair"
        /\ panels' = panels \/ (r.panel # None /\ \A q \in Panels \ {r.panel} : panels'[q] = panels[q])
    BY <1>12 DEF Paired, dashboard, history, Inv, TypeInv
  <2>2. Told(requests')
    BY <1>1, <2>1
  <2>3. \A p \in Panels : panels'[p] # None => panels[p] # None \/ OnScreen(p)
    BY <1>1, <2>1 DEF Inv, TypeInv
  <2>4. QED
    BY <1>2, <2>1, <2>2, <2>3
<1>13. ASSUME NEW slot \in Slots, PairingFails(slot) PROVE MountedInv'
  <2>1. Same /\ panels' = panels /\ requests' = [requests EXCEPT ![slot] = None]
    BY <1>13 DEF PairingFails, dashboard, history
  <2>2. QED
    BY <1>1, <1>2, <2>1
<1>14. ASSUME NEW slot \in Slots, NEW ok \in BOOLEAN, Ended(slot, ok) PROVE MountedInv'
  <2>1. \/ /\ Same /\ panels' = panels
           /\ \/ requests' = [requests EXCEPT ![slot] = None]
              \/ requests' = [Orphaned(requests) EXCEPT ![slot] = None]
        \/ /\ \E c, place, open : Renders(c, place, open)
           /\ requests' = [Orphaned(requests) EXCEPT ![slot] = None]
    BY <1>14 DEF Ended, dashboard
  <2>2. CASE /\ Same /\ panels' = panels
             /\ \/ requests' = [requests EXCEPT ![slot] = None]
                \/ requests' = [Orphaned(requests) EXCEPT ![slot] = None]
    <3>1. Told(Orphaned(requests)) /\ Orphaned(requests) \in [Slots -> RequestSet \cup {None}]
      BY <1>1, OrphanFacts DEF Orphaned, RequestSet
    <3>2. Told(requests')
      BY <1>1, <2>2, <3>1
    <3>3. QED
      BY <1>2, <2>2, <3>2
  <2>3. CASE /\ \E c, place, open : Renders(c, place, open)
             /\ requests' = [Orphaned(requests) EXCEPT ![slot] = None]
    <3>1. Orphaned(requests) \in [Slots -> RequestSet \cup {None}]
      BY <1>1, OrphanFacts
    <3>2. \A s \in Slots : requests'[s] = None \/ requests'[s] = Orphaned(requests)[s]
      BY <2>3, <3>1
    <3>3. QED
      BY <1>3, <2>3, <3>2 DEF MountedInv, OnScreen
  <2>4. QED
    BY <2>1, <2>2, <2>3
<1>15. QED
  BY <1>4, <1>5, <1>6, <1>7, <1>8, <1>9, <1>10, <1>11, <1>12, <1>13, <1>14 DEF Next, Submit, SwitchProfile

LEMMA Invariant == Spec => []Inv
<1>1. Inv /\ MountedInv /\ [Next]_vars => Inv'
  <2> SUFFICES ASSUME Inv, MountedInv, [Next]_vars PROVE Inv'
    OBVIOUS
  <2>1. CASE UNCHANGED vars
    <3>1. UNCHANGED <<home, cookie, helper, token, known, section, connected, connecting, version,
                      dialogOpen, panels, requests, openedVia, left, admitted, used, twoForms>>
      BY <2>1 DEF vars, dashboard, history
    <3>2. TypeInv' /\ SecretsInv'
      BY <3>1 DEF Inv, TypeInv, SecretsInv
    <3>3. ClosedInv' /\ FormInv'
      BY <3>1 DEF Inv, ClosedInv, FormInv, Local
    <3>4. QED
      BY <3>2, <3>3 DEF Inv
  <2>2. QED
    BY <2>1, HelperSteps, MovingSteps, FormSteps, StartSteps, EndSteps DEF Next
<1>2. Init => MountedInv
  <2> SUFFICES ASSUME Init PROVE MountedInv
    OBVIOUS
  <2>1. /\ section = "console" /\ connected = FALSE /\ dialogOpen = FALSE
        /\ panels["dialog"] = None /\ requests = [s \in Slots |-> None]
    BY DEF Init, Panels
  <2>2. QED
    BY <2>1 DEF MountedInv, OnScreen, Shown, Panels
<1>3. QED
  BY <1>1, <1>2, InitInv, MountedSteps, PTL DEF Spec

-----------------------------------------------------------------------------
(* The properties.                                                           *)

(* Whatever the helper does, a session opened through it sends nothing to    *)
(* the website until the user chooses so (helper-install.ts lines 52-59).    *)
THEOREM AlwaysFailsClosed == Spec => []FailsClosed
<1>1. Inv => FailsClosed
  BY DEF Inv, ClosedInv, FailsClosed, Pending
<1>2. QED
  BY <1>1, Invariant, PTL

(* No run of the helper executes a command of a page that was not given the  *)
(* secret of that very run (main.go lines 139-147 and 182-303).              *)
THEOREM OnlyAdmittedRunsEverServe == Spec => []OnlyAdmittedRunsServe
<1>1. Inv => OnlyAdmittedRunsServe
  BY DEF Inv, SecretsInv, OnlyAdmittedRunsServe
<1>2. QED
  BY <1>1, Invariant, PTL

(* A form that says it uses the helper does, as long as no two forms have    *)
(* been mounted at once (connection-panel.tsx lines 140-156).                *)
THEOREM OneFormAlwaysTrue == Spec => []OneFormTellsTheTruth
<1>1. Inv => OneFormTellsTheTruth
  <2> SUFFICES ASSUME Inv, ~twoForms, NEW p \in Panels, panels[p] # None, panels[p].local
               PROVE  Route(token).via = "helper"
    BY DEF OneFormTellsTheTruth, FormTellsTheTruth
  <2>1. Local
    BY DEF Inv, FormInv
  <2>2. QED
    BY <2>1, RouteFacts DEF Local, Inv, TypeInv
<1>2. QED
  BY <1>1, Invariant, PTL

-----------------------------------------------------------------------------
(* HelperRelease.                                                            *)

Releases == [by : Builds, files : 0..Files]

ReleaseTypeInv ==
  /\ build \in [Builds -> {"idle", "checked", "building", "cleanup", "ended"}]
  /\ written \in [Builds -> 0..Files]
  /\ published \in Releases \cup {Absent}
  /\ launcher \in [Launchers -> [target : 1..Targets,
        step : {"archive", "checksum", "verify", "runs", "refused", "failed"}]]
  /\ DOMAIN archive = Launchers /\ DOMAIN checksum = Launchers

(* What a launcher holds came from the release, or was damaged on its way;   *)
(* and its verdict is the one of Matches.                                    *)
Genuine == {published.by, "damaged"}
DownloadsAreGenuine ==
  \A l \in Launchers :
    /\ launcher[l].step \in {"checksum", "verify", "runs", "refused"} =>
         published # Absent /\ archive[l] \in Genuine
    /\ launcher[l].step \in {"verify", "runs", "refused"} => checksum[l] \in Genuine
    /\ launcher[l].step = "runs" => Matches(l)
    /\ launcher[l].step = "refused" => ~Matches(l)

ReleaseInv == ReleaseTypeInv /\ DownloadsAreGenuine

LEMMA FilesNat == Files \in Nat /\ Absent \notin Releases
BY ReleaseAssumption DEF Files, Releases

LEMMA InitRelease == ReleaseInit => ReleaseInv
<1> SUFFICES ASSUME ReleaseInit PROVE ReleaseInv
  OBVIOUS
<1>1. ReleaseTypeInv
  BY FilesNat, ReleaseAssumption DEF ReleaseInit, ReleaseTypeInv, Releases
<1>2. DownloadsAreGenuine
  BY DEF ReleaseInit, DownloadsAreGenuine
<1>3. QED
  BY <1>1, <1>2 DEF ReleaseInv

(* A step of a build publishes at most once, and only a whole release.       *)
LEMMA StepPublishes ==
  ASSUME ReleaseInv, [ReleaseNext]_releaseVars
  PROVE  /\ published' # published =>
              published = Absent /\ published' # Absent /\ published'.files = Files
         /\ published' \in Releases \cup {Absent}
<1>1. CASE UNCHANGED releaseVars
  BY <1>1 DEF releaseVars, ReleaseInv, ReleaseTypeInv
<1>2. CASE \E b \in Builds : Build(b)
  <2>1. PICK b \in Builds : Build(b)
    BY <1>2
  <2>2. CASE Publish(b)
    <3>1. written[b] = Files /\ (published' = IF published = Absent THEN [by |-> b, files |-> Files] ELSE published)
      BY <2>2 DEF Publish, Staged, Rename
    <3>2. [by |-> b, files |-> Files] \in Releases
      BY FilesNat DEF Releases
    <3>3. QED
      BY <3>1, <3>2, FilesNat DEF ReleaseInv, ReleaseTypeInv
  <2>3. CASE published' = published
    BY <2>3 DEF ReleaseInv, ReleaseTypeInv
  <2>4. QED
    BY <2>1, <2>2, <2>3 DEF Build, CheckVersion, MakeFolder, WriteFile, BuildFails,
       RemoveFolder, Killed
<1>3. CASE \E l \in Launchers : Launch(l)
  BY <1>3 DEF Launch, FetchArchive, FetchChecksum, Verify, FetchFails, releases,
     ReleaseInv, ReleaseTypeInv
<1>4. QED
  BY <1>1, <1>2, <1>3 DEF ReleaseNext

LEMMA StepRelease == ReleaseInv /\ [ReleaseNext]_releaseVars => ReleaseInv'
<1> SUFFICES ASSUME ReleaseInv, [ReleaseNext]_releaseVars PROVE ReleaseInv'
  OBVIOUS
<1>p. published' \in Releases \cup {Absent} /\ (published # Absent => published' = published)
  BY StepPublishes
<1>1. CASE UNCHANGED releaseVars
  BY <1>1 DEF releaseVars, ReleaseInv, ReleaseTypeInv, DownloadsAreGenuine, Genuine, Matches
<1>2. CASE \E b \in Builds : Build(b)
  <2>1. PICK b \in Builds : Build(b)
    BY <1>2
  <2>2. UNCHANGED downloads
    BY <2>1 DEF Build, CheckVersion, MakeFolder, WriteFile, Publish, BuildFails,
       RemoveFolder, Killed
  <2>3. build' \in [Builds -> {"idle", "checked", "building", "cleanup", "ended"}]
    BY <2>1 DEF Build, CheckVersion, MakeFolder, WriteFile, Publish, BuildFails,
       RemoveFolder, Killed,
                Goes, ReleaseInv, ReleaseTypeInv
  <2>4. written' \in [Builds -> 0..Files]
    BY <2>1, FilesNat DEF Build, CheckVersion, MakeFolder, WriteFile, Publish, BuildFails,
       RemoveFolder,
                          Killed, ReleaseInv, ReleaseTypeInv
  <2>5. ReleaseTypeInv'
    BY <1>p, <2>2, <2>3, <2>4 DEF downloads, ReleaseInv, ReleaseTypeInv
  <2>6. DownloadsAreGenuine'
    BY <1>p, <2>2 DEF downloads, ReleaseInv, DownloadsAreGenuine, Genuine, Matches
  <2>7. QED
    BY <2>5, <2>6 DEF ReleaseInv
<1>3. CASE \E l \in Launchers : Launch(l)
  <2>1. PICK l \in Launchers : Launch(l)
    BY <1>3
  <2>2. UNCHANGED releases
    BY <2>1 DEF Launch, FetchArchive, FetchChecksum, Verify, FetchFails
  <2>3. ReleaseTypeInv'
    BY <2>1, <2>2 DEF releases, Launch, FetchArchive, FetchChecksum, Verify, FetchFails,
       Steps, ReleaseInv, ReleaseTypeInv
  <2>4. DownloadsAreGenuine'
    <3> SUFFICES ASSUME NEW k \in Launchers
                 PROVE  (/\ launcher[k].step \in {"checksum", "verify", "runs", "refused"} =>
                              published # Absent /\ archive[k] \in Genuine
                         /\ launcher[k].step \in {"verify", "runs", "refused"} => checksum[k] \in Genuine
                         /\ launcher[k].step = "runs" => Matches(k)
                         /\ launcher[k].step = "refused" => ~Matches(k))'
      BY DEF DownloadsAreGenuine
    <3>1. CASE k # l
      BY <2>1, <2>2, <3>1 DEF Launch, FetchArchive, FetchChecksum, Verify, FetchFails,
         Steps, releases,
           ReleaseInv, ReleaseTypeInv, DownloadsAreGenuine, Genuine, Matches
    <3>2. CASE k = l /\ FetchArchive(l)
      BY <2>2, <3>2 DEF FetchArchive, Downloads, Steps, releases, ReleaseInv,
         ReleaseTypeInv, Genuine
    <3>3. CASE k = l /\ FetchChecksum(l)
      BY <2>2, <3>3 DEF FetchChecksum, Downloads, Steps, releases, ReleaseInv,
         ReleaseTypeInv, DownloadsAreGenuine, Genuine
    <3>4. CASE k = l /\ Verify(l)
      BY <2>2, <3>4 DEF Verify, Steps, releases, ReleaseInv, ReleaseTypeInv,
         DownloadsAreGenuine, Genuine, Matches
    <3>5. CASE k = l /\ FetchFails(l)
      BY <2>2, <3>5 DEF FetchFails, Steps, releases, ReleaseInv, ReleaseTypeInv
    <3>6. QED
      BY <2>1, <3>1, <3>2, <3>3, <3>4, <3>5 DEF Launch
  <2>5. QED
    BY <2>3, <2>4 DEF ReleaseInv
<1>4. QED
  BY <1>1, <1>2, <1>3 DEF ReleaseNext

(* Helper releases never change once published, and appear whole, whichever  *)
(* builds run at once, fail or are killed (build-helper.mjs lines 12-43).    *)
THEOREM ReleaseAlwaysFinal == ReleaseSpec => ReleaseIsFinal
<1>1. ReleaseInv /\ [ReleaseNext]_releaseVars =>
        [published' # published =>
           published = Absent /\ published' # Absent /\ published'.files = Files]_releaseVars
  BY StepPublishes
<1>2. QED
  BY <1>1, InitRelease, StepRelease, PTL DEF ReleaseSpec, ReleaseIsFinal

(* Every launcher runs the published bytes or, for a damaged download,       *)
(* nothing (install.sh lines 25-42).                                         *)
THEOREM LaunchersAlwaysRunTheRelease == ReleaseSpec => []LaunchersRunTheRelease
<1>1. ReleaseInv => LaunchersRunTheRelease
  BY DEF ReleaseInv, DownloadsAreGenuine, Genuine, Matches, LaunchersRunTheRelease
<1>2. QED
  BY <1>1, InitRelease, StepRelease, PTL DEF ReleaseSpec
=============================================================================
