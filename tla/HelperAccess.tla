---------------------------- MODULE HelperAccess ----------------------------
(* Which requests the helper serves: ServeHTTP and browserRcon of            *)
(* src/helper/main.go, as a function from a request to what becomes of it.   *)
(*                                                                           *)
(* A helper has a secret, paired and browserConnect.  newHelper and main     *)
(* draw the code, the cookie value and the token at random; one number       *)
(* stands for the three of a run, and 0 is no secret, or a wrong one.        *)
(* Origins are "none", "own" (http:// and the loopback authority), "site"    *)
(* (the website of --site) and "other"; a Host or an absolute URL that is    *)
(* not the literal authority is "other".                                     *)
EXTENDS Naturals

Secrets(issued) == issued \cup {0}

HttpRequests(issued) ==
  [host : {"own", "other"}, origin : {"none", "own", "site", "other"},
   path : {"start", "rcon", "workshop", "api", "asset", "root"},
   method : {"GET", "HEAD", "POST", "OPTIONS", "PUT"},
   asks : {"GET", "POST", "PUT"},           \* Access-Control-Request-Method
   headers : {"allowed", "blocked"},        \* Access-Control-Request-Headers
   code : Secrets(issued), cookie : Secrets(issued), bearer : Secrets(issued)]

(* subtle.ConstantTimeCompare against a secret of this run.                  *)
Authenticated(helper, request) == request.cookie = helper.secret
Redeems(helper, request) == ~helper.paired /\ request.code = helper.secret

Start(helper, request) ==
  CASE request.method # "GET" -> "METHOD_NOT_ALLOWED"
    [] request.method = "GET" /\ Redeems(helper, request) -> "paired"
    [] request.method = "GET" /\ ~Redeems(helper, request) ->
         IF Authenticated(helper, request) THEN "redirect" ELSE "PAIRING_EXPIRED"

RconEndpoint(method) ==
  CASE method = "GET" -> "settings"
    [] method = "POST" -> "rcon"
    [] OTHER -> "METHOD_NOT_ALLOWED"

(* Bug: the local workspace answers a browser that has no session.           *)
BugWorkspace(helper, request) ==
  CASE request.path = "rcon" -> RconEndpoint(request.method)
    [] OTHER -> "SESSION_REQUIRED"

(* The local workspace, which wants the cookie.                              *)
Workspace(helper, request) ==
  CASE ~Authenticated(helper, request) ->
         IF request.path = "root" /\ request.method = "GET" THEN "locked" ELSE "SESSION_REQUIRED"
    [] Authenticated(helper, request) /\ request.path = "rcon" -> RconEndpoint(request.method)
    [] Authenticated(helper, request) /\ request.path # "rcon" ->
         CASE request.path = "workshop" /\ request.method = "POST" -> "workshop"
           [] request.path \in {"root", "asset"} /\ request.method \in {"GET", "HEAD"} -> "proxy"
           [] OTHER -> "METHOD_NOT_ALLOWED"

Preflight(request) ==
  CASE request.asks \notin {"GET", "POST"} -> "METHOD_NOT_ALLOWED"
    [] request.asks \in {"GET", "POST"} ->
         IF request.headers = "blocked" THEN "HEADER_BLOCKED" ELSE "preflight"

(* The paired website, which wants the token (browserRcon).                  *)
BrowserRcon(helper, request) ==
  CASE request.path # "rcon" -> "PATH_BLOCKED"
    [] request.path = "rcon" /\ request.method = "OPTIONS" -> Preflight(request)
    [] request.path = "rcon" /\ request.method # "OPTIONS" ->
         IF request.bearer = helper.secret THEN RconEndpoint(request.method) ELSE "PAIRING_REQUIRED"

Serve(helper, request) ==
  CASE request.host # "own" -> "HOST_BLOCKED"
    [] request.host = "own" /\ helper.browserConnect /\ request.origin = "site" ->
         BrowserRcon(helper, request)
    [] request.host = "own" /\ ~(helper.browserConnect /\ request.origin = "site") ->
         CASE request.origin \notin {"none", "own"} -> "ORIGIN_BLOCKED"
           [] request.origin \in {"none", "own"} ->
                IF request.path = "start" THEN Start(helper, request) ELSE Workspace(helper, request)

-----------------------------------------------------------------------------
(* Nothing of the helper is used without a secret of its own run: the local  *)
(* workspace by the browser that holds its cookie, and /api/rcon alone by    *)
(* the website, with its token; and only the first visit with the pairing    *)
(* code gets the cookie (main.go lines 186-303).                             *)
ServedOnlyWithSecret(helper, request) ==
  LET answer == Serve(helper, request) IN
  /\ answer \in {"rcon", "settings", "workshop", "proxy"} =>
       /\ request.host = "own"
       /\ \/ request.origin \in {"none", "own"} /\ request.cookie = helper.secret
          \/ /\ helper.browserConnect /\ request.origin = "site"
             /\ answer \in {"rcon", "settings"} /\ request.bearer = helper.secret
  /\ answer = "paired" =>
       ~helper.paired /\ request.code = helper.secret /\ request.origin \in {"none", "own"}
=============================================================================
