---------------------------- MODULE HostedAccess ----------------------------
(* Which requests the hosted route serves, and which names it lets them go   *)
(* to: the guards of POST in src/app/api/rcon/route.ts and what stands       *)
(* before the name server in resolvePublicRconHost (src/lib/server/          *)
(* security.ts), as functions of a deployment and a request.                 *)
(*                                                                           *)
(* A deployment is its environment: RCON_PUBLIC_ORIGIN, RCON_RELAY_SECRET    *)
(* (0 is none), the entries of RCON_ALLOWED_HOSTS, RCON_ALLOW_PRIVATE, and   *)
(* whether it is a development server that may reach its own network.        *)
(* An origin is a scheme and an authority; <<>> is a header, or a variable,  *)
(* that is absent, and <<"null">> one that is no URL.  A host is the labels  *)
(* of a name or the parts of an address; <<>> is none of the two.  An entry  *)
(* is such labels, perhaps after "*.".                                       *)
EXTENDS AddressPolicy, SequencesExt

Entry(wildcard, labels) == [wildcard |-> wildcard, labels |-> labels]

Parses(origin) == Len(origin) = 2

(* The Host header, "garbled" if it holds more than an authority, and in its *)
(* absence what Next makes of the request's URL.                             *)
AuthorityOf(request) == IF request.host = "none" THEN request.url[2] ELSE request.host

ExpectedOrigin(deployment, request) ==
  IF deployment.publicOrigin # <<>> THEN deployment.publicOrigin
  ELSE <<request.url[1], AuthorityOf(request)>>

IsSameOriginRequest(deployment, request) ==
  /\ ~request.crossSite
  /\ \/ request.origin = <<>>
     \/ /\ AuthorityOf(request) # "garbled"
        /\ Parses(request.origin) /\ Parses(ExpectedOrigin(deployment, request))
        /\ request.origin = ExpectedOrigin(deployment, request)

(* Equal digests: equal texts.                                               *)
RelaySecretMatches(provided, expected) == provided = expected

(* Bug: the access key is asked for only where an origin is told.            *)
BugPost(deployment, request) ==
  IF ~IsSameOriginRequest(deployment, request) THEN "ORIGIN_BLOCKED"
  ELSE IF /\ deployment.secret # 0 /\ request.origin # <<>>
          /\ ~RelaySecretMatches(request.key, deployment.secret) THEN "INVALID_RELAY_KEY"
  ELSE "served"
Post(deployment, request) ==
  IF ~IsSameOriginRequest(deployment, request) THEN "ORIGIN_BLOCKED"
  ELSE IF deployment.secret # 0 /\ ~RelaySecretMatches(request.key, deployment.secret)
    THEN "INVALID_RELAY_KEY"
  ELSE "served"

-----------------------------------------------------------------------------
Covers(entry, host) ==
  IF entry.wildcard THEN IsStrictSuffix(entry.labels, host) ELSE entry.labels = host

EnforceAllowlist(deployment, host) ==
  deployment.allowed # {} => \E entry \in deployment.allowed : Covers(entry, host)

(* Bug: a wildcard names a private server too.                               *)
BugExplicitlyAllowed(deployment, host) ==
  deployment.allowPrivate /\ \E entry \in deployment.allowed : Covers(entry, host)
ExplicitlyAllowed(deployment, host) ==
  deployment.allowPrivate /\ Entry(FALSE, host) \in deployment.allowed

ResolvePublicRconHost(deployment, host, answers) ==
  IF host = <<>> THEN [error |-> "INVALID_HOST"]
  ELSE IF ~EnforceAllowlist(deployment, host) THEN [error |-> "HOST_NOT_ALLOWED"]
  ELSE HostedResolve(answers, deployment.development \/ ExplicitlyAllowed(deployment, host))

-----------------------------------------------------------------------------
(* A page of another site is served nowhere, whatever name the deployment is *)
(* reached by, and nobody without the access key of a private one.           *)
ServedOnlyWithKey(deployment, request) ==
  Post(deployment, request) = "served" =>
    /\ deployment.secret # 0 => request.key = deployment.secret
    /\ request.origin # <<>> =>
         IF deployment.publicOrigin # <<>> THEN request.origin = deployment.publicOrigin
         ELSE request.origin[2] \in {request.host, request.url[2]}

(* The two readings of RCON_ALLOWED_HOSTS agree: a name that may be private  *)
(* is a name that may be reached; and outside development no wildcard opens  *)
(* the local network: what is reached there is reached without it.           *)
PrivateOnlyByName(deployment, host, answers) ==
  LET plain == [deployment EXCEPT !.allowed = {e \in @ : ~e.wildcard}]
      reached == ResolvePublicRconHost(deployment, host, answers)
  IN /\ ExplicitlyAllowed(deployment, host) => EnforceAllowlist(deployment, host)
     /\ /\ "address" \in DOMAIN reached /\ ~deployment.development
        /\ ~IsPublicAddress(reached.address)
        => /\ plain.allowed # {} /\ deployment.allowPrivate
           /\ ResolvePublicRconHost(plain, host, answers) = reached
=============================================================================
