# Verification of cs2-rcon

TLA+ models of the parts of cs2-rcon that run concurrently, talk to an
unreliable peer, or keep a limit; TLC configurations that check them on small
instances; and TLAPS proofs for every value of the constants. Everything is
translated from the source; where a property quotes a document or a comment, the
quotation is given with it.

    tlc -workers 2 -config RconSession.cfg MCRconSession
    tlapm RconSession_proofs.tla

## 1. The system

A browser page manages Counter-Strike 2 servers. Its requests go to a Next.js
route (`POST /api/rcon`), or to a helper program on the user's machine, and
either of them opens a Source RCON session over TCP to the game server.

    dashboard ── requestRcon ──┬── POST /api/rcon ── ConnectionLimiter
    (browser)                  │         └── executeRconCommands ── TCP ── game server
       │                       └── helper (Go, loopback) ── executeCommands ─┘
       ├── localStorage (one document, shared by the tabs)
       └── POST /api/workshop ── Steam (titles of Workshop maps)

| component | state it keeps | operations | what is hard about it |
|---|---|---|---|
| RCON session, `lib/server/rcon.ts` | socket, packet queue, one parked reader, terminal error, bytes received, results | connect, authenticate, execute a command, close; callbacks data, close, error, timers, abort | five sources may settle one promise; a response has no end marker; answers come late; a transition kills the connection |
| Connection limiter, `lib/server/limits.ts` | map of buckets (count, active, failures, expiry) | acquire, release, authenticationFailed | buckets expire while held; the map is bounded |
| RCON route, `app/api/rcon/route.ts` | none but the limiter | POST | slots must come back on every path of overlapping handlers |
| Dashboard session, `components/rcon-dashboard.tsx` | session version, abort controller, in-flight marker, React state, local storage, closures of dialogs | connect, switch, disconnect, poll, console, lists, dialogs, delete, clear, unmount | continuations of old sessions; closures over old renders; cancellation |
| Helper session, `helper/rcon.go` | connection, read deadline | as the RCON session | a deadline in the middle of a packet; context and deadline race |
| Helper server, `helper/main.go` | pairing, semaphore, attempt buckets | pair, rcon, status, every other path | buckets deleted while in use; two kinds of clients on one port |
| Transport choice, `lib/helper-install.ts`, `connection-panel.tsx`, `helper-launcher.tsx` | pairing in a module variable, the state of each mounted form | pair, leave, submit, route a request | a live session's route changes under it; two forms; the helper restarts |
| JSON body reader, `lib/server/request.ts` | chunks, timer | readJsonBody, readJsonStream | timer, abort and last chunk race |
| Workshop route, `app/api/workshop/route.ts` | one slot of its limiter | POST | two bodies read by one function, under different signals |
| Address policy, `lib/server/security.ts`, `helper/rcon.go` | none | origin, access key, address classes | one policy written twice, in two languages |
| Local storage, `lib/storage.ts` and the dashboard's changes to it | one JSON document | load, save, every change | writes fail, tabs crash, other tabs overwrite, documents of earlier pages |
| Helper release build, `scripts/build-helper.mjs`; installer, `public/relay/install.sh` | files | stage, publish, download | half-done or concurrent publication under a downloader |
| Parsers of lists, `lib/parsers.ts`, and their table, `maps-view.tsx` | none | merge players with ids, maps with maps | two snapshots of one server, in different orders |
| Text extraction, commands, demo, views, PowerShell installer | none that matters | text and presentation | reached well by unit tests |

How they interact: the dashboard awaits `requestRcon`; the route holds one
global slot from arrival to response, and a slot of the resolved address while
`executeRconCommands` runs; the abort signal of the fetch, joined with a
25-second timeout, reaches the session and destroys its socket; an
`AUTH_FAILED` of the session is counted against the address before the slots
are returned.

What makes each component correct:

* session: no lost wake-up; a command's text is only ever that command's; a
  level transition is reported as dispatched only if the write of the command was
  reported as done, and the connection broke if it was not (see Findings);
  cancellation is final; every batch ends with its socket destroyed;
* limiter and route: slots held are slots counted; ceilings on concurrency and
  password guesses; no wrong password is lost; the map never locks everyone out;
* dashboard: target and password always belong together; nothing of an old
  session is shown or runs on; polls never overlap, none leaves a marker that
  stops the next ones, and no spinner stays on;
* helper: the promises of the session and of the route, made again in Go;
* transport: a session opened through the helper never falls back to the website,
  and a run of the helper serves only pages it was opened to;
* stored document: a reload shows what was saved, no password stays without
  consent, a deleted profile stays deleted;
* body reader and Workshop route: a body cut off is never parsed, and the client
  is blamed only for its own; the slot always comes back;
* release build: whole releases, never replaced, and launchers run their bytes;
* lists and addresses: a Steam id goes to its player only, every map can be
  loaded, and the helper's address policy allows what the hosted one does, which
  makes exceptions for local names only.

`PROJECT.json` lists the hazards behind these, each at its line, with the
properties that cover it.

## 2. Modules

| module | models | source |
|---|---|---|
| `CommandBatch` | abstract promise of `executeRconCommands` to its caller | `rcon.ts` |
| `GameServer` (external) | the peer, and the stream to it | the protocol as `rcon.ts` uses it |
| `RconSession` | one call of `executeRconCommands` | `rcon.ts` |
| `RconSession_proofs` | its theorems | |
| `ConnectionLimiter` | the class, as functions on its map | `limits.ts` |
| `RconRoute` | overlapping `POST` handlers on one limiter | `route.ts` |
| `RconRoute_proofs` | its theorems | |
| `RconResponse` | locals of the response loop, shared by both sessions | `rcon.ts`, as `rcon.go` |
| `PacketDecoder` | `RconPacketDecoder.feed` on a stream cut anywhere | `rcon.ts` |
| `HelperSession` | one call of the helper's `executeCommands` | `helper/rcon.go` |
| `HelperSession_proofs` | its theorems | |
| `HelperRoute` | overlapping `rcon` handlers of the helper | `helper/main.go` |
| `HelperRoute_proofs` | its theorems | |
| `HelperAccess` | `ServeHTTP` and `browserRcon` as a function of a request | `helper/main.go` |
| `Transport` | forms, pairing, a session and its requests against a restarting helper | `helper-install.ts`, `connection-panel.tsx`, `helper-launcher.tsx` |
| `Transport_proofs` | its theorems, and those of `HelperRelease` | |
| `JsonBody` | `readJsonStream` | `request.ts` |
| `WorkshopRoute` | one `POST` handler, with both bodies it reads | `workshop/route.ts` |
| `LocalState` | the stored document, its tab and the changes to it | `storage.ts`, `rcon-dashboard.tsx` |
| `LocalState_proofs` | its theorems | |
| `HelperRelease` | builds, a publication and launchers | `build-helper.mjs`, `install.sh` |
| `AddressPolicy` | both address policies | `security.ts`, `rcon.go` |
| `HostedAccess` | origin check, access key and host allowlist, as functions of a request | `route.ts`, `security.ts` |
| `ServerLists` | the merges of players and of maps, map commands | `parsers.ts`, `commands.ts` |
| `MapTable` | sorting, pages, selection and favourites of the table of maps | `maps-view.tsx` |
| `Boundary` | the stateless parts and the decoder, one input at a time | |
| `Boundary_proofs` | its theorems, and that of `WorkshopRoute` | |
| `DashboardSession` | session logic of the page | `rcon-dashboard.tsx` |
| `DashboardSession_proofs` | its theorems | |
| `MC*` | batches, inputs and symmetry sets for TLC | |

Compositions: `RconSession` and `HelperSession` each run with `GameServer` and
share `RconResponse`; `RconRoute` runs on `ConnectionLimiter`; `WorkshopRoute`
on `JsonBody`; `Transport` puts its requests to `HelperAccess`; `Boundary`
extends `HostedAccess` (on `AddressPolicy`), `HelperAccess`, `MapTable` (on
`ServerLists`) and `PacketDecoder`. `HelperRelease` runs alone. The `Init`, `Next`
and `Spec` of `HelperRelease` and `Boundary` carry a prefix, because one module holds
the proofs of `Transport` and `HelperRelease`, and one those of `Boundary` and
`WorkshopRoute`.

### RconSession, GameServer, CommandBatch

JavaScript runs to completion between awaits. `pc` names the await at which
`executeRconCommands`, `authenticate` or `execute` stands, or the step it takes
next; an event of the socket, a timer or the signal is handled only while the
session is `Parked`. Continuations are the disjuncts of `SessionStep`, callbacks
those of `SessionEvent`:

| code | model |
|---|---|
| `connect` (123-165) | `Connect`, `SocketConnect`, `ConnectTimer`, `ConnectError`, `ConnectClose` |
| `authenticate` (167-182) | `AuthSend`, `AuthRead`, `AuthPacket`, `AuthRejected`, `AuthLoop` |
| `execute` (184-253) | `NextCommand`, `ProbeSend`, `ResponseRead`, `ResponsePacket`, `ResponseRejected`, `ResponseLoop` |
| `write` (266-278) | `StartWrite`, `WriteOk`, `WriteFails` |
| `readPacket`, its timer, `onData`, `pumpQueue`, `onTerminalError` (280-327) | `ReadPacket`, `ReadTimer`, `OnData`, `OnTerminalError` |
| `abort` (115-119), `close` | `Abort`, `Finish` |

A write resumes either through its callback (`WriteOk`) or with an error
(`WriteFails`), and the order of the socket's `error` and `close` events
relative to it is the event loop's. A socket that broke or was destroyed cancels
its pending write, and the callback then reports no error: `confirmed` has the
requests whose callback did not, `unsent` those of them that were cancelled. Time is not counted: a timer that is set may
fire at any moment, and a test of the clock may go either way.

`GameServer` takes requests in order, answers a command with fragments of the
sizes in `FragmentSizes` and a probe with an empty packet and the terminator, may
ignore either or never act again, and at most `MaxFaults` times sends a foreign or
malformed packet. Packets arrive whole, which is what `PacketDecoder` shows of the
hosted session's decoder; `HelperSession` has its own reads. Sizes are units of the 2,000,000-byte limit,
so a fragment of 2 with `ResponseLimit` 2 fills the limit exactly and a second
one crosses it.

`CommandBatch` is what a caller may rely on: commands are issued in order, at
most once each, each after the reply of the one before, and only a batch that
got all replies is "ok". `RconSession` implements it under the refinement
mapping at the end of its module (`ImplementsCommandBatch`): the commands among
the requests written, the kinds of the results, and the verdict. TLC checks it on
the runs' batches, the proof covers every batch. The 4,000-byte limit
of the route makes the `COMMAND_TOO_LONG` path unreachable through it; it is kept
because it is an error path of `executeRconCommands` itself.

### ConnectionLimiter, RconRoute

The limiter's methods never await, so each is a function from the map before to
the map after (`AfterAcquire`, `AfterRelease`, `AfterFailure`), with `Sweep`,
`Stale` and `Current` for the sweep and the restart of an expired bucket. A
release closure holds the bucket object; the model updates the map entry and
leaves the map alone when there is none, which is right exactly because
`Stale` keeps a bucket in use (`SlotsAccounted` would fail otherwise).
`RconRoute` has one action per run between awaits of the handler: `Arrive`,
`Body`, `Dns`, `Executed`, `AuthFailed`; `Tick` moves the clock. What comes
before the first acquire changes no state. An identifier in `Requests` is reused
after its response, so the number of requests is not bounded, only their overlap.

### PacketDecoder

One action, `Feed(n)`: the next `n` bytes of the stream. The i-th byte of the
k-th packet is `<<k, i>>`, and only what `feed` looks at is given a meaning: the
size prefix and the terminators. `Turn` is one turn of the loop of `feed`. A turn that
ends the loop changes nothing, and one that does not takes a byte at least, so
`Decode` is what as many turns as there are bytes make of them.

### HelperSession

A goroutine over blocking calls, so there is no queue and no waiter: `pc` is the
call it is blocked in, `err` what that call returned, `WriteFailed` and
`ReadFailed` are the error branches with `socketFailure`.

| code | model |
|---|---|
| `executeCommands` (196-204), the prelude of `executeSession` | `Dial`, `SendAuth` |
| the loops of `executeSession` (220-244) | `Handle`, `NextCommand`, `BatchEnd` |
| `write` (133-149) | `Write` |
| `read` (150-172) with its deadline | `ReadPacket`, `ReadRest`, `ReadExpires`, `ReadEnds` |
| `execute` (246-311) | `NextCommand`, `SendProbe`, `Handle`, `WriteFailed`, `ReadFailed` |
| `context.AfterFunc` (207) and the caller | `CloseConn`, `Cancel` |

Cancelling and closing the connection are two steps of other goroutines, so a read
may fail before the context is seen as cancelled or after it. A deadline may expire
inside a packet: `misaligned` says that the next read starts in the middle of one.
What such a read makes of the bytes is left open (`ReadRest`): an invalid size, or a
"packet" that swallows any number of those that follow. It cannot be a packet of the
current command, whose id is random. `HelperSession` implements the same
`CommandBatch` as `RconSession`.

### HelperRoute

One action per run of the handler between blocking calls; `Acquire` is the
critical section with the sweep, the capacity, the new bucket and the block. A
request keeps a pointer to its bucket: `target` is the bucket's key, `detached`
says it is no longer the one in the map. `InTime` is the 25-second context: the
clock does not pass the deadline of a lookup or a session. (`HelperSession`
shows why a session ends with its deadlines, which `deadline()` caps at that of
the context.)

### HelperAccess, Transport

`HelperAccess` is a function: what `ServeHTTP` makes of a request, from its host,
origin, path, method and the secrets it carries. One number stands for the
three secrets of a run of the helper.

`Transport` keeps the module variables of `helper-install.ts` (`token`,
`known`), the state of each connection form (`panels`: `local` is
`localHelper`, `check` the settings request of the form's effect), and of the
dashboard only what mounts the forms and versions the session. `Route` is
`fetchRcon`: where a request goes and which token and cookie it carries; the access
key decides nothing here and is left out. Sessions begin with a form (`Submit`) or
with a saved profile (`SwitchProfile`). The helper stops and starts at any moment;
a new run has new secrets. The answer of a request is what `HelperAccess` says of it
when it is given. As an answer may be given before the helper stops and be read after
it, reading it later is no further case. `Renders` mounts and unmounts the forms as
React does; a launcher that is unmounted goes on pairing with no form to tell.

### JsonBody, WorkshopRoute

The chunks, the timer, the signal and the sender are the actions. Cancelling a
reader makes its pending read report "done", as the end of the body does; that
and the flag the timer sets are what `VerdictIsRight` is about. Contents are left
open: a whole body may or may not be JSON. `WorkshopRoute` reads the client's
body with it and then, under a signal an 8-second timer aborts too, Steam's.

### LocalState

`stored` is the React state, `disk` the item in `localStorage`, `dirty` the saving
effect that has not run. One action per handler of the dashboard that changes
profiles, active profile or history, up to its await, and one per continuation
(`ConnectSucceeds`, then `SaveProfile` in a microtask of its own). A write may
fail, a tab may close or crash anywhere, and another tab may write a document
it loaded. `Documents` are what earlier pages or hands left on the disk, which
`LoadStoredState` has to make sense of; their entries have ids of their own, as
those `makeId` gives have. The answers of quick commands and of a staged game mode
(`RunQuick`, `StageGameMode`) add entries while a console command waits for its own.
`list.filter` is the recursive function `Filtered`.

### HelperRelease

The files of a release in the order they are written; a build may fail or be
killed between any two, two builds of a version may pass the check for an
existing release at once, and launchers download archive and checksum at any two
moments. A directory cannot be renamed onto one that is not empty.

### AddressPolicy, HostedAccess, ServerLists, MapTable, Boundary

Pure functions, as operators. An address is its octets or groups. Rows, clients
and maps are records of what the regular expressions matched; their extraction
from text is not modelled. `HostedAccess` is what the hosted `POST` decides before
its body is read, and what stands before the name server: a deployment is its
environment, an origin its scheme and authority, a host its labels. `MapTable` is
what the table of maps shows and selects; where `localeCompare` puts a map is the
constant `Place`; what `sort` makes of a list is said by the number of maps that come
before each (`Rank`), ties in the order of the list. `Map.set` and the loops over
clients and over the inventory are functions of how many entries they have gone
through (`UniqueUpTo`, `EnrichedUpTo`, `MergedUpTo`). `Boundary` feeds them every
input of a set and cuts the decoder's stream in every way.

### DashboardSession

Refs (`version`, `controller`, `aborted`, `statusInFlight`) are seen by every
closure at once; React state is what the next render shows; a dialog keeps the
profile and the password of the render that opened it; a task keeps what its
async function captured. One action per handler up to its first await and one
per continuation. A password is named by the server that accepts it, so "target
and password belong together" is an equality. The page, the stored profiles and
saved passwords start in every state `lib/storage.ts` can return (`LocalState`). `requestRcon`
sends more than eight commands as several requests one after the other under
the same signal; that is one task here. The console history is in `LocalState`; favourites, toasts and
layout are left out; what the views disable is in the guards.

## 3. Runs

| run | distinct states | what it shows |
|---|---|---|
| `RconSession` | 1,033,988 | `TypeOK`, `ParkedReader`, `ResponsesMatchServer`, `DelimitedIsWhole`, `DispatchedUnlessBroken`, `CancellationIsFinal`, the refinement `ImplementsCommandBatch` and, under fairness, `Terminates` |
| `RconRoute` | 27,752 | `SlotsAccounted`, `GuessesBounded`, `CapacitySuffices`, `FailuresCounted` |
| `DashboardSession` | 685,327 | `CredentialsMatchTarget`, `ShownIsOfSession`, `CommandsGoToSession`, `OldRequestsCancelled`, `BusyHasOwner` |
| `HelperSession` | 263,636 | `TextIsOwn`, `DispatchedMeansWritten`, the refinement `ImplementsCommandBatch` and, without a cancellation, `Terminates` |
| `HelperSession_misaligned` |  | violation of `InvalidIsTheServers`, see Findings |
| `HelperRoute` | 466,416 | `GuessesBounded`, `LostAttemptsEndSoon` |
| `Transport` | 2,296,838 | `FailsClosed`, `OnlyAdmittedRunsServe`, `OneFormTellsTheTruth` |
| `Transport_twoforms` |  | violation of `FormTellsTheTruth`, see Findings |
| `WorkshopRoute` | 2,738 | `AnswerFitsTheBody` and, under fairness, `AlwaysReleases` |
| `LocalState` | 1,782,726 | `ReloadRestores`, `PasswordsKeptByConsent`, `EntriesTellTheTruth`, `DeletedStaysDeleted` |
| `HelperRelease` | 100,480 | `ReleaseIsFinal`, `LaunchersRunTheRelease` |
| `Boundary` | 277,365 | `AddressesJudgedAlike`, `EveryRequestNeedsSecret`, `SteamIdsAreTheirOwn`, `EveryMapCanBeLoaded`, `DecodesTheStream` |

Bounds, and why they are enough:

* session: a plain command and a level transition are the least for a late answer
  to meet the next command and for both outcomes of a lost connection; the third
  command is too long to encode and ends the batch. Two fragments of size 0 or 2
  against a limit of 2 give an empty response, one that fits exactly, one that is
  cut, and an empty fragment before the end. One fault is a foreign or a malformed
  packet; silence, ignored requests and a lost connection are not counted. A queue
  of 3 packets overflows, and the session's cap of 6 is met.
* route: seven keys, six targets and the global one, for six places in the map; two
  requests, so that both can hold one target or two; two windows of two ticks
  and the first instant of a third, so that a bucket expires while held. An entry
  lives at most until the end of the window after it stopped being used, so the
  map holds at most two windows of requests, those in flight and the global
  entry: `2 * 240 + 12 + 1 = 493` in production, where there is room for 1,000. The
  bound of 6 is tight for a rate of 2: with a capacity of 5 the property fails.
  (`CapacityAlwaysSuffices` asks for one place more, because it counts those in
  flight and the windows' requests apart.)
* decoder: prefixes of 2 bytes and packets of up to 4 so that a cut falls
  inside each; sizes on both sides of both limits; three packets so that one
  ends, one begins and one lies between the cuts of a chunk.
* helper session: up to two fragments of size 2 against a limit of 3, so that one is
  whole, the second is cut and their order can be confused; with the two packets of
  the probe that is enough for a deadline between and inside the packets of a
  response, and a second command is what it takes to see the rest of one. Empty
  fragments and exact fits are the business of `RconResponse`, which `RconSession`
  checks with both.
* helper route: three targets for two places in the map, two slots of three
  requests, a window of two timeouts and nearly two windows of time, so that a
  bucket is deleted, made again and deleted while attempts of the first run.
* transport: two runs of the helper (a restart), three sessions (an old one, the one
  that replaced it and one after that), two requests in flight, which is what a race
  of any two takes; both forms, always. The theorems lift all three bounds.
* Workshop route: chunks of up to 3 against a limit of 4 meet it exactly and cross
  it, in the last chunk and before.
* stored document: two profiles with room for two, so that a mix-up of two is
  possible and the disk may hold one too many; a history of two entries. Connections
  and commands may start until two entries were made, other answers until four: a
  connection, a command and two answers are what it takes to move the entry of a
  command that runs down and to push it out; two documents to begin with, none and
  one with every irregularity: a reserved id, a password without consent, a
  profile above the limit and a spinner of an earlier page.
* release: two builds race for one version and two launchers download it; two
  targets, so that one is not the other. The theorems lift all of these.
* boundary: addresses at both sides of every edge of every range of both
  policies, up to three answers of a name server drawn from ten addresses; two
  rows and two clients of two names; two lists of up to two maps, and tables of up
  to four, of which three may share a name, on pages of one to three rows. Every
  request to the helper over all hosts, origins, paths, methods and secrets, and to
  the hosted route of deployments with and without an origin, a key, a list of hosts
  and private access.
* dashboard: three sessions give an old one, the one that replaced it and one
  after that; two profiles and two servers are what a mix-up takes (a profile can
  also be pointed at the other server); two operations in flight give the race of
  any two. Of the four loadable lists, "maps" (with its second await) and "mode"
  (loaded by two actions) are the ones whose code differs.

`CHECK_DEADLOCK FALSE` appears for the dashboard (the page may be closed and the
number of sessions is bounded), the release (everybody may be done) and the
boundary (an input is looked at once): these really stop. A finished session or
request stutters explicitly (`Done`, `Answered`).

Every property has a mutant in `PROJECT.json`: a change of the model such as a
plausible bug of the code would make, after which TLC finds that property violated.

### Fairness

* `RconSession`: the event loop runs every continuation; a timer that is set
  and not cleared fires; the route always passes a signal with
  `AbortSignal.timeout`, which fires; Node completes write callbacks of a socket
  that was destroyed. Nothing is assumed of the server or the network. The abort
  is needed: a write has no timer of its own, so it alone ends a batch whose peer
  stops reading.
* `HelperSession`: the goroutine runs on, and a deadline set on the connection
  expires. No cancellation is needed.
* `WorkshopRoute`: continuations run, the body's 5 seconds and the fetch's 8
  pass, and an aborted fetch rejects. Nothing is assumed of the client or of Steam.

The other modules state safety only. In particular `BusyHasOwner` replaces "no
spinner stays on" by what it rests on: each flag has a running operation that
clears it, and every operation has a timeout.

### Findings

The helper gives a response that has begun 900 ms of quiet (`helper/rcon.go:268-272`)
by a deadline on the connection. If it expires while a packet is half there,
`io.ReadFull` has consumed that half: `execute` returns the command as answered, and
the next command reads the other half as a size prefix. It then fails with
"Server returned an invalid RCON packet size." (`helper/rcon.go:157`), or skips
packets until it times out, though the server did nothing wrong.
`HelperSession_misaligned` shows the trace, `TextIsOwn` that no wrong text comes
of it. The hosted decoder keeps partial packets (`rcon.ts:82`) and is not exposed.

The connection form is on the welcome page and, once that page is left, in a
dialog as well; both may be mounted. Leaving the helper in one
(`connection-panel.tsx:143`) clears the page's pairing and that form's own copy of
it; the other form goes on showing "Local helper connected. RCON stays on this
device." (`connection-panel.tsx:202`) while what it submits goes to the hosted
route. `Transport_twoforms` shows the trace; with one form at a time the sentence is
true (`OneFormTellsTheTruth`).

Not runs of their own, but differences worth knowing:

* "A transition is only dispatched once the command itself has been written"
  (`rcon.ts:194`) does not hold of a command whose write still waits in a full send
  buffer when the peer resets the connection. Node completes a cancelled write
  without an error (`rcon.ts:272-277`), the session goes on to the probe, finds
  `CONNECTION_CLOSED` and reports "dispatched". Stated without this case the
  property fails in TLC: `SocketClose` while the command is being written, `WriteOk`,
  `ProbeSend`. `DispatchedUnlessBroken` is what the code keeps: the command is then
  the last of its batch, and no cancellation leads there.
* `docs/deployment.md:64`: "Five failed authentications cause a one-minute
  backoff window." The failures live in a fixed window that starts with the
  target's first request (`limits.ts:18-21`) and are reset when it ends, so the
  back-off lasts what is left of the minute. `GuessesBounded` says what holds.
* A profile beyond the fiftieth is written but dropped by the next load
  (`storage.ts`); `ReloadRestores` excepts it.
* A profile deleted while its own save-and-connect is in flight and another profile
  is active comes back (`rcon-dashboard.tsx:381-397`, `859-873`);
  `DeletedStaysDeleted` excepts it.
* The console entry of a command whose session ended keeps its "pending" mark
  (`rcon-dashboard.tsx:329`); `EntriesTellTheTruth` excepts entries of earlier sessions.
* No tab listens to `storage` events: the last to write wins, and `ReloadRestores`
  speaks of tabs no other tab overwrote.
* An IPv6 address with a zone is judged without it by the hosted route
  (`expandIpv6` drops the zone) and refused by the helper; `HostedWithinHelper`
  excepts zones.
* `mergeServerMaps` takes a map name of digits for a Workshop id;
  `EveryMapCanBeLoaded` is stated on that understanding.

A smaller thing, by design of the helper: a wrong password is not counted if its
bucket turned a minute old during the attempt. `LostAttemptsEndSoon` bounds it: such
an attempt is over one timeout after the new bucket was made.

## 4. Proofs

| theorem | states, for every value of the constants |
|---|---|
| `TypeCorrect` | the session's type invariant, the game server's part included |
| `NoLostWakeup` | `ParkedReader`: a parked reader has nothing to read and no error to report |
| `CancellationFinal` | `CancellationIsFinal`, an action property |
| `BatchImplemented` (of both sessions) | `ImplementsCommandBatch`: each session refines `CommandBatch` |
| `DispatchedAlwaysConfirmed` | `DispatchedUnlessBroken` |
| `DispatchedAlwaysWritten` (of the helper) | `DispatchedMeansWritten` |
| `ResponsesAlwaysMatch` | `ResponsesMatchServer`: the text of a result is the server's answer to its command, as far as it goes |
| `DelimitedAlwaysWhole` | `DelimitedIsWhole`: a terminated response is all of it |
| `TextAlwaysOwn` | the helper's `TextIsOwn` |
| `RouteInvariant` | the inductive invariant of the route |
| `RouteTypeCorrect`, `SlotsAlwaysAccounted`, `ConcurrencyAlwaysBounded`, `GuessesAlwaysBounded` | its consequences |
| `FailuresAlwaysCounted` | `FailuresCounted`, an action property |
| `CapacityAlwaysSuffices` | `CapacitySuffices`, if `Capacity > 2 * GlobalRate + GlobalActive` |
| `CredentialsAlwaysMatch`, `ShownAlwaysOfSession`, `CommandsAlwaysGoToSession`, `OldRequestsAlwaysCancelled`, `BusyAlwaysHasOwner` | the five properties of `DashboardSession` |
| `ReloadAlwaysRestores`, `PasswordsAlwaysByConsent`, `EntriesAlwaysTellTheTruth`, `DeletedAlwaysStaysDeleted` | the four properties of `LocalState` |
| `GuessesAlwaysBounded`, `LostAttemptsAlwaysEndSoon` (of the helper's route) | `GuessesBounded` and `LostAttemptsEndSoon` of `HelperRoute` |
| `AnswerAlwaysFits` | `AnswerFitsTheBody` of the Workshop route |
| `ReleaseAlwaysFinal` | `ReleaseIsFinal`, an action property |
| `LaunchersAlwaysRunTheRelease` | `LaunchersRunTheRelease` |
| `AlwaysFailsClosed`, `OnlyAdmittedRunsEverServe`, `OneFormAlwaysTrue` | the three properties of `Transport` |
| `StreamAlwaysDecoded` | `DecodesTheStream`, for every stream and every way to cut it |
| `HostedAlwaysWithinHelper`, `MappedAlwaysJudgedAsIPv4` | the two statements on single addresses in `AddressesJudgedAlike`, for every address |
| `AddressesAlwaysJudgedAlike` | `AddressesJudgedAlike`, for every list of answers, deployment and name |
| `EveryRequestAlwaysNeedsSecret` | `EveryRequestNeedsSecret`, for every request |
| `SteamIdsAlwaysTheirOwn` | `SteamIdsAreTheirOwn`, for rows and clients of any number, in any order |
| `EveryMapCanAlwaysBeLoaded` | `EveryMapCanBeLoaded`, for lists of any length and pages of any size |

Assumptions: `LimitsAssumption` (of the hosted session), `ResponseAssumption`
(the limits are natural numbers) and `BatchAssumption` of `GameServer` (a finite
batch, fragments of natural size) for the two sessions; `LimiterAssumption` (positive limits, finitely many
targets, the global key none of them, "no entry" no bucket) and
`RouteAssumption` (finitely many overlapping requests); `HelperRouteAssumption`,
the same for the helper; `BodyAssumption` (chunks are not empty);
`ReleaseAssumption` (at
least one target), `TransportAssumption` ("none" is no slot or form),
`DashboardAssumption` (finitely many slots; "none" and the demo are no profile or
server), `StorageAssumption` (a document on the disk is one that the types of
`storage.ts` allow, with entries of other pages whose ids differ),
`DecoderAssumption` (a prefix is not empty, sizes are natural numbers) and
`BoundaryAssumption` (what a name server answers are addresses; deployments, rows and
maps have their fields; a map named by digits that has an id is named by it; what the
inventory lists are Workshop maps; the maps of a table differ in `MapKey` and a page
has a row at least). TLC
evaluates them in the runs of these modules. `CapacityAlwaysSuffices` alone has a
condition of its own, which the limits of `limits.ts` meet (1,000 > 2 * 240 + 12). Any batch, any fragment sizes and any number of requests, targets,
windows and limits are covered, and any number of builds, launchers, helper runs
and requests in flight.

Session. `TypeOK` is inductive by itself; the lemmas `ThrowType` to
`WriteErrorType` say what each shared part of the actions preserves, and
`SessionStepType`, `SessionEventType` and `ServerType` go through the actions.
`ParkedReader` is inductive with it: `waiter` is set only by `ReadPacket`, with an
empty queue and no error, and whatever adds a packet or an error clears it.
`CancellationFinal` needs a strengthening, `CancelInv`: after
`REQUEST_TIMEOUT` became the terminal error the queue is empty, the socket can
never write or deliver again, no packet is settled, and the session is not
at a position from which a result could still be returned. `abort` empties the
queue for this reason, and the invariant breaks if it does not.

Route. `SlotsAccounted` alone is not inductive: a request that executes must hold a
target (`TargetsHeld`), or the release would go to the wrong bucket, and its
active count must be positive for the subtraction to stay a natural number,
which follows from the count being that of the holders. `GuessesBounded` rests
on the same counts: an attempt is admitted only below both limits, and a failure
is counted while its slot is still held, so `failures + active` moves only at
admission. The limiter's operators have their facts as lemmas
(`SweepFacts`, `CurrentFacts`, `AcquireFacts`, `ReleaseFacts`, `FailureFacts`);
`Counting` relates them to cardinalities of sets of requests.

Refinement. `ImplementsCommandBatch` says that `issued`, `replies` and `outcome` of
`CommandBatch` change only as its `Next` allows. What that needs to know of a
session is `StageInv`: how many commands were written and how many results exist
at each position, so that a command is written only when all before it have their
result, and "ok" comes only with all of them. The difficulty lies before the first
command, for it must not be written by a session that the server did not let in:
`WireInv` says that only the oldest request can be the authentication and that
access is not granted while it waits, `GrantInv` that wherever a packet stands that
accepts the client, in the stream, the queue or the reader's hands, access was
granted. From the confirmed write of a command until its result `StageInv` keeps it
among `confirmed`. `UnsentInv` adds that a confirmed command that was cancelled
belongs to a session that has failed and can write no more, and that the only result
such a session may still add is the dispatch of that very command; together they are
`DispatchedUnlessBroken`. The helper's proof follows
the same invariants with blocking calls for awaits; what a misaligned read consumes
only shortens the stream.

Text of the helper. `TextIsOwn` needs to know what may still come. `Coherent` is a
property of the stream at every moment: fragments of one command stand in order, and
the terminator of a response follows the empty packet of its probe. `FreshInv` says
that a command not yet answered has no text anywhere, `ReplyInv` that what comes
continues what was kept, and `HeadInv` that a response which has text is read at
packet boundaries, so that its terminator is recognized and never kept as text. It
is here that a reader which lost its place does no harm: it skips packets, but the
response it waits for has no text until it is aligned again, and a deadline that cuts
a packet also ends that response.

Text of the hosted session. Packets pass from the network to the queue and from there
to `execute`, settled in a promise; `Line` puts the three in one row. Every step
keeps it, takes its first packet, cuts its end off or, if it is the server's, adds to
it (`ContinuationLine` to `ServerLine`), so what must be known is what the line may
hold. `Told` says it of one command: the fragments not yet read, in order, each after
those before it, then the empty packet and the terminator of the probe, which come
after all of them (`Complete`, as long as nothing was cut off). `AnswerInv` joins it to what was read (`Taken`), `UnansweredInv` says that a command
still on its way to the server has nothing in the line, `FutureInv` that later ones
have neither, and `HeadInv` that a terminator at the head of the line is recognized,
because the empty packet before it was read. `ResultsInv` is the property.

Capacity. An entry of the map outlives its request, so no count of the map bounds it.
A token is an entry a sweep would keep or a request that may still make one;
`CapacityOK` bounds the tokens by the requests the current window let in and, until it
ends, those of the window before. The sweep before an entry is made leaves only
entries with tokens (`SweptEntries`).

Dashboard. A handler that continues after an await trusts `version`. The invariant is
what makes that enough. `SignalInv`: the current session's signal is live and every
request runs under its own session's. `TaskInv`: a request of the current version
belongs to its session, or is the one that connects, of which there is one.
`SessionInv` and `DialogInv`: what is shown, and what a dialog would run, is the
session's. `StatusInv` and `BusyInv` tie the marker `statusInFlight` and each flag to
the operation that will take it down; a continuation that clears a flag therefore
never clears another one's.

Stored document. `ProfilesInv`: no profile in memory is the demo's, and a password in
memory is one the user asked to keep; `HistoryInv`: entries differ, none is newer than
the last id made, and only the command that runs is pending; `DeletedInv`: no
connection being made would save a deleted profile, since submitting the form takes
the deletion back. `DiskInv` carries all of this to the disk. `ReloadRestores` then
asks that loading is the identity on such a document: the filter leaves a list alone
in which nothing is to go (`OthersAll`), and the limits and the passwords are met.

Induction over data. The library's induction theorems take an operator, which the
installed provers cannot instantiate. `AlongList` does with sets: of the positions of
a list at which a statement fails there is a least one (`WFMin` on the natural
numbers). `FilteredDef` so derives the equations of a recursive function, `OthersFacts`
and `OthersAll` what it computes for every list; `UptoDef` and `TurnsDef` do it for the
decoder's stream and its loop. This works for recursive functions; `RECURSIVE`
operators stay out of reach.

Helper route. Buckets are deleted while attempts on them run (`detached`), so the
counts of the map alone prove nothing. `SuccessorInv` says that what is in the map
in the place of a deleted bucket was made after these attempts began, and
`TimeInv` that an attempt is over one timeout after it began: together they are
`LostAttemptsEndSoon`. `GuessesBounded` follows from the holders of a bucket being
among those who occupy the helper's slots: failures alone stay below the limit when
an attempt is admitted, and no more than `Slots` can add to them afterwards.

Workshop route. An aborted body must not be parsed; that nothing was lost from one
that is parsed takes the sum of the chunks still pending. Instead of a recursive sum
the invariant claims witnesses: offsets at which each chunk ends (`NothingLost`),
from which the first is taken by a read and to which a chunk sent adds one.
The other half is that while the outcome is open only the timer or the signal
cancels the stream (`ReadInv`), which is where their race with the last chunk is
decided.

Decoder. `DecoderInv` says where the decoder stands: after the packets it returned,
which are valid, with the bytes that came since (`Took`), none of them a whole packet
or a size to refuse (`Stuck`). A chunk adds to these bytes (`PiecesJoin`). `TurnFacts`
is one turn: the packet in front is refused, not whole, or taken; by induction
along the turns, `DecodeFacts` says the same of all of them, and the turns
suffice because packets have a byte at least. That the decoder withholds nothing
follows because the ends of packets grow (`StreamFacts`): the packets that are whole
are just those up to where it stands.

Release. `Inv` adds to the types that what a launcher holds came from the
release that is published now (`DownloadsAreGenuine`). It is inductive because
a release never changes, which `StepPublishes` shows first, from the types alone:
a rename happens only with every file written and onto nothing.

Transport. The three properties follow from one invariant of four parts.
`SecretsInv`: every token and cookie in the page, in a form's check or in a
request is one the user gave this page; since each run has its own secret and
`ServedWithSecret` shows, by cases of the dispatch, that the helper serves nothing
without it, only admitted runs serve. `ClosedInv`: while a session opened through
the helper has not left it, the page still routes to the helper, so requests of
this session do. `FormInv`: with one form at a time, a form that says it uses the
helper is right, and so will be one whose check is still to be answered. The last
needs `MountedInv`, which ties the mounted forms to what is on the screen;
it is proved beside the invariant (`MountedSteps`) and used where a form is operated.

Addresses. TLC tries the edges of the ranges; the proof takes all 2^32 and 2^128
addresses. For IPv4 both policies are conditions on three octets (`Agree4`); for
IPv6 on the two leading groups (`Agree6Groups`), with the blocked prefixes
written out by `Blocked6Facts`; a mapped address reduces to the IPv4 one in it.
`ResolversFit` lifts this to lists of answers, where the helper connects to the least
position that holds an IPv4 address (`LeastNumber`), and `PrivateByName` to the names
of a deployment: without its wildcards the list still has the exact name.

Lists. A recursive function has to be shown to be the one its definition describes:
`StepByStep` makes it, for any steps from a start that stay in a set, and `UniqueDef`,
`EnrichedDef` and `MergedDef` use that with the three steps; the rest is induction
along the list. `SetPlayerFacts`: a row is added or replaced, so user ids stay apart
and none is lost. `EnrichedFacts` is the heart of `SteamIdsAreTheirOwn`: a client is
taken only for a player who alone has the name (`Alone`), so the clients taken before
never have the name of the player whose turn it is, the set of used ones changes
nothing, and what a player is given (`Given`) can be said without the loop. From
that, `MirroredGiven` has the independence of the order, since a set and its mirror
have one element together. The merge keeps for every map a card that still loads
it: `RetitledFacts` says that giving a card another name takes nothing from any map
(`LoadsNoLess`). A bare name of digits is the difficult case: the card loses it, but
then has it as its Workshop id, which is why the cards carry `IsCard`. In the table
`Before` is a strict order of all rows (`Ordered`), so ranks are different, and
different numbers up to the length are all of them (`RankFacts`, `SortFacts`): sorting
loses no map. `PageFacts` says what a page shows by where its rows stand;
`PageOfPlace` that each place is on a page there is.

Only model-checked: liveness (`Terminates`, `AlwaysReleases`), which is out of the
prover's reach. Every other property of a passing run is stated by a theorem.

## 5. What would come next

The table composed with the merge, over file names as a server prints them: that
would decide whether the keys of two rows can meet, which is assumed here (see below).

## 6. Not modelled

* The extraction of text by regular expressions in the parsers, the command
  catalogue and `connection-import.ts`: functions of strings without state.
* The views and artwork: presentation. What they disable is in the guards of
  `DashboardSession`.
* The demo responder, a server that always answers.
* The PowerShell installer, which does on Windows what `install.sh` does
  elsewhere; workflows and build configuration.
* In `security.ts`: the parsing of the text of an origin, a host or an address.
* In the table of maps: that its rows have different keys is assumed; a map whose name
  of digits the merge replaced by the name of another one could share its key.
* In the helper: the validation of a request's fields (`rcon.go:29-61`), the asset
  proxy's header rewriting, the Workshop relay and the flags of the command line.
* In the dashboard: favourites, toasts, searches and layout.
* `GET` of the RCON route, and what each Steam item becomes (`workshop/route.ts:57-66`).
* The wording of errors, DNS itself, React's rendering and the passing of real
  time are abstracted as said above.
