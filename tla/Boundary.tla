------------------------------ MODULE Boundary ------------------------------
(* What comes into the program from outside, one input at a time: an address *)
(* or the answers of a name server, a request to the helper's port or to the *)
(* hosted route, and the lists of a game server with the table of its maps.  *)
(* These parts keep no state between calls; the properties compare what they *)
(* make of every input in a set.  The bytes of a game server come in chunks, *)
(* and their decoder keeps what is left.                                     *)
EXTENDS HostedAccess, HelperAccess, MapTable, PacketDecoder

CONSTANTS
  SomeAddresses, FewAnswers,  \* bounds: addresses, alone and as answers
  MaxAnswers, SomeRows, SomeClients, MaxRows, Installable, Listed, MaxMaps,  \* bounds
  Deployments, HostedRequests, SomeHosts, Tables, PageSizes                  \* bounds

ASSUME BoundaryAssumption ==
  /\ SomeAddresses \subseteq Addresses /\ FewAnswers \subseteq Addresses
  /\ MaxAnswers \in Nat
  /\ \A deployment \in Deployments :
       DOMAIN deployment = {"publicOrigin", "secret", "allowed", "allowPrivate", "development"}
  /\ MaxRows \in Nat /\ MaxMaps \in Nat
  /\ \A row \in SomeRows : DOMAIN row = {"userId", "name", "steamId", "isBot"}
  \* A name of digits is an id; parseWorkshopMapList lists Workshop maps.
  /\ \A map \in Installable \cup Listed :
       /\ DOMAIN map = {"name", "category", "workshopId"}
       /\ map.name \in Numeric /\ map.workshopId # NoId => map.workshopId = map.name
  /\ \A map \in Listed : map.category = "Workshop"
  /\ \A maps \in Tables :
       /\ maps \in Seq(ToSet(maps)) /\ \A map \in ToSet(maps) : Place(map) \in Int
       /\ \A i, j \in DOMAIN maps : MapKey(maps[i]) = MapKey(maps[j]) => i = j
  /\ PageSizes \subseteq Nat \ {0}

VARIABLE input

None == [what |-> "nothing"]

UpTo(S, n) == UNION {[1..k -> S] : k \in 0..n}

(* The helper of one run: it has a secret, 1; 2 was one of another run.      *)
Helpers == [secret : {1}, paired : BOOLEAN, browserConnect : BOOLEAN]

Idle == input = None /\ arrived = 0 /\ sent = <<>>

ResolveAddress == \E a \in SomeAddresses : input' = [what |-> "address", address |-> a]
ResolveName ==
  \E answers \in UpTo(FewAnswers, MaxAnswers) : input' = [what |-> "answers", answers |-> answers]
AskHelper ==
  \E helper \in Helpers, request \in HttpRequests({1, 2}) :
    input' = [what |-> "request", helper |-> helper, request |-> request]
AskHosted ==
  \E deployment \in Deployments, request \in HostedRequests :
    input' = [what |-> "hosted", deployment |-> deployment, request |-> request]
ResolveHost ==
  \E deployment \in Deployments, host \in SomeHosts, answers \in UpTo(FewAnswers, 1) :
    input' = [what |-> "host", deployment |-> deployment, host |-> host, answers |-> answers]
ReadStatus ==
  \E rows \in UpTo(SomeRows, MaxRows), clients \in UpTo(SomeClients, MaxRows) :
    input' = [what |-> "status", rows |-> rows, clients |-> clients]
ReadMaps ==
  \E installed \in UpTo(Installable, MaxMaps), inventory \in UpTo(Listed, MaxMaps) :
    input' = [what |-> "maps", installed |-> installed, inventory |-> inventory]
ShowTable ==
  \E maps \in Tables : \E favorites \in SUBSET {map.name : map \in ToSet(maps)},
    size \in PageSizes, page \in 0..Len(maps) :
    input' = [what |-> "table", maps |-> maps, favorites |-> favorites, size |-> size, page |-> page]

ReadsChunk == \E n \in 1..Len(Stream) : Feed(n)

BoundaryInit == DecoderInit /\ input = None

BoundaryNext ==
  \/ /\ Idle
     /\ \/ ResolveAddress \/ ResolveName \/ AskHelper \/ AskHosted \/ ResolveHost
        \/ ReadStatus \/ ReadMaps \/ ShowTable
     /\ UNCHANGED decoderVars
  \/ input = None /\ ReadsChunk /\ UNCHANGED input

boundaryVars == <<decoderVars, input>>
BoundarySpec == BoundaryInit /\ [][BoundaryNext]_boundaryVars

-----------------------------------------------------------------------------
(* The two address policies, written in two languages, fit together on every *)
(* address and every list of answers, and the hosted one opens a private     *)
(* address by an exact name only (security.ts lines 40-156, rcon.go lines    *)
(* 63-110).                                                                  *)
AddressesJudgedAlike ==
  /\ input.what = "address" =>
       HostedWithinHelper(input.address) /\ MappedJudgedAsIPv4(input.address)
  /\ input.what = "answers" =>
       \A local \in BOOLEAN : PinnedIsPermitted(input.answers, local)
  /\ input.what = "host" => PrivateOnlyByName(input.deployment, input.host, input.answers)

(* No request of any browser or website gets through to a game server, the   *)
(* hosted page or the cookie without a secret of this run of the helper, nor *)
(* to the hosted route of a private deployment without its access key, or of *)
(* any deployment from a page of another site (main.go lines 186-303,        *)
(* route.ts lines 23-28, security.ts lines 16-38).                           *)
EveryRequestNeedsSecret ==
  /\ input.what = "request" => ServedOnlyWithSecret(input.helper, input.request)
  /\ input.what = "hosted" => ServedOnlyWithKey(input.deployment, input.request)

(* A ban goes to the player it is clicked for: one row per connection, a     *)
(* Steam id only from the one client that has the name, for no two players,  *)
(* and whatever the order of the two snapshots ("ordering is not an identity *)
(* guarantee", parsers.ts lines 135-141 and 187-203).                        *)
SteamIdsAreTheirOwn ==
  input.what = "status" =>
    LET players == UniquePlayers(input.rows)
        enriched == EnrichStatusWithJson(players, input.clients)
        Fresh(i) == enriched[i].steamId # players[i].steamId
    IN /\ {players[i].userId : i \in DOMAIN players} = {row.userId : row \in ToSet(input.rows)}
       /\ \A i, j \in DOMAIN players : players[i].userId = players[j].userId => i = j
       /\ ToSet(EnrichStatusWithJson(Reverse(players), Reverse(input.clients))) = ToSet(enriched)
       /\ \A i \in DOMAIN players : Fresh(i) =>
            /\ \E c \in DOMAIN input.clients :
                 /\ input.clients[c].name = players[i].name
                 /\ input.clients[c].steamId = enriched[i].steamId
            /\ \A j \in DOMAIN players \ {i} : players[j].name # players[i].name

(* Merging the two lists loses no map: what is installed keeps its command,  *)
(* unless the inventory says it is a Workshop map, every map of the          *)
(* inventory can be changed to by its id or as a Workshop map of its name    *)
(* (a bare name of digits is an id); and in the table every map is on one    *)
(* page, is what the level is changed to when it is selected, and stays in   *)
(* sight when it becomes a favourite (parsers.ts lines 306-321, commands.ts  *)
(* lines 91-95, maps-view.tsx lines 84-123).                                 *)
EveryMapCanBeLoaded ==
  /\ input.what = "table" =>
       /\ PagesShowAll(input.maps, input.favorites, input.size)
       /\ \A map \in ToSet(input.maps) :
            RowsActOnTheirMap(input.maps, input.favorites, input.size, input.page, map.name)
  /\ input.what = "maps" =>
       LET cards == MergeServerMaps(input.installed, input.inventory)
           commands == {GetMapChangeCommand(card) : card \in cards}
           CanLoad(map) ==
             IF map.workshopId # NoId THEN GetMapChangeCommand(map) \in commands
             ELSE \E card \in cards :
                    /\ card.category = "Workshop"
                    /\ card.name = map.name \/ (map.name \in Numeric /\ card.workshopId = map.name)
       IN /\ \A map \in ToSet(input.installed) :
               GetMapChangeCommand(map) \in commands \/ CanLoad(map)
          /\ \A map \in ToSet(input.inventory) : CanLoad(map)
=============================================================================
