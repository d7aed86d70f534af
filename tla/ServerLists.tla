---------------------------- MODULE ServerLists -----------------------------
(* What the dashboard makes of the lists of a server (src/lib/parsers.ts):   *)
(* the players of "status", to which "status_json" adds the Steam ids that   *)
(* bans are made with, and the maps of "maps *" and "ds_workshop_listmaps",  *)
(* from which map changes are made.  The texts are taken apart by regular    *)
(* expressions that are not modelled; this is what becomes of their matches. *)
(* The maps are sorted for display in the end; here they are a set.          *)
EXTENDS SequencesExt

CONSTANTS
  NoId,      \* no Steam id, no Workshop id
  Numeric    \* the map names that are only digits: ids shown for want of a name

(* A row is a user id, a name, a Steam id and isBot; a client a name, its    *)
(* valid Steam id and bot ("yes", "no", "unknown").                          *)
(* parseStatus: repeated rows of a user id are one player.                   *)
BugSamePlayer(one, other) == one.name = other.name
SamePlayer(one, other) == one.userId = other.userId

(* Map.set: a row of a player who is there takes the old one's place.        *)
SetPlayer(players, row) ==
  LET same == {i \in DOMAIN players : SamePlayer(players[i], row)}
  IN IF same = {} THEN Append(players, row)
     ELSE [i \in DOMAIN players |-> IF i \in same THEN row ELSE players[i]]

UniqueUpTo(rows) ==
  LET unique[n \in 0..Len(rows)] ==
        IF n = 0 THEN <<>> ELSE SetPlayer(unique[n - 1], rows[n])
  IN unique
UniquePlayers(rows) == UniqueUpTo(rows)[Len(rows)]

Kind(player) == IF player.isBot THEN "yes" ELSE "no"

Namesakes(player, players) == {i \in DOMAIN players : players[i].name = player.name}

Matches(player, clients, used) ==
  {c \in DOMAIN clients \ used :
     /\ clients[c].name = player.name
     /\ clients[c].bot \in {"unknown", Kind(player)}}

(* Bug: the first of several clients of that name is taken.                  *)
BugIdentified(matches) == matches # {}
Identified(matches) == Cardinality(matches) = 1

(* enrichStatusWithJson: one player after the other, and no client twice.    *)
EnrichPlayer(players, clients, done, player) ==
  LET matches == Matches(player, clients, done.used)
      client == Min(matches)
  IN IF Cardinality(Namesakes(player, players)) = 1 /\ Identified(matches)
       THEN [used |-> done.used \cup {client},
             players |-> Append(done.players,
               IF clients[client].steamId = NoId THEN player
               ELSE [player EXCEPT !.steamId = clients[client].steamId])]
       ELSE [done EXCEPT !.players = Append(@, player)]

EnrichedUpTo(players, clients) ==
  LET done[n \in 0..Len(players)] ==
        IF n = 0 THEN [used |-> {}, players |-> <<>>]
        ELSE EnrichPlayer(players, clients, done[n - 1], players[n])
  IN done
EnrichStatusWithJson(players, clients) == EnrichedUpTo(players, clients)[Len(players)].players

-----------------------------------------------------------------------------
(* A map has a name, a category and perhaps a Workshop id.                   *)

(* Bug: two maps without an id are the same.                                 *)
BugSameMap(item, map) == item.workshopId = map.workshopId
SameMap(item, map) ==
  IF map.workshopId # NoId THEN item.workshopId = map.workshopId
  ELSE item.name = map.name

(* A known map is of the Workshop, and gets a name for an id shown as one.   *)
Retitled(known, map) ==
  [name |-> IF known.name \in Numeric THEN map.name ELSE known.name,
   category |-> "Workshop", workshopId |-> known.workshopId]

MergeMap(result, map) ==
  LET known == {i \in DOMAIN result : SameMap(result[i], map)}
  IN IF known = {} THEN Append(result, map)
     ELSE [result EXCEPT ![Min(known)] = Retitled(@, map)]

MergedUpTo(installed, inventory) ==
  LET merged[n \in 0..Len(inventory)] ==
        IF n = 0 THEN installed ELSE MergeMap(merged[n - 1], inventory[n])
  IN merged
MergeServerMaps(installed, inventory) == ToSet(MergedUpTo(installed, inventory)[Len(inventory)])

GetMapChangeCommand(map) ==
  IF map.workshopId # NoId THEN <<"host_workshop_map", map.workshopId>>
  ELSE IF map.category = "Workshop" THEN <<"ds_workshop_changelevel", map.name>>
  ELSE <<"changelevel", map.name>>
=============================================================================
