------------------------------ MODULE MapTable ------------------------------
(* The table the level is changed from (src/components/maps-view.tsx): what  *)
(* is shown of a list of maps, and what is selected in it.  A favourite is a *)
(* name, which several maps may have; a row is a map with its Workshop id.   *)
(* The texts, the search and the catalogue are left out.                     *)
EXTENDS ServerLists

CONSTANT Place(_)   \* where localeCompare puts a map: by its shown name, then its MapKey

MapKey(map) == <<map.workshopId, map.name>>

Above(a, b, favorites) ==
  \/ a.name \in favorites /\ b.name \notin favorites
  \/ (a.name \in favorites <=> b.name \in favorites) /\ Place(a) < Place(b)

(* sort() is stable: of two maps neither of which is above the other, the    *)
(* first stays first.  The maps before a map say where it gets.              *)
Before(maps, favorites, i, j) ==
  \/ Above(maps[i], maps[j], favorites)
  \/ ~Above(maps[j], maps[i], favorites) /\ i < j

Rank(maps, favorites, j) == Cardinality({i \in DOMAIN maps : Before(maps, favorites, i, j)}) + 1

SortMaps(maps, favorites) ==
  [k \in DOMAIN maps |-> maps[CHOOSE j \in DOMAIN maps : Rank(maps, favorites, j) = k]]

PageCount(maps, size) == IF maps = <<>> THEN 1 ELSE (Len(maps) + size - 1) \div size
CurrentPage(maps, size, page) == Min({page, PageCount(maps, size) - 1})

VisibleMaps(maps, favorites, size, page) ==
  LET start == CurrentPage(maps, size, page) * size
  IN SubSeq(SortMaps(maps, favorites), start + 1, Min({start + size, Len(maps)}))

(* The state of the table belongs to one list, told by its datasetKey.       *)
NewView(key) == [datasetKey |-> key, page |-> 0, selectedId |-> <<>>]
ViewOf(view, key) == IF view.datasetKey = key THEN view ELSE NewView(key)

(* A click on a row or its radio button.                                     *)
Select(view, row) == [view EXCEPT !.selectedId = MapKey(row)]

(* The row the table finds for a selection, and what "Change level" runs of  *)
(* it: a Workshop map, or one that is not being played; {} is none.          *)
SelectedMap(maps, view) ==
  LET at == {i \in DOMAIN maps : MapKey(maps[i]) = view.selectedId}
  IN IF at = {} THEN {} ELSE {maps[Min(at)]}

ChangeLevel(maps, view, currentMap) ==
  {map \in SelectedMap(maps, view) : map.category = "Workshop" \/ map.name # currentMap}

ToggledFavorites(favorites, name) ==
  IF name \in favorites THEN favorites \ {name} ELSE favorites \cup {name}

(* Bug: the row is looked for where it was.                                  *)
BugToggleFavorite(maps, favorites, size, map) ==
  LET index == Min({i \in DOMAIN maps : SortMaps(maps, favorites)[i] = map})
  IN (index - 1) \div size
(* The page that is turned to, before the favourite is stored.               *)
ToggleFavorite(maps, favorites, size, map) ==
  LET sorted == SortMaps(maps, ToggledFavorites(favorites, map.name))
      index == Min({i \in DOMAIN maps : MapKey(sorted[i]) = MapKey(map)})
  IN (index - 1) \div size

-----------------------------------------------------------------------------
(* The pages show every map of a list once.                                  *)
PagesShowAll(maps, favorites, size) ==
  LET Page(n) == VisibleMaps(maps, favorites, size, n)
      pages == 0..(PageCount(maps, size) - 1)
  IN /\ \A n \in pages : Len(Page(n)) <= size
     /\ UNION {ToSet(Page(n)) : n \in pages} = ToSet(maps)
     /\ \A m, n \in pages : m # n => ToSet(Page(m)) \cap ToSet(Page(n)) = {}

(* What is selected is what the level is changed to, never a map of the same *)
(* name or of another list; and a row stays in sight when its star moves it. *)
RowsActOnTheirMap(maps, favorites, size, page, currentMap) ==
  \A row \in ToSet(VisibleMaps(maps, favorites, size, page)) :
    LET view == Select(NewView("list"), row)
        turned == ToggleFavorite(maps, favorites, size, row)
    IN /\ ChangeLevel(maps, view, currentMap) =
            IF row.category # "Workshop" /\ row.name = currentMap THEN {} ELSE {row}
       /\ ChangeLevel(maps, ViewOf(view, "other list"), currentMap) = {}
       /\ row \in ToSet(VisibleMaps(maps, ToggledFavorites(favorites, row.name), size, turned))
=============================================================================
