----------------------------- MODULE LocalState -----------------------------
(* What the dashboard keeps in localStorage (src/lib/storage.ts, and the     *)
(* stored state of src/components/rcon-dashboard.tsx): one document, loaded  *)
(* when a tab opens, changed in memory, and written whole by an effect after *)
(* every change.  The tab may be closed or crash at any moment, a write may  *)
(* fail, and other tabs, which hear nothing of it, write their own document  *)
(* over this one's.                                                          *)
(*                                                                           *)
(* The document keeps its profiles, active profile and console history;      *)
(* favourites, options and catalogue are written with it and left out, and   *)
(* so is what a profile says of its server.  "success" and "error" are one:  *)
(* an entry that is done.                                                    *)
EXTENDS Integers, Sequences

CONSTANTS
  Ids, Demo, None,
  Documents,      \* bound: what may be on the disk first, and what other tabs load
  Unreadable,     \* no document, or one that loadStoredState rejects
  MaxProfiles,    \* 50
  MaxHistory,     \* 100
  MaxStarts,      \* bound: console entries made before the last connection or command
  MaxEntries      \* bound: console entries ever made

(* A document: its profiles say whether to remember the password and whether *)
(* they have one; a history entry whose id is not positive is of an earlier  *)
(* page.                                                                     *)
Profile == [id : Ids \cup {Demo}, remember : BOOLEAN, password : BOOLEAN]
Entry == [id : Int, status : {"pending", "done"}]
Document == [profiles : Seq(Profile), active : Ids \cup {Demo, None}, history : Seq(Entry)]

(* makeId gives no two entries the same id.                                  *)
Distinct(log) == \A i, j \in DOMAIN log : log[i].id = log[j].id => i = j

(* A connection that is being made, and the profile a dialog is about, with  *)
(* the one that was active when it opened.                                   *)
Connection == [id : Ids, keep : BOOLEAN, remember : BOOLEAN, done : BOOLEAN]
Dialog == [id : Ids \cup {None}, active : Ids \cup {None}]

ASSUME StorageAssumption ==
  /\ {MaxProfiles, MaxHistory, MaxStarts, MaxEntries} \subseteq Nat
  /\ Demo \notin Ids /\ None \notin Ids \cup {Demo}
  /\ None \notin Int \cup Connection \cup Dialog
  /\ Unreadable \notin Document
  /\ \A document \in Documents \ {Unreadable} :
       /\ document \in Document /\ Distinct(document.history)
       /\ \A i \in DOMAIN document.history : document.history[i].id <= 0

VARIABLES
  disk,         \* the item in localStorage
  page,         \* "closed", "loading" or "open"
  stored,       \* the React state
  dirty,        \* the saving effect of the last change has not run
  connected, connecting, running, dialog,
  entries,      \* makeId("command"): how many this module has made
  \* history: whether this tab was the last to write; the commands of its
  \* session; the profiles deleted in it, and on the disk too; those whose
  \* password the user wants kept
  mine, started, deleted, gone, choice

pages == <<page, stored, dirty, connected, connecting, running, dialog>>
history == <<mine, started, deleted, gone, choice>>
vars == <<disk, pages, entries, history>>

Default == [profiles |-> <<>>, active |-> None, history |-> <<>>]

IdsOf(document) == {document.profiles[i].id : i \in DOMAIN document.profiles}
First(s, n) == SubSeq(s, 1, IF Len(s) < n THEN Len(s) ELSE n)

(* activeProfile: an id that names no profile selects none.                  *)
ActiveOf(document) == IF document.active \in IdsOf(document) THEN document.active ELSE None

(* list.filter((item) => item.id !== id)                                     *)
Filtered(list, id) ==
  LET kept[n \in 0..Len(list)] ==
        IF n = 0 THEN <<>>
        ELSE IF list[n].id = id THEN kept[n - 1] ELSE Append(kept[n - 1], list[n])
  IN  kept
Others(list, id) == Filtered(list, id)[Len(list)]

(* Bug: a password comes back although it was not to be kept.                *)
BugLoadedProfile(profile) == profile
LoadedProfile(profile) == [profile EXCEPT !.password = profile.remember /\ profile.password]

(* loadStoredState(): valid items, up to the limits, known fields only.  A   *)
(* profile with the demo's id is not valid.                                  *)
LoadStoredState(raw) ==
  IF raw = Unreadable THEN Default
  ELSE LET valid == First(Others(raw.profiles, Demo), MaxProfiles)
           profiles == [i \in DOMAIN valid |-> LoadedProfile(valid[i])]
           ids == {valid[i].id : i \in DOMAIN valid}
       IN [profiles |-> profiles,
           active |-> IF raw.active \in ids THEN raw.active ELSE None,
           history |-> First(raw.history, MaxHistory)]

OnDisk == IF disk = Unreadable THEN Default ELSE disk

(* The profiles whose password a document says to remember.                  *)
Remembered(document) ==
  {document.profiles[i].id : i \in {j \in DOMAIN document.profiles : document.profiles[j].remember}}

Init ==
  /\ disk \in Documents
  /\ page = "closed" /\ stored = Default /\ dirty = FALSE
  /\ connected = FALSE /\ connecting = None /\ running = None /\ dialog = None
  /\ entries = 0
  /\ mine = FALSE /\ started = {} /\ deleted = {} /\ gone = {} /\ choice = {}

-----------------------------------------------------------------------------
(* Opening, saving and closing a tab.                                        *)

Open ==
  /\ page = "closed"
  /\ page' = "loading"
  /\ stored' = LoadStoredState(disk)
  /\ choice' = Remembered(OnDisk) \cap Ids
  /\ UNCHANGED <<disk, dirty, connected, connecting, running, dialog, entries,
                 mine, started, deleted, gone>>

(* The first effect; the saving effect depends on it and follows.            *)
Hydrate ==
  /\ page = "loading"
  /\ page' = "open"
  /\ dirty' = TRUE
  /\ UNCHANGED <<disk, stored, connected, connecting, running, dialog, entries, history>>

(* saveStoredState(), which reports a failure and is not tried again before  *)
(* the next change.                                                          *)
Save ==
  /\ page = "open" /\ dirty
  /\ dirty' = FALSE
  /\ \/ /\ disk' = stored
        /\ mine' = TRUE
        /\ gone' = gone \cup (deleted \ IdsOf(stored))
     \/ mine' = FALSE /\ UNCHANGED <<disk, gone>>
  /\ UNCHANGED <<page, stored, connected, connecting, running, dialog, entries,
                 started, deleted, choice>>

(* Another tab writes what it loaded, at an option changed there.            *)
OtherTabSaves ==
  /\ \E document \in Documents : disk' = LoadStoredState(document)
  /\ mine' = FALSE /\ gone' = {}
  /\ UNCHANGED <<page, stored, dirty, connected, connecting, running, dialog, entries,
                 started, deleted, choice>>

(* Closed, reloaded or crashed: everything in memory is lost.                *)
Close ==
  /\ page # "closed"
  /\ page' = "closed" /\ stored' = Default /\ dirty' = FALSE
  /\ connected' = FALSE /\ connecting' = None /\ running' = None /\ dialog' = None
  /\ mine' = FALSE /\ started' = {} /\ deleted' = {} /\ choice' = {}
  /\ UNCHANGED <<disk, entries, gone>>

-----------------------------------------------------------------------------
(* Changes of the document.                                                  *)

(* React runs the saving effect before the next event of its tab, and the    *)
(* two updates of a new connection follow each other without an event.       *)
Ready ==
  /\ page = "open" /\ ~dirty
  /\ connecting # None => ~connecting.done

SetStored(document) ==
  /\ stored' = document
  /\ dirty' = TRUE

(* Bug: the verdict of a command is another entry.                           *)
BugAddHistory(log, entry) == First(<<entry>> \o log, MaxHistory)
AddHistory(log, entry) ==
  First(<<entry>> \o Others(log, entry.id), MaxHistory)

Logs(document, entry) == [document EXCEPT !.history = AddHistory(@, entry)]

(* disconnect() and the head of connectProfile(): the command that runs and  *)
(* the connection that is being made belong to an earlier session now.       *)
EndSession ==
  /\ running' = None /\ started' = {} /\ connected' = FALSE /\ dialog' = None

Disconnect ==
  /\ Ready /\ dialog = None
  /\ connected \/ ActiveOf(stored) # None
  /\ EndSession
  /\ connecting' = None
  /\ UNCHANGED <<disk, page, stored, dirty, entries, mine, deleted, gone, choice>>

(* switchProfile() of a profile without a password.                          *)
SelectProfile(profile) ==
  /\ Ready /\ dialog = None /\ ~profile.password
  /\ EndSession
  /\ connecting' = None
  /\ SetStored([stored EXCEPT !.active = profile.id])
  /\ UNCHANGED <<disk, page, entries, mine, deleted, gone, choice>>

(* connectProfile() up to its await, for switchProfile or saveAndConnect.    *)
(* Submitting the form takes back an earlier deletion.                       *)
Connect(id, keep, remember) ==
  /\ Ready /\ dialog = None
  /\ keep => connecting = None
  /\ EndSession
  /\ connecting' = [id |-> id, keep |-> keep, remember |-> remember, done |-> FALSE]
  /\ IF keep
       THEN deleted' = deleted \ {id} /\ gone' = gone \ {id}
       ELSE UNCHANGED <<deleted, gone>>
  /\ UNCHANGED <<disk, page, stored, dirty, entries, mine, choice>>

SwitchProfile(profile) == profile.password /\ Connect(profile.id, FALSE, FALSE)

ConnectDemo ==
  /\ Ready /\ dialog = None /\ connecting = None /\ entries < MaxStarts
  /\ entries' = entries + 1
  /\ SetStored(Logs(stored, [id |-> entries + 1, status |-> "done"]))
  /\ connected' = TRUE
  /\ running' = None
  /\ started' = {}
  /\ UNCHANGED <<disk, page, connecting, dialog, mine, deleted, gone, choice>>

(* The server answers: the profile is active and its status is in the        *)
(* history.  saveAndConnect continues in a microtask of its own.             *)
ConnectSucceeds ==
  /\ page = "open" /\ connecting # None /\ ~connecting.done /\ entries < MaxStarts
  /\ entries' = entries + 1
  /\ SetStored(Logs([stored EXCEPT !.active = connecting.id],
                       [id |-> entries + 1, status |-> "done"]))
  /\ connected' = TRUE
  /\ connecting' = IF connecting.keep THEN [connecting EXCEPT !.done = TRUE] ELSE None
  /\ UNCHANGED <<disk, page, running, dialog, history>>

ConnectFails ==
  /\ page = "open" /\ connecting # None /\ ~connecting.done
  /\ connecting' = None
  /\ UNCHANGED <<disk, page, stored, dirty, connected, running, dialog, entries, history>>

(* Bug: what the form does not ask for is kept from the saved profile.       *)
BugSavedProfile(profile, old) ==
  [profile EXCEPT !.password = @ \/ \E i \in DOMAIN old : old[i].id = profile.id /\ old[i].password]
SavedProfile(profile, old) == profile

SaveProfile ==
  /\ page = "open" /\ connecting # None /\ connecting.done
  /\ LET new == connecting
         old == stored.profiles
         profile == [id |-> new.id, remember |-> new.remember, password |-> new.remember]
     IN /\ SetStored([stored EXCEPT
              !.active = new.id,
              !.profiles = <<SavedProfile(profile, old)>>
                             \o Others(old, new.id)])
        /\ choice' = IF new.remember THEN choice \cup {new.id} ELSE choice \ {new.id}
  /\ connecting' = None
  /\ UNCHANGED <<disk, page, connected, running, dialog, entries, mine, started, deleted, gone>>

(* Favourites, the polling interval, the catalogue: the document is written  *)
(* again, all of it.                                                         *)
ChangeOption ==
  /\ Ready /\ dialog = None
  /\ dirty' = TRUE
  /\ UNCHANGED <<disk, page, stored, connected, connecting, running, dialog, entries, history>>

-----------------------------------------------------------------------------
(* The console.                                                              *)

ExecuteConsole ==
  /\ Ready /\ dialog = None /\ connected /\ running = None /\ entries < MaxStarts
  /\ entries' = entries + 1
  /\ running' = entries + 1
  /\ started' = started \cup {entries + 1}
  /\ SetStored(Logs(stored, [id |-> entries + 1, status |-> "pending"]))
  /\ UNCHANGED <<disk, page, connected, connecting, dialog, mine, deleted, gone, choice>>

ConsoleEnds ==
  /\ page = "open" /\ running # None
  /\ SetStored(Logs(stored, [id |-> running, status |-> "done"]))
  /\ running' = None
  /\ UNCHANGED <<disk, page, connected, connecting, dialog, entries, history>>

(* The answers of other commands of the session, sent from a dialog, the      *)
(* broadcast box or the modes view, come while the console waits for its own. *)
Answered ==
  /\ page = "open" /\ connected /\ connecting = None
  /\ UNCHANGED <<disk, page, connected, connecting, running, dialog, history>>
Verdict(n) == [id |-> entries + n, status |-> "done"]

(* runQuick(), lines 508-525; a failure that is no map error adds nothing.   *)
RunQuick ==
  /\ Answered /\ entries < MaxEntries
  /\ entries' = entries + 1
  /\ SetStored(Logs(stored, Verdict(1)))

(* stageGameMode(), lines 471-488: one entry for each of its two commands.   *)
StageGameMode ==
  /\ Answered /\ entries + 1 < MaxEntries
  /\ entries' = entries + 2
  /\ SetStored(Logs(Logs(stored, Verdict(1)), Verdict(2)))

ClearConsole ==
  /\ Ready /\ dialog = None /\ connected
  /\ SetStored([stored EXCEPT !.history = <<>>])
  /\ UNCHANGED <<disk, page, connected, connecting, running, dialog, entries, history>>

-----------------------------------------------------------------------------
(* Deleting.                                                                 *)

(* id is None for "Clear all local data".                                    *)
OpenDialog(id) ==
  /\ Ready /\ dialog = None
  /\ dialog' = [id |-> id, active |-> ActiveOf(stored)]
  /\ UNCHANGED <<disk, page, stored, dirty, connected, connecting, running, entries, history>>

CancelDialog ==
  /\ Ready /\ dialog # None
  /\ dialog' = None
  /\ UNCHANGED <<disk, page, stored, dirty, connected, connecting, running, entries, history>>

Without(document, id) ==
  [document EXCEPT !.active = IF @ = id THEN None ELSE @,
                   !.profiles = Others(@, id)]

(* The form is saving this very profile.                                     *)
BeingSaved(id) == connecting # None /\ connecting.keep /\ connecting.id = id

(* Only a profile that was active when the dialog opened ends the session.   *)
ConfirmDelete ==
  /\ Ready /\ dialog # None /\ dialog.id # None
  /\ SetStored(Without(stored, dialog.id))
  /\ LET id == dialog.id IN
     IF dialog.active = id
       THEN /\ EndSession
            /\ connecting' = None
            /\ deleted' = deleted \cup {id}
       ELSE /\ dialog' = None
            /\ deleted' = IF BeingSaved(id) THEN deleted ELSE deleted \cup {id}
            /\ UNCHANGED <<connected, connecting, running, started>>
  /\ UNCHANGED <<disk, page, entries, mine, gone, choice>>

(* Bug: clearing the data leaves the connection that is being made.          *)
BugCancelsConnection == UNCHANGED connecting
CancelsConnection == connecting' = None

ConfirmClear ==
  /\ Ready /\ dialog # None /\ dialog.id = None
  /\ EndSession
  /\ CancelsConnection
  /\ SetStored(Default)
  /\ deleted' = Ids
  /\ UNCHANGED <<disk, page, entries, mine, gone, choice>>

Next ==
  \/ Open \/ Hydrate \/ Save \/ OtherTabSaves \/ Close \/ ChangeOption
  \/ Disconnect \/ ConnectDemo
  \/ \E i \in DOMAIN stored.profiles :
       \/ SelectProfile(stored.profiles[i])
       \/ SwitchProfile(stored.profiles[i])
       \/ OpenDialog(stored.profiles[i].id)
  \/ \E id \in Ids, remember \in BOOLEAN : Connect(id, TRUE, remember)
  \/ ConnectSucceeds \/ ConnectFails \/ SaveProfile
  \/ ExecuteConsole \/ ConsoleEnds \/ ClearConsole
  \/ RunQuick \/ StageGameMode
  \/ OpenDialog(None) \/ CancelDialog \/ ConfirmDelete \/ ConfirmClear

Spec == Init /\ [][Next]_vars

-----------------------------------------------------------------------------
(* The tab's last change reached the disk and no other tab wrote since.      *)
Settled == page = "open" /\ ~dirty /\ mine

Shows(document) == [document EXCEPT !.active = ActiveOf(document)]

(* Reloading a tab, after a crash or later, shows what it showed: what is    *)
(* written is what loadStoredState accepts, except for profiles above its    *)
(* limit, which saving does not enforce (storage.ts lines 41-65; dashboard   *)
(* lines 242-244).                                                           *)
ReloadRestores ==
  Settled /\ Len(stored.profiles) <= MaxProfiles => LoadStoredState(disk) = Shows(stored)

(* A password is on the disk only if the user's last choice for that profile,*)
(* in this tab or before it opened, was to remember it, whatever an earlier  *)
(* version of the profile or of the page had stored (storage.ts lines 47-51; *)
(* dashboard lines 381-397).                                                 *)
PasswordsKeptByConsent ==
  Settled =>
    \A i \in DOMAIN disk.profiles : disk.profiles[i].password => disk.profiles[i].id \in choice

(* No entry is there twice, and one of a console command of the current      *)
(* session says "pending" only while the command runs, also when the history *)
(* was cleared meanwhile, or when answers of other commands moved the entry  *)
(* down or pushed it out before its own came (dashboard lines 308-336,       *)
(* 471-488 and 508-525).  A command of an earlier session is excepted: it    *)
(* keeps its spinner.                                                        *)
EntriesTellTheTruth ==
  LET log == stored.history IN
  /\ Len(log) <= MaxHistory
  /\ Distinct(log)
  /\ \A i \in DOMAIN log :
       log[i].status = "pending" /\ log[i].id \in started => running = log[i].id

(* A profile whose deletion reached the disk never comes back by itself, in  *)
(* this tab or after a reload, until another tab writes: no connection that  *)
(* was being made restores it (dashboard lines 381-397 and 859-888).         *)
(* Excepted is a profile that is being saved while another one is active,    *)
(* which deleting does not stop.                                             *)
DeletedStaysDeleted ==
  gone \cap (IdsOf(OnDisk) \cup IdsOf(stored)) = {}
=============================================================================
