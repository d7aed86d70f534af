--------------------------- MODULE HelperRelease ----------------------------
(* How a helper reaches a user: src/scripts/build-helper.mjs stages a        *)
(* release of one version in a temporary folder and publishes it by a        *)
(* rename; src/public/relay/install.sh, pinned to that version, downloads an *)
(* archive and then its checksum, and runs the archive if they match.        *)
(*                                                                           *)
(* Builds of the same version may run at once, fail at any file or be        *)
(* killed, and launchers download meanwhile.  The files of a release are     *)
(* written in one order: for every target its archive and its checksum, and  *)
(* the manifest last; a number says how many of them exist.  Two builds may  *)
(* write different bytes, so a file is named by its build.                   *)
EXTENDS Naturals

CONSTANTS Builds, Launchers, Absent,
          Targets   \* how many archives a release has; 6 in the script

ASSUME ReleaseAssumption ==
  /\ Targets \in Nat \ {0}
  /\ Absent \notin Builds \cup [by : Builds, files : 0..(2 * Targets + 1)]

VARIABLES
  build,       \* where each build is
  written,     \* how many files its temporary folder holds
  published,   \* public/relay/v<version>
  launcher,    \* what each launcher does
  archive, checksum   \* what it downloaded: a build, or "damaged"

releaseVars == <<build, written, published, launcher, archive, checksum>>

Files == 2 * Targets + 1
Archive(target) == 2 * target - 1
Checksum(target) == 2 * target

ReleaseInit ==
  /\ build = [b \in Builds |-> "idle"]
  /\ written = [b \in Builds |-> 0]
  /\ published = Absent
  /\ launcher \in [Launchers -> [target : 1..Targets, step : {"archive"}]]
  /\ archive = [l \in Launchers |-> Absent]
  /\ checksum = [l \in Launchers |-> Absent]

Goes(b, step) == build' = [build EXCEPT ![b] = step]
downloads == <<launcher, archive, checksum>>

(* The version must not be published yet; the folder is made at the next     *)
(* await, after others may have looked too.                                  *)
CheckVersion(b) ==
  /\ build[b] = "idle"
  /\ Goes(b, IF published = Absent THEN "checked" ELSE "ended")
  /\ UNCHANGED <<written, published, downloads>>

MakeFolder(b) ==
  /\ build[b] = "checked"
  /\ Goes(b, "building")
  /\ UNCHANGED <<written, published, downloads>>

WriteFile(b) ==
  /\ build[b] = "building" /\ written[b] < Files
  /\ written' = [written EXCEPT ![b] = @ + 1]
  /\ UNCHANGED <<build, published, downloads>>

(* Bug: the release is published before its manifest is written.             *)
BugStaged(b) == written[b] >= Files - 1
Staged(b) == written[b] = Files

(* Bug: what is in the way of the rename is removed.                         *)
BugRename(b) == published' = [by |-> b, files |-> written[b]]
(* A directory cannot be renamed onto one that is not empty.                 *)
Rename(b) ==
  published' = IF published = Absent THEN [by |-> b, files |-> written[b]] ELSE published

Publish(b) ==
  /\ build[b] = "building" /\ Staged(b)
  /\ Rename(b)
  /\ Goes(b, "cleanup")
  /\ UNCHANGED <<written, downloads>>

BuildFails(b) ==
  /\ build[b] = "building"
  /\ Goes(b, "cleanup")
  /\ UNCHANGED <<written, published, downloads>>

(* The finally block; after the rename the folder is no longer there.        *)
RemoveFolder(b) ==
  /\ build[b] = "cleanup"
  /\ written' = [written EXCEPT ![b] = 0]
  /\ Goes(b, "ended")
  /\ UNCHANGED <<published, downloads>>

(* Killed: the temporary folder stays.                                       *)
Killed(b) ==
  /\ build[b] \notin {"idle", "ended"}
  /\ Goes(b, "ended")
  /\ UNCHANGED <<written, published, downloads>>

Build(b) ==
  \/ CheckVersion(b) \/ MakeFolder(b) \/ WriteFile(b) \/ Publish(b)
  \/ BuildFails(b) \/ RemoveFolder(b) \/ Killed(b)

(* curl --fail: the file as it is now, a damaged one, or no file at all.     *)
Downloads(l, file) ==
  IF published # Absent /\ file <= published.files THEN {published.by, "damaged"} ELSE {}

Steps(l, step) == launcher' = [launcher EXCEPT ![l].step = step]
releases == <<build, written, published>>

FetchArchive(l) ==
  /\ launcher[l].step = "archive"
  /\ \E bytes \in Downloads(l, Archive(launcher[l].target)) :
       archive' = [archive EXCEPT ![l] = bytes]
  /\ Steps(l, "checksum")
  /\ UNCHANGED <<releases, checksum>>

FetchChecksum(l) ==
  /\ launcher[l].step = "checksum"
  /\ \E bytes \in Downloads(l, Checksum(launcher[l].target)) :
       checksum' = [checksum EXCEPT ![l] = bytes]
  /\ Steps(l, "verify")
  /\ UNCHANGED <<releases, archive>>

(* Bug: only a damaged checksum stops the launcher.                          *)
BugMatches(l) == checksum[l] # "damaged"
Matches(l) == archive[l] = checksum[l] /\ archive[l] # "damaged"

Verify(l) ==
  /\ launcher[l].step = "verify"
  /\ Steps(l, IF Matches(l) THEN "runs" ELSE "refused")
  /\ UNCHANGED <<releases, archive, checksum>>

FetchFails(l) ==
  /\ launcher[l].step \in {"archive", "checksum"}
  /\ Steps(l, "failed")
  /\ UNCHANGED <<releases, archive, checksum>>

Launch(l) == FetchArchive(l) \/ FetchChecksum(l) \/ Verify(l) \/ FetchFails(l)

ReleaseNext == (\E b \in Builds : Build(b)) \/ (\E l \in Launchers : Launch(l))

ReleaseSpec == ReleaseInit /\ [][ReleaseNext]_releaseVars

-----------------------------------------------------------------------------
(* "Never replace an already-published version's bytes" (helper/README.md    *)
(* line 89): a release appears whole, with every archive, checksum and the   *)
(* manifest, and from then on never changes, whichever builds run at once,   *)
(* fail or are killed (lines 12-43).                                         *)
ReleaseIsFinal ==
  [][published' # published =>
       published = Absent /\ published' # Absent /\ published'.files = Files]_releaseVars

(* A launcher that gets both files undamaged runs, and what it runs are the  *)
(* bytes of the release it then finds published, never one build's archive   *)
(* with another's checksum (install.sh lines 25-42).                         *)
LaunchersRunTheRelease ==
  \A l \in Launchers :
    /\ launcher[l].step = "runs" => archive[l] = published.by
    /\ launcher[l].step = "refused" => "damaged" \in {archive[l], checksum[l]}
=============================================================================
