----------------------------- MODULE PiInstall -----------------------------
(***************************************************************************)
(* The legacy installer of the Pi target (install/pi.go, plan.go): it      *)
(* plans, asks, compares a snapshot of ~/.pi, copies ~/.pi if the user     *)
(* wants that, and then rewrites the managed files one after the other,    *)
(* each backed up first, without a lock and without a journal.  The        *)
(* manifest it writes last decides which agent overlays the next install   *)
(* may touch.  Between the steps the process can die, a step can fail, and *)
(* the user edits, creates and deletes files, the manifest among them.     *)
(***************************************************************************)
EXTENDS Integers, Sequences, FiniteSets

CONSTANTS
    Merged,      \* managed files that are merged with what the user has
    Replaced,    \* managed files that are replaced
    Overlays,    \* paths of agent overlays, all releases together
    Cleanups,    \* files of old releases that an install deletes
    Direct,      \* the managed files right below ~/.pi/agent
    Rendered,    \* for each release, the overlays it renders
    MaxRuns, MaxEdits, MaxFaults,   \* bounds: installs, edits, failed steps
    CanDie,      \* the process may die
    Races        \* the user may edit a file while its step is under way

Files == Merged \cup Replaced
Paths == Files \cup Overlays \cup Cleanups
Releases == DOMAIN Rendered

PathsAreApart ==
    /\ Direct \subseteq Files
    /\ Merged \cap Replaced = {} /\ Files \cap Overlays = {} /\ Files \cap Cleanups = {} /\ Overlays \cap Cleanups = {}
    /\ "" \notin Paths
    /\ 1 \in Releases /\ Releases \subseteq Nat \ {0}
    /\ \A r \in Releases : Rendered[r] \subseteq Overlays

(* A content says which text of the user is in it (0: none) and which       *)
(* release of lore wrote into it (0: none).                                 *)
Content == [user : 0..MaxEdits, lore : {0} \cup Releases]
Absent == [user |-> 0, lore |-> 0]

Stages == << "cleanups", "files", "overlays", "stale" >>

VARIABLES
    files,     \* the content of every path
    backups,   \* the managed backup roots: one per second
    fulls,     \* the copies of ~/.pi, by second
    manifest,  \* lore-install.json: can it be read, which overlays it lists
    release,   \* the release of the binary
    stage,     \* where the installer stands; "idle" when none runs
    todo,      \* paths of the stage that are still to do
    held,      \* the path whose step is under way, and what it will write
    run,       \* what this install found, did and met
    clock, edits, faults,
    owed       \* texts of the user that an install took out of their file
vars == << files, backups, fulls, manifest, release, stage, todo, held, run,
           clock, edits, faults, owed >>

NoManifest == [state |-> "none", listed |-> {}]
Listing(listed) == [state |-> "read", listed |-> listed]
Nothing == [path |-> "", to |-> Absent]
NoActions == [q \in Paths |-> "none"]
NoRun == [of |-> 1, planned |-> NoActions, done |-> NoActions, conflicts |-> {}, failed |-> {},
          full |-> FALSE, moved |-> FALSE, dirty |-> FALSE, listed |-> {}, out |-> ""]

-----------------------------------------------------------------------------
(* What planRenderedFileAction wants at q: the release's text, merged with   *)
(* the user's where the file is additive JSON.                               *)
Desired(q, r) ==
    [user |-> IF q \in Merged THEN files[q].user ELSE 0, lore |-> r]

(* planRenderedFileAction *)
ActionFor(q, r) ==
    IF files[q] = Desired(q, r) THEN "unchanged"
    ELSE IF files[q] = Absent THEN "create" ELSE "update"

(* An overlay that exists and that the manifest does not list is the user's. *)
Collides(q, listed) == files[q] # Absent /\ q \notin listed

(* planLegacyDelegationCleanup, planDeprecatedLoreMemoryCleanup,             *)
(* planManagedFileActions and planManagedAgentOverlayActions.                *)
PlanOf(r) ==
    [q \in Paths |->
        IF q \in Cleanups THEN (IF files[q] = Absent THEN "none" ELSE "delete")
        ELSE IF q \in Files THEN ActionFor(q, r)
        ELSE IF q \in Rendered[r]
             THEN (IF Collides(q, manifest.listed) THEN "none" ELSE ActionFor(q, r))
        ELSE IF q \in manifest.listed THEN "delete" ELSE "none"]

(* PlanPiInstall, with the answer to confirmFullBackup.  The backup root is  *)
(* named after the second in which the install was planned.  A manifest that *)
(* is there and cannot be decoded ends the plan.                             *)
Plan ==
    /\ stage = "idle"
    /\ clock < MaxRuns
    /\ clock' = clock + 1
    /\ \/ /\ manifest.state # "broken"
          /\ \E wants \in BOOLEAN :
                run' = [NoRun EXCEPT !.of = release, !.planned = PlanOf(release),
                                   !.full = wants /\ \E q \in Paths : files[q] # Absent]
          /\ stage' = "planned"
       \/ /\ manifest.state = "broken"
          /\ run' = [NoRun EXCEPT !.of = release, !.out = "error"]
          /\ UNCHANGED stage
    /\ UNCHANGED << files, backups, fulls, manifest, release, todo, held, edits, faults, owed >>

Finish(out) ==
    /\ stage' = "idle"
    /\ todo' = {}
    /\ held' = Nothing
    /\ run' = [run EXCEPT !.out = out]

(* The paths a stage of InstallPi goes through. *)
WorkOf(s) ==
    CASE s = "cleanups" -> {q \in Cleanups : files[q] # Absent}
      [] s = "files" -> Files
      [] s = "overlays" -> Rendered[run.of]
      [] s = "stale" -> manifest.listed \ Rendered[run.of]

(* The paths of a stage are done in a fixed order. *)
Upcoming == CHOOSE q \in todo : TRUE

(* ExecutePiInstall up to InstallPi: the snapshot covers the entries right   *)
(* below ~/.pi with their times, so it moves only when an entry is made or   *)
(* replaced in ~/.pi/agent itself.  The full copy refuses to overwrite one.  *)
Begin ==
    /\ stage = "planned"
    /\ IF run.moved THEN Finish("drift") /\ UNCHANGED fulls
       ELSE IF run.full /\ fulls[clock] # {} THEN Finish("error") /\ UNCHANGED fulls
       ELSE /\ fulls' = IF run.full THEN [fulls EXCEPT ![clock] =
                            {<< q, files[q].user >> : q \in {p \in Paths : files[p] # Absent}}] ELSE fulls
            /\ stage' = "cleanups"
            /\ todo' = WorkOf("cleanups")
            /\ UNCHANGED << held, run >>
    /\ UNCHANGED << files, backups, manifest, release, clock, edits, faults, owed >>

(* The stage is done; the overlays are matched with the manifest as it is    *)
(* now: InstallPi loads it again, and takes one it cannot read for none.     *)
NextStage ==
    /\ held = Nothing
    /\ todo = {}
    /\ \E i \in 1..3 :
        /\ stage = Stages[i]
        /\ stage' = Stages[i + 1]
        /\ todo' = WorkOf(Stages[i + 1])
    /\ UNCHANGED << files, backups, fulls, manifest, release, held, run, clock, edits, faults, owed >>

(* Seeded fault (NothingLost): a file that is replaced whole is not backed up. *)
BackUpMerged(q) ==
    backups' = IF q \in Merged THEN [backups EXCEPT ![clock][q] = files[q]] ELSE backups

(* applyRenderedFile, applyManagedDelete: the content that goes is copied to *)
(* the backup root of this second, over what is there.                       *)
BackUp(q) == backups' = [backups EXCEPT ![clock][q] = files[q]]

(* The step of path q decides and backs up ... *)
Look(q, action, to) ==
    /\ IF action \in {"update", "delete"} THEN BackUp(q) ELSE UNCHANGED backups
    /\ IF action = "unchanged" THEN held' = Nothing /\ todo' = todo \ {q}
       ELSE held' = [path |-> q, to |-> to] /\ UNCHANGED todo
    /\ run' = [run EXCEPT !.done[q] = action,
                          !.listed = IF stage = "overlays" THEN @ \cup {q} ELSE @]

LookRendered ==
    /\ stage \in {"files", "overlays"}
    /\ held = Nothing
    /\ todo # {}
    /\ LET q == Upcoming IN
        IF stage = "overlays" /\ Collides(q, manifest.listed)
        THEN /\ run' = [run EXCEPT !.conflicts = @ \cup {q}]
             /\ todo' = todo \ {q}
             /\ UNCHANGED << backups, held >>
        ELSE Look(q, ActionFor(q, run.of), Desired(q, run.of))
    /\ UNCHANGED << files, fulls, manifest, release, stage, clock, edits, faults, owed >>

(* A delete reads the file first, and fails when there is none. *)
LookDelete ==
    /\ stage \in {"cleanups", "stale"}
    /\ held = Nothing
    /\ todo # {}
    /\ LET q == Upcoming IN
        IF files[q] = Absent THEN Finish("error") /\ UNCHANGED << backups >>
        ELSE Look(q, "delete", Absent) /\ UNCHANGED stage
    /\ UNCHANGED << files, fulls, manifest, release, clock, edits, faults, owed >>

(* ... and then renames the new file over the old one, or removes it. *)
Replace(q) ==
    /\ files' = [files EXCEPT ![q] = held.to]
    /\ owed' = IF files[q].user \notin {0, held.to.user}
               THEN owed \cup {<< q, files[q].user >>} ELSE owed

Put ==
    /\ held # Nothing
    /\ Replace(held.path)
    /\ todo' = todo \ {held.path}
    /\ held' = Nothing
    /\ UNCHANGED << backups, fulls, manifest, release, stage, run, clock, edits, faults >>

(* A managed file that cannot be written is noted and the install goes on;   *)
(* any other step that fails ends it.                                        *)
Missed ==
    /\ faults < MaxFaults
    /\ faults' = faults + 1
    /\ stage # "idle"
    /\ IF stage = "files" /\ todo # {}
       THEN /\ LET q == Upcoming IN
                /\ run' = [run EXCEPT !.failed = @ \cup {q}, !.done[q] = "none"]
                /\ todo' = todo \ {q}
            /\ held' = Nothing
            /\ UNCHANGED stage
       ELSE Finish("error")
    /\ UNCHANGED << backups, fulls, release, clock, edits >>

(* The step fails before it has an effect, ... *)
Fail == Missed /\ UNCHANGED << files, manifest, owed >>

(* ... or after it: writeFileAtomic sets the mode of the file it has renamed *)
(* into place, and ExecutePiInstall writes the manifest a second time.       *)
FailLate ==
    /\ Missed
    /\ \/ held # Nothing /\ held.to # Absent /\ Replace(held.path) /\ UNCHANGED manifest
       \/ /\ stage = "stale" /\ todo = {} /\ held = Nothing
          /\ manifest' = Listing(run.listed)
          /\ UNCHANGED << files, owed >>

(* The manifest is written, read back and validated (a file that failed has  *)
(* no record, so it does not validate), then what was done is compared with  *)
(* the plan.  The second write, with the facts of the full copy, changes     *)
(* nothing the next install looks at.                                        *)
WriteManifest ==
    /\ stage = "stale" /\ todo = {} /\ held = Nothing
    /\ manifest' = Listing(run.listed)
    /\ Finish(IF run.failed # {} THEN "error"
              ELSE IF run.done # run.planned THEN "mismatch" ELSE "ok")
    /\ UNCHANGED << files, backups, fulls, release, clock, edits, faults, owed >>

Die ==
    /\ CanDie
    /\ stage # "idle"
    /\ Finish("died")
    /\ UNCHANGED << files, backups, fulls, manifest, release, clock, edits, faults, owed >>

-----------------------------------------------------------------------------
(* The user writes or deletes a file, in place or, what the snapshot can     *)
(* see, by replacing it.                                                     *)
Edit(q, c) ==
    /\ edits < MaxEdits
    /\ Races \/ held.path # q
    /\ files[q] # c
    /\ edits' = edits + 1
    /\ files' = [files EXCEPT ![q] = c]
    /\ \E seen \in IF q \in Direct THEN BOOLEAN ELSE {FALSE} :
        run' = [run EXCEPT !.moved = @ \/ seen, !.dirty = TRUE]
    /\ UNCHANGED << backups, fulls, manifest, release, stage, todo, held, clock, faults, owed >>

Write == \E q \in Paths : Edit(q, [user |-> edits + 1, lore |-> 0])
Remove == \E q \in Paths : Edit(q, Absent)

(* The user damages or removes the manifest, which is right below            *)
(* ~/.pi/agent, before an install or between its plan and its execution.     *)
Damage ==
    /\ edits < MaxEdits
    /\ stage \in {"idle", "planned"}
    /\ edits' = edits + 1
    /\ \E s \in {"none", "broken"} :
          manifest.state # s /\ manifest' = [state |-> s, listed |-> {}]
    /\ \E seen \in BOOLEAN : run' = [run EXCEPT !.moved = @ \/ seen, !.dirty = TRUE]
    /\ UNCHANGED << files, backups, fulls, release, stage, todo, held, clock, faults, owed >>

(* The binary is replaced by the next release. *)
Upgrade ==
    /\ stage = "idle"
    /\ release + 1 \in Releases
    /\ release' = release + 1
    /\ UNCHANGED << files, backups, fulls, manifest, stage, todo, held, run, clock, edits, faults, owed >>

Init ==
    /\ files \in {f \in [Paths -> {Absent, [user |-> 0, lore |-> 1]}] :
                    \A q \in Paths \ Cleanups : f[q] = Absent}
    /\ backups = [s \in 1..MaxRuns |-> [q \in Paths |-> Absent]]
    /\ fulls = [s \in 1..MaxRuns |-> {}]
    /\ manifest = NoManifest
    /\ release = 1
    /\ stage = "idle" /\ todo = {} /\ held = Nothing /\ run = NoRun
    /\ clock = 0 /\ edits = 0 /\ faults = 0
    /\ owed = {}

Steps == Plan \/ Begin \/ NextStage \/ LookRendered \/ LookDelete \/ Put \/ WriteManifest
Next == Steps \/ Fail \/ FailLate \/ Die \/ Write \/ Remove \/ Damage \/ Upgrade

Spec == Init /\ [][Next]_vars

-----------------------------------------------------------------------------
(* Every path holds a content, and a step is under way only in a stage. *)
TypeOK ==
    /\ files \in [Paths -> Content]
    /\ manifest \in [state : {"none", "read", "broken"}, listed : SUBSET Overlays]
    /\ manifest.state # "read" => manifest.listed = {}
    /\ todo \subseteq Paths
    /\ stage \in {"idle", "planned"} => todo = {} /\ held = Nothing
    /\ held = Nothing \/ held.path \in todo

(* README: "updates and deletes copy the prior managed content into the      *)
(* managed backup root before mutation".  A text of the user that an install *)
(* took out of its file is in a backup, whatever failed or died since.       *)
NothingLost ==
    \A o \in owed :
        \/ files[o[1]].user = o[2]
        \/ \E s \in 1..MaxRuns : backups[s][o[1]].user = o[2] \/ o \in fulls[s]

(* An overlay of the user's, at a path the manifest does not list, is never  *)
(* touched by an install, also not by one that follows a broken one.         *)
UserOverlaysKept ==
    \A q \in Overlays :
        (edits' = edits /\ files[q].user # 0 /\ q \notin manifest.listed)
            => files'[q] = files[q]

(* What the manifest lists is lore's: an install never enters a path that    *)
(* holds a file of the user it left alone.                                   *)
OwnsWhatItLists ==
    manifest' # manifest =>
        \A q \in manifest'.listed : files[q].user = 0 \/ run.dirty

(* An install that says ok, while nobody else touched the files, has left    *)
(* what its release promises: its text in every managed file, its overlays   *)
(* except the collisions, no stale overlay listed, no file of old releases.  *)
OkIsInstalled ==
    (stage = "idle" /\ run.out = "ok" /\ ~run.dirty) =>
        /\ \A q \in Files : files[q].lore = run.of
        /\ \A q \in Rendered[run.of] \ run.conflicts : files[q].lore = run.of
        /\ manifest.listed = Rendered[run.of] \ run.conflicts
        /\ \A q \in Cleanups : files[q] = Absent

(* README: "rerun install to reconverge".  An install planned after one that *)
(* said ok, with the same binary and no edit in between, changes no file.    *)
RerunIsQuiet ==
    (stage = "idle" /\ stage' = "planned" /\ run.out = "ok" /\ ~run.dirty /\ run.of = release)
        => \A q \in Paths : run'.planned[q] \in {"none", "unchanged"}

(* README: "user-owned collisions are reported": what is reported as a       *)
(* collision is a file of the user.                                          *)
CollisionsAreUsers ==
    \A q \in run.conflicts : run.dirty \/ files[q].user # 0

(* An install that meets no failure does not end in an error, so that a      *)
(* rerun reconverges whatever the user did to the files before it.           *)
RerunSucceeds ==
    (run.out = "error" /\ faults = 0) => run.dirty \/ manifest.state = "broken"

(* The drift test's "want no writes on drift": an install that reports drift *)
(* from its plan has written nothing.                                        *)
NoWritesOnDrift ==
    [][(run.out = "" /\ run'.out \in {"drift", "mismatch"}) => manifest' = manifest]_vars
=============================================================================
