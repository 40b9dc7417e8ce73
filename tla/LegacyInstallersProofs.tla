----------------------- MODULE LegacyInstallersProofs -----------------------
(***************************************************************************)
(* The installers without a journal, for every set of files, overlays and  *)
(* revisions, and every number of releases, installs, edits and failed     *)
(* steps: no text of the user is lost, ok means installed, nothing is      *)
(* owned that was not written, and the pointer names a whole pair; and     *)
(* opencode.json, merged over and over, keeps what is the user's.          *)
(***************************************************************************)
EXTENDS LegacyInstallers, Integers, TLAPS

\* The bounds are numbers.
LEMMA Bounds ==
  /\ MaxInstalls \in Nat /\ MaxFaults \in Nat /\ PiEdits \in Nat /\ MaxEdits \in Nat
  /\ DocEdits \in Nat /\ MaxReviews \in Nat /\ MaxDamage \in Nat
BY BoundsAreNumbers

-----------------------------------------------------------------------------
(* The installer of Pi *)

\* What an install of Pi is, does and meets.
PiActions == {"none", "unchanged", "create", "update", "delete"}
PiOuts == {"", "drift", "error", "mismatch", "ok", "died"}
PiRun == [of : Pi!Releases, planned : [Pi!Paths -> PiActions], done : [Pi!Paths -> PiActions],
          conflicts : SUBSET Overlays, failed : SUBSET Pi!Files, full : BOOLEAN,
          moved : BOOLEAN, dirty : BOOLEAN, listed : SUBSET Overlays, out : PiOuts]
PiSteps == {"cleanups", "files", "overlays", "stale"}

PiManifests == [state : {"none", "read", "broken"}, listed : SUBSET Overlays]

PiTypes ==
  /\ files \in [Pi!Paths -> Pi!Content] /\ release \in Pi!Releases
  /\ backups \in [1..MaxInstalls -> [Pi!Paths -> Pi!Content]]
  /\ manifest \in PiManifests /\ (manifest.state # "read" => manifest.listed = {})
  /\ stage \in {"idle", "planned"} \cup PiSteps /\ todo \subseteq Pi!Paths
  /\ held \in {Pi!Nothing} \cup [path : Pi!Paths, to : Pi!Content]
  /\ run \in PiRun /\ clock \in 0..MaxInstalls /\ edits \in 0..PiEdits
  /\ owed \subseteq Pi!Paths \X (1..PiEdits)

\* The paths of the stage and of those after it, and how far they are decided.
PiWork ==
  /\ stage \in {"idle", "planned"} => todo = {} /\ held = Pi!Nothing
  /\ held # Pi!Nothing => held.path \in todo /\ held.path = Pi!Upcoming
  /\ stage # "idle" => clock > 0 /\ run.of = release /\ run.out = ""
  /\ stage = "cleanups" => todo \subseteq Cleanups
  /\ stage = "files" => todo \subseteq Pi!Files
  /\ stage = "overlays" => todo \subseteq Rendered[release]
  /\ stage = "stale" => todo \subseteq manifest.listed \ Rendered[release]
  /\ stage \in {"planned", "cleanups", "files"} => run.listed = {} /\ run.conflicts = {}
  /\ stage \in {"overlays", "stale"} =>
       /\ run.listed \cup run.conflicts \subseteq Rendered[release]
       /\ run.listed \cap run.conflicts = {}
       /\ Rendered[release] \ (todo \ {held.path}) \subseteq run.listed \cup run.conflicts
       /\ todo \cap run.conflicts = {} /\ todo \cap run.listed \subseteq {held.path}

\* The paths no step of this install has come to yet.
Ahead ==
  CASE stage = "planned" -> Pi!Paths
    [] stage = "cleanups" -> Pi!Files \cup Overlays \cup (todo \ {held.path})
    [] stage = "files" -> Overlays \cup (todo \ {held.path})
    [] stage = "overlays" -> (Overlays \ Rendered[release]) \cup (todo \ {held.path})
    [] stage = "stale" -> todo \ {held.path}
    [] OTHER -> {}

\* A text that was taken out of a file is in a backup; the backup root of this
\* install is still empty at what is ahead of it; and what its step is about to
\* take out is in it already.
PiBackups ==
  /\ \A o \in owed : \E s \in 1..MaxInstalls : backups[s][o[1]].user = o[2]
  /\ \A s \in 1..MaxInstalls : s > clock => \A q \in Pi!Paths : backups[s][q] = Pi!Absent
  /\ \A q \in Ahead : backups[clock][q] = Pi!Absent
  /\ held # Pi!Nothing =>
       files[held.path].user = 0 \/ backups[clock][held.path].user = files[held.path].user

\* What the step under way is going to write, and by which right.
PiHolds ==
  held # Pi!Nothing =>
    /\ held.to = IF stage \in {"files", "overlays"} THEN Pi!Desired(held.path, release)
                 ELSE Pi!Absent
    /\ held.path \in Overlays => (files[held.path] = Pi!Absent \/ held.path \in manifest.listed)

\* What is installed while nobody edits: the stages behind this install and the
\* part of this stage that is done.
Installed(q) == files[q] = [user |-> IF q \in Settings THEN files[q].user ELSE 0, lore |-> run.of]
CleanedUp == \A q \in Cleanups \ todo : files[q] = Pi!Absent
FilesDone == \A q \in Pi!Files \ todo : Installed(q) \/ q \in run.failed
OverlaysDone ==
  (\A q \in run.listed \ todo : Installed(q)) /\ (\A q \in run.conflicts : files[q] # Pi!Absent)
PiProgress ==
  /\ stage \in PiSteps => CleanedUp
  /\ stage \in {"files", "overlays", "stale"} => FilesDone
  /\ stage \in {"overlays", "stale"} =>
       OverlaysDone /\ (\A q \in run.conflicts : q \notin manifest.listed)
PiInv ==
  /\ PiTypes /\ PiWork /\ PiBackups /\ PiHolds
  /\ ~run.dirty => PiProgress
  /\ (~run.dirty /\ stage = "idle" /\ run.out = "ok") =>
       /\ CleanedUp /\ FilesDone /\ OverlaysDone /\ run.failed = {}
       /\ manifest.listed = run.listed /\ run.listed = Rendered[run.of] \ run.conflicts
       /\ run.conflicts \subseteq Rendered[run.of]

-----------------------------------------------------------------------------
(* The installers of Codex, OpenCode and Antigravity *)

PlannedRun ==
  [stage : {"idle", "planned", "writing"}, stamp : Nat, rendered : SUBSET Planned!Files,
   action : [Planned!Paths -> PiActions], desired : [Planned!Paths -> Planned!Content],
   todo : SUBSET Planned!Paths, held : {""} \cup Planned!Paths, found : BOOLEAN,
   failed : SUBSET Planned!Paths, dirty : BOOLEAN,
   out : {"", "conflict", "error", "dry", "ok", "failed", "dead"}]

PlannedTypes ==
  /\ target \in {"codex", "opencode", "antigravity"} /\ agentcfg \in BOOLEAN
  /\ files \in [Planned!Paths -> Planned!Content]
  /\ manifest \in Planned!Manifest /\ (manifest.state # "read" => manifest.listed = {})
  /\ backups \in [1..MaxInstalls -> [Planned!Paths -> Planned!Content]]
  /\ run \in [{"a"} -> PlannedRun] /\ runs \in 0..MaxInstalls /\ clock = runs
  /\ edits \in 0..MaxEdits
  /\ owed \subseteq Planned!Paths \X (Planned!Content \ {Planned!Absent})

\* What the install is about to do with a path, decided from the file as it is.
Due(q, r) ==
  /\ r.action[q] \notin {"none", "unchanged"}
  /\ r.action[q] = "create" <=> files[q] = Planned!Absent
  /\ q = Legacy => Planned!OwnsLegacy /\ r.action[q] = "delete" /\ r.desired[q] = Planned!Absent
  /\ q # Legacy => r.desired[q] = Planned!Desired(q)
  /\ q \in Merged => ~Planned!Refused(q)

\* An install writes what it has planned while nobody edits.
PlannedWork ==
  LET r == run["a"] IN
  /\ r.stage # "idle" => runs > 0 /\ r.stamp = clock /\ ~r.dirty
  /\ r.stage \in {"idle", "planned"} => r.todo = {} /\ r.held = ""
  /\ r.held # "" => r.held = Planned!Upcoming("a") /\ r.held \in r.todo
  /\ r.stage = "planned" => r.failed = {}
  /\ r.stage = "writing" =>
       /\ \A q \in r.todo : Due(q, r)
       /\ target = "codex" => r.failed = {}
       /\ \A q \in r.rendered \ (r.todo \cup r.failed) : files[q].lore = "new"
       /\ r.action[Legacy] = "delete" /\ Legacy \notin r.todo \cup r.failed =>
            files[Legacy] = Planned!Absent

\* As for Pi, but of whole files; the roots of dry runs stay empty.
PlannedBackups ==
  LET r == run["a"] IN
  /\ \A o \in owed : \E s \in 1..MaxInstalls : backups[s][o[1]] = o[2]
  /\ \A s \in 1..MaxInstalls : s > clock => \A q \in Planned!Paths : backups[s][q] = Planned!Absent
  /\ r.stage = "planned" => \A q \in Planned!Paths : backups[clock][q] = Planned!Absent
  /\ r.stage = "writing" => \A q \in r.todo \ {r.held} : backups[clock][q] = Planned!Absent
  /\ r.held # "" => files[r.held] = Planned!Absent \/ backups[clock][r.held] = files[r.held]

PlannedInv ==
  PlannedTypes /\ PlannedWork /\ PlannedBackups /\ Planned!OkIsInstalled

-----------------------------------------------------------------------------
(* The bounded review pair *)

\* A reader of the revision finds a whole pair or what somebody else has left.
Safe(r) == r = 0 \/ r \in damaged \/ Review!Coherent(releases[r])

ReviewProc ==
  [pc : {"idle", "clear", "judge", "fix", "manifest", "validate", "inspect", "reuse", "rename",
         "point", "restore", "unpublish", "discard", "done", "failed"},
   rev : Revisions \cup {0}, old : Revisions \cup {0}, created : BOOLEAN]

\* The old pair stays whole until the pointer has moved from it; what is pointed
\* to is whole when it is; and a directory that is taken away again is not that
\* of the old pair, or the old pair was damaged.
ReviewInv ==
  LET p == proc["a"] IN
  /\ staging \in [Revisions -> Review!Dir] /\ releases \in [Revisions -> Review!Dir]
  /\ pointer \in Revisions \cup {0} /\ damaged \subseteq Revisions
  /\ proc \in [{"a"} -> ReviewProc]
  /\ runs \in 0..MaxReviews /\ faults \in 0..1
  /\ \A r \in Revisions : /\ ~staging[r].made => staging[r].parts = {}
                          /\ ~releases[r].made => releases[r].parts = {}
  /\ Safe(pointer) \/ p.pc = "restore"
  /\ p.pc # "idle" =>
       /\ p.rev \in Revisions /\ Safe(p.old)
       /\ p.pc = "restore" => pointer \in {p.old, p.rev} /\ faults = 1
       /\ p.pc = "done" => pointer = p.rev
       /\ p.pc \notin {"restore", "done"} => pointer = p.old
       /\ p.pc \in {"reuse", "point", "restore"} => Safe(p.rev)
       /\ p.pc \in {"inspect", "rename"} => Review!Coherent(staging[p.rev])
       /\ p.pc = "rename" => ~releases[p.rev].made
  /\ p.created => /\ p.pc \in {"point", "restore", "unpublish"}
                  /\ p.old # p.rev \/ p.rev \in damaged
  /\ p.pc = "unpublish" => p.created

-----------------------------------------------------------------------------
(* The merge of opencode.json *)

\* What the installs and edits make of the document.  A model stands only in a
\* file; a token stands with its server; and what a successful install has
\* written, the next one would write again.
Settled == Document!Conflict \/ ~Document!StartupSafe(Document!Desired) \/ Document!Desired = file
DocumentInv ==
  /\ Document!TypeOK
  /\ file.model # "none" => file.exists
  /\ Document!TokenStaysHome
  /\ result = "ok" => Settled

-----------------------------------------------------------------------------
\* The installer that runs, and the review pair at rest.
LegacyInv ==
  /\ installer = "pi" => PiInv
  /\ installer = "planned" => PlannedInv
  /\ installer = "merge" => DocumentInv
  /\ IF installer = "review" THEN ReviewInv
     ELSE pointer = 0 /\ proc = [i \in {"a"} |-> Review!Idle]
-----------------------------------------------------------------------------
(* The steps of the review pair *)

ReviewPcs == {"idle", "clear", "judge", "fix", "manifest", "validate", "inspect", "reuse", "rename",
              "point", "restore", "unpublish", "discard", "done", "failed"}

\* An install moves on, with or without what it has created.
LEMMA ReviewMoves ==
  ASSUME proc \in [{"a"} -> ReviewProc], NEW pc \in ReviewPcs
  PROVE  /\ Review!GoTo("a", pc) =>
              /\ proc' \in [{"a"} -> ReviewProc] /\ proc'["a"].pc = pc
              /\ proc'["a"].rev = proc["a"].rev /\ proc'["a"].old = proc["a"].old
              /\ proc'["a"].created = proc["a"].created
         /\ Review!Leave("a", pc) =>
              /\ proc' \in [{"a"} -> ReviewProc] /\ proc'["a"].pc = pc
              /\ proc'["a"].rev = proc["a"].rev /\ proc'["a"].old = proc["a"].old
              /\ ~proc'["a"].created
BY DEF ReviewProc, ReviewPcs, Review!GoTo, Review!Leave

\* A removal, whole or half, leaves a directory, and takes nothing from others.
LEMMA StageRemoved ==
  ASSUME ReviewInv, proc["a"].rev \in Revisions, Review!RemoveStage("a")
  PROVE  /\ staging' \in [Revisions -> Review!Dir] /\ faults' \in 0..1 /\ faults <= faults'
         /\ \A r \in Revisions : ~staging'[r].made => staging'[r].parts = {}
<1>1. PICK left \in SUBSET staging[proc["a"].rev].parts, made \in BOOLEAN :
        /\ left # {} => made
        /\ Review!Removed([made |-> made, parts |-> left])
        /\ staging' = [staging EXCEPT ![proc["a"].rev] = [made |-> made, parts |-> left]]
  BY DEF Review!RemoveStage
<1>2. [made |-> made, parts |-> left] \in Review!Dir  BY DEF ReviewInv, Review!Dir
<1>3. faults' \in 0..1 /\ faults <= faults'
  BY <1>1 DEF ReviewInv, Review!Removed, Review!NoFault, Review!Fault
<1> QED  BY <1>1, <1>2, <1>3 DEF ReviewInv

\* An install renders its pair and reads the pointer.
LEMMA ReviewBegin == ASSUME ReviewInv, Review!Begin("a")  PROVE ReviewInv'
<1>1. PICK r \in Revisions :
        proc' = [proc EXCEPT !["a"] = [pc |-> "clear", rev |-> r, old |-> pointer, created |-> FALSE]]
  BY DEF Review!Begin
<1>2. proc["a"].pc = "idle"  BY DEF Review!Begin, Review!At
<1>3. proc' \in [{"a"} -> ReviewProc]
      /\ proc'["a"] = [pc |-> "clear", rev |-> r, old |-> pointer, created |-> FALSE]
  BY <1>1 DEF ReviewInv, ReviewProc
<1>4. runs' \in 0..MaxReviews  BY Bounds DEF Review!Begin, ReviewInv
<1>5. UNCHANGED <<staging, releases, pointer, faults, damaged>>  BY DEF Review!Begin
<1> QED  BY <1>2, <1>3, <1>4, <1>5 DEF ReviewInv, Safe

\* Steps in the staging directory.
LEMMA ReviewClears ==
  ASSUME ReviewInv, Review!Clear("a") \/ Review!Discard("a") \/ Review!Reuse("a")
  PROVE  ReviewInv'
<1> DEFINE p == proc["a"]
<1>1. PICK pc \in {"judge", "failed", "point"} :
        /\ pc = "judge" => p.pc = "clear" /\ Review!GoTo("a", pc)
        /\ pc = "failed" => p.pc = "discard" /\ Review!Leave("a", pc)
        /\ pc = "point" => p.pc = "reuse" /\ Review!GoTo("a", pc)
  BY DEF Review!Clear, Review!Discard, Review!Reuse, Review!At
<1>2. p.pc \in {"clear", "discard", "reuse"} /\ p.rev \in Revisions
  BY <1>1 DEF ReviewInv
<1>3. Review!RemoveStage("a") /\ UNCHANGED <<releases, pointer, runs, damaged>>
  BY DEF Review!Clear, Review!Discard, Review!Reuse
<1>4. /\ proc' \in [{"a"} -> ReviewProc] /\ proc'["a"].pc = pc
      /\ proc'["a"].rev = p.rev /\ proc'["a"].old = p.old
      /\ proc'["a"].created => p.created
  BY <1>1, ReviewMoves DEF ReviewInv, ReviewPcs
<1> QED  BY <1>1, <1>2, <1>3, <1>4, StageRemoved DEF ReviewInv, Safe

\* A part is written into the staging directory, or the install gives it up.
LEMMA ReviewStages ==
  ASSUME ReviewInv, NEW part \in Review!Parts, Review!StagePart("a", part)
  PROVE  ReviewInv'
<1> DEFINE p == proc["a"]
<1>1. p.pc = part /\ p.rev \in Revisions /\ ~p.created /\ part \in {"judge", "fix", "manifest"}
  BY DEF Review!StagePart, Review!At, Review!Parts, ReviewInv
<1>2. PICK pc \in {"fix", "manifest", "validate", "failed", "discard"} :
        Review!GoTo("a", pc) \/ Review!Leave("a", pc)
  BY <1>1 DEF Review!StagePart, Review!After
<1>3. /\ proc' \in [{"a"} -> ReviewProc] /\ proc'["a"].pc = pc
      /\ proc'["a"].rev = p.rev /\ proc'["a"].old = p.old /\ ~proc'["a"].created
  BY <1>1, <1>2, ReviewMoves DEF ReviewInv, ReviewPcs
<1>4. faults' \in 0..1
  BY DEF ReviewInv, Review!StagePart, Review!NoFault, Review!Fault
<1>5. /\ staging' \in [Revisions -> Review!Dir]
      /\ \A r \in Revisions : ~staging'[r].made => staging'[r].parts = {}
  <2>1. Review!Staged("a", part) \/ UNCHANGED staging  BY DEF Review!StagePart
  <2>2. CASE UNCHANGED staging  BY <2>2 DEF ReviewInv
  <2>3. CASE Review!Staged("a", part)
    <3> DEFINE dir == [made |-> TRUE, parts |-> staging[p.rev].parts \cup {part}]
    <3>1. staging' = [staging EXCEPT ![p.rev] = dir]  BY <2>3 DEF Review!Staged
    <3>2. dir \in Review!Dir /\ dir.made  BY <1>1 DEF ReviewInv, Review!Dir
    <3> HIDE DEF dir
    <3> QED  BY <1>1, <3>1, <3>2 DEF ReviewInv
  <2> QED  BY <2>1, <2>2, <2>3
<1>6. UNCHANGED <<releases, pointer, runs, damaged>>  BY DEF Review!StagePart
<1> QED  BY <1>1, <1>2, <1>3, <1>4, <1>5, <1>6 DEF ReviewInv, Safe

\* What is moved or used is whole.
LEMMA ReviewLooks ==
  ASSUME ReviewInv, Review!Validate("a") \/ Review!Inspect("a")
  PROVE  ReviewInv'
<1> DEFINE p == proc["a"]
<1>1. /\ p.pc \in {"validate", "inspect"} /\ p.rev \in Revisions /\ ~p.created
      /\ UNCHANGED <<staging, releases, pointer, runs, faults, damaged>>
  BY DEF Review!Validate, Review!Inspect, Review!At, ReviewInv
<1>2. PICK pc \in {"inspect", "discard", "rename", "reuse"} :
        /\ Review!GoTo("a", pc)
        /\ pc \in {"inspect", "rename"} => Review!Coherent(staging[p.rev])
        /\ pc = "rename" => ~releases[p.rev].made
        /\ pc = "reuse" => Review!Coherent(releases[p.rev])
  BY DEF Review!Validate, Review!Inspect, Review!At, ReviewInv
<1>3. /\ proc' \in [{"a"} -> ReviewProc] /\ proc'["a"].pc = pc
      /\ proc'["a"].rev = p.rev /\ proc'["a"].old = p.old /\ ~proc'["a"].created
  BY <1>1, <1>2, ReviewMoves DEF ReviewInv, ReviewPcs
<1> QED  BY <1>1, <1>2, <1>3 DEF ReviewInv, Safe

\* The staged pair, which is whole, becomes the directory of its revision.
LEMMA ReviewRename == ASSUME ReviewInv, Review!Rename("a")  PROVE ReviewInv'
<1> DEFINE p == proc["a"]  r == p.rev
<1>1. /\ p.pc = "rename" /\ r \in Revisions /\ ~p.created /\ pointer = p.old /\ Safe(p.old)
      /\ Review!Coherent(staging[r]) /\ ~releases[r].made
      /\ UNCHANGED <<pointer, runs, damaged>>
  BY DEF Review!Rename, Review!At, ReviewInv
<1>2. CASE /\ releases' = [releases EXCEPT ![r] = staging[r]] /\ Review!NoFault
           /\ staging' = [staging EXCEPT ![r] = Review!NoDir]
           /\ proc' = [proc EXCEPT !["a"].pc = "point", !["a"].created = TRUE]
  <2>1. /\ proc' \in [{"a"} -> ReviewProc] /\ proc'["a"].pc = "point"
        /\ proc'["a"].rev = r /\ proc'["a"].old = p.old /\ proc'["a"].created
    BY <1>2 DEF ReviewInv, ReviewProc
  <2>2. /\ staging' \in [Revisions -> Review!Dir] /\ releases' \in [Revisions -> Review!Dir]
        /\ \A x \in Revisions : /\ ~staging'[x].made => staging'[x].parts = {}
                                /\ ~releases'[x].made => releases'[x].parts = {}
    BY <1>1, <1>2 DEF ReviewInv, Review!Dir, Review!NoDir
  <2>3. p.old # r \/ r \in damaged
    BY <1>1, ReviewNumbers DEF Safe, Review!Coherent, Review!RevisionsAreNumbers
  <2>4. \A x \in Revisions : Safe(x) => Safe(x)'  BY <1>1, <1>2 DEF Safe, ReviewInv
  <2>5. Safe(r)'  BY <1>1, <1>2, <2>1 DEF Safe, ReviewInv
  <2>6. Safe(p.old)'
    <3>1. p.old \in Revisions \cup {0}  BY DEF ReviewInv, ReviewProc
    <3> QED  BY <1>1, <2>1, <2>4, <3>1 DEF Safe
  <2> QED  BY <1>1, <1>2, <2>1, <2>2, <2>3, <2>5, <2>6 DEF ReviewInv, Review!NoFault, Safe
<1>3. CASE Review!GoTo("a", "discard") /\ UNCHANGED <<staging, releases>>
  <2>1. /\ proc' \in [{"a"} -> ReviewProc] /\ proc'["a"].pc = "discard"
        /\ proc'["a"].rev = r /\ proc'["a"].old = p.old /\ ~proc'["a"].created
    BY <1>1, <1>3, ReviewMoves DEF ReviewInv, ReviewPcs
  <2>2. faults' \in 0..1  BY DEF ReviewInv, Review!Rename, Review!NoFault, Review!Fault
  <2> QED  BY <1>1, <1>3, <2>1, <2>2 DEF ReviewInv, Safe
<1> QED  BY <1>2, <1>3 DEF Review!Rename

\* A pointer that may have moved is written back, as this was the failed call.
LEMMA ReviewPoints ==
  ASSUME ReviewInv, Review!Point("a") \/ Review!Restore("a")
  PROVE  ReviewInv'
<1> DEFINE p == proc["a"]
<1>1. /\ p.pc \in {"point", "restore"} /\ p.rev \in Revisions /\ Safe(p.old) /\ Safe(p.rev)
      /\ UNCHANGED <<staging, releases, runs, damaged>>
  BY DEF Review!Point, Review!Restore, Review!At, ReviewInv
<1>2. CASE Review!Point("a")
  <2>1. p.pc = "point" /\ pointer = p.old  BY <1>2 DEF Review!Point, Review!At, ReviewInv
  <2>2. CASE pointer' = p.rev /\ Review!NoFault /\ Review!Leave("a", "done")
    <3>1. /\ proc' \in [{"a"} -> ReviewProc] /\ proc'["a"].pc = "done"
          /\ proc'["a"].rev = p.rev /\ proc'["a"].old = p.old /\ ~proc'["a"].created
      BY <2>2, ReviewMoves DEF ReviewInv, ReviewPcs
    <3> QED  BY <1>1, <2>2, <3>1 DEF ReviewInv, Safe, Review!NoFault
  <2>3. CASE pointer' \in {pointer, p.rev} /\ Review!Fault /\ Review!GoTo("a", "restore")
    <3>1. /\ proc' \in [{"a"} -> ReviewProc] /\ proc'["a"].pc = "restore"
          /\ proc'["a"].rev = p.rev /\ proc'["a"].old = p.old /\ proc'["a"].created = p.created
      BY <2>3, ReviewMoves DEF ReviewInv, ReviewPcs
    <3>2. faults' = 1  BY <2>3 DEF ReviewInv, Review!Fault
    <3> QED  BY <1>1, <2>1, <2>3, <3>1, <3>2 DEF ReviewInv, Safe
  <2> QED  BY <1>2, <2>2, <2>3 DEF Review!Point
<1>3. CASE Review!Restore("a")
  <2>1. p.pc = "restore" /\ faults = 1  BY <1>3 DEF Review!Restore, Review!At, ReviewInv
  <2>2. pointer' = p.old /\ faults' = faults
    BY <1>3, <2>1 DEF Review!Restore, Review!NoFault, Review!Fault
  <2>3. PICK pc \in {"unpublish", "failed"} :
          /\ pc = "unpublish" => p.created /\ Review!GoTo("a", pc)
          /\ pc = "failed" => Review!Leave("a", pc)
    BY <1>3 DEF Review!Restore
  <2>4. /\ proc' \in [{"a"} -> ReviewProc] /\ proc'["a"].pc = pc
        /\ proc'["a"].rev = p.rev /\ proc'["a"].old = p.old
        /\ pc = "unpublish" => proc'["a"].created = p.created
        /\ pc = "failed" => ~proc'["a"].created
    BY <2>3, ReviewMoves DEF ReviewInv, ReviewPcs
  <2>5. Safe(pointer)' /\ Safe(p.old)'  BY <1>1, <2>2, <2>4 DEF Safe
  <2>6. proc'["a"].created => p.old # p.rev \/ p.rev \in damaged
    BY <2>3, <2>4 DEF ReviewInv
  <2>7. proc'["a"].created <=> proc'["a"].pc = "unpublish"  BY <2>3, <2>4
  <2>8. pointer' \in Revisions \cup {0}  BY <2>2 DEF ReviewInv, ReviewProc
  <2> QED  BY <1>1, <2>2, <2>4, <2>5, <2>6, <2>7, <2>8 DEF ReviewInv
<1> QED  BY <1>2, <1>3

\* What is removed is not what the pointer names, unless that was damaged.
LEMMA ReviewUnpublishes == ASSUME ReviewInv, Review!Unpublish("a")  PROVE ReviewInv'
<1> DEFINE p == proc["a"]  r == p.rev
<1>1. /\ p.pc = "unpublish" /\ r \in Revisions /\ pointer = p.old /\ Safe(p.old)
      /\ p.old # r \/ r \in damaged
      /\ UNCHANGED <<staging, pointer, runs, damaged>>
  BY DEF Review!Unpublish, Review!At, ReviewInv
<1>2. PICK left \in SUBSET releases[r].parts, made \in BOOLEAN :
        /\ left # {} => made
        /\ Review!Removed([made |-> made, parts |-> left])
        /\ releases' = [releases EXCEPT ![r] = [made |-> made, parts |-> left]]
  BY DEF Review!Unpublish
<1>3. [made |-> made, parts |-> left] \in Review!Dir  BY <1>1 DEF ReviewInv, Review!Dir
<1>4. /\ releases' \in [Revisions -> Review!Dir]
      /\ \A x \in Revisions : ~releases'[x].made => releases'[x].parts = {}
  BY <1>2, <1>3 DEF ReviewInv
<1>5. faults' \in 0..1  BY <1>2 DEF ReviewInv, Review!Removed, Review!NoFault, Review!Fault
<1>6. /\ proc' \in [{"a"} -> ReviewProc] /\ proc'["a"].pc = "failed"
      /\ proc'["a"].rev = r /\ proc'["a"].old = p.old /\ ~proc'["a"].created
  <2>1. Review!Leave("a", "failed")  BY DEF Review!Unpublish
  <2> QED  BY <2>1, ReviewMoves DEF ReviewInv, ReviewPcs
<1>7. Safe(p.old)'  BY <1>1, <1>2, <1>6 DEF Safe, ReviewInv, ReviewProc
<1> QED  BY <1>1, <1>4, <1>5, <1>6, <1>7 DEF ReviewInv, Safe

\* An install ends, or dies where its pointer is the old one or a whole pair's.
LEMMA ReviewEnds ==
  ASSUME ReviewInv, Review!Return("a") \/ Review!Die("a")
  PROVE  ReviewInv'
<1>1. /\ proc' = [proc EXCEPT !["a"] = Review!Idle]
      /\ UNCHANGED <<staging, releases, pointer, runs, faults, damaged>>
  BY DEF Review!Return, Review!Die
<1>2. proc' \in [{"a"} -> ReviewProc] /\ proc'["a"] = Review!Idle
  BY <1>1 DEF ReviewInv, ReviewProc, Review!Idle
<1>3. Safe(pointer)  BY DEF ReviewInv, Safe
<1> QED  BY <1>1, <1>2, <1>3 DEF ReviewInv, Safe, Review!Idle

\* Who takes a part away has damaged the revision.
LEMMA ReviewDamage == ASSUME ReviewInv, Review!Damage  PROVE ReviewInv'
<1>1. PICK r \in Revisions : \E part \in releases[r].parts :
        /\ releases' = [releases EXCEPT ![r].parts = @ \ {part}]
        /\ damaged' = damaged \cup {r}
        /\ UNCHANGED <<staging, pointer, proc, runs, faults>>
  BY DEF Review!Damage
<1>2. PICK part \in releases[r].parts : releases' = [releases EXCEPT ![r].parts = @ \ {part}]
  BY <1>1
<1>3. /\ releases' \in [Revisions -> Review!Dir]
      /\ \A x \in Revisions : /\ releases'[x].made = releases[x].made
                              /\ releases'[x].parts \subseteq releases[x].parts
                              /\ x # r => releases'[x] = releases[x]
  BY <1>2 DEF ReviewInv, Review!Dir
<1>4. \A x \in Revisions \cup {0} : Safe(x) => Safe(x)'
  BY <1>1, <1>3 DEF Safe, Review!Coherent
<1>5. Safe(pointer)' \/ proc["a"].pc = "restore"  BY <1>1, <1>4 DEF ReviewInv, Safe
<1>6. proc["a"].pc # "idle" => Safe(proc["a"].old)' /\ (Safe(proc["a"].rev) => Safe(proc["a"].rev)')
  BY <1>1, <1>4 DEF ReviewInv, ReviewProc, Safe
<1> QED  BY <1>1, <1>3, <1>5, <1>6 DEF ReviewInv, Safe

\* Every step of the review pair.
LEMMA ReviewStep == ASSUME ReviewInv, Review!Next  PROVE ReviewInv'
BY ReviewBegin, ReviewClears, ReviewStages, ReviewLooks, ReviewRename, ReviewPoints,
   ReviewUnpublishes, ReviewEnds, ReviewDamage DEF Review!Next

-----------------------------------------------------------------------------
(* The steps of the installers of Codex, OpenCode and Antigravity *)

PlannedOuts == {"", "conflict", "error", "dry", "ok", "failed", "dead"}

\* What is known of contents and of the path that is next.
LEMMA PlannedContents ==
  /\ Planned!Absent \in Planned!Content /\ Planned!Absent.user = 0 /\ Planned!Absent.lore = ""
  /\ Planned!Absent.foreign = {}
  /\ "" \notin Planned!Paths /\ Legacy \in Planned!Paths /\ Legacy \notin Planned!Files
  /\ Planned!Files \subseteq Planned!Paths /\ Merged \subseteq Planned!Files
  /\ \A q \in Planned!Paths : q = Legacy \/ q \in Planned!Files
<1>1. /\ Planned!Absent \in Planned!Content /\ Planned!Absent.user = 0 /\ Planned!Absent.lore = ""
      /\ Planned!Absent.foreign = {}
  BY Bounds DEF Planned!Absent, Planned!Content
<1>2. "" \notin Planned!Paths /\ Legacy \notin Planned!Files
  BY PlannedPaths DEF Planned!PathsAreApart
<1> QED  BY <1>1, <1>2 DEF Planned!Paths, Planned!Files

\* Every install, dry runs included, has a second of its own.
LEMMA PlannedCounts ==
  ASSUME PlannedTypes
  PROVE  clock = runs /\ runs \in Nat /\ clock \in Nat /\ runs <= MaxInstalls
BY Bounds DEF PlannedTypes

\* Once there has been an install, its second is one of the bounded ones.
LEMMA PlannedSecond ==
  ASSUME PlannedTypes, runs > 0
  PROVE  clock \in 1..MaxInstalls
BY PlannedCounts, Bounds

\* An install moves on.
LEMMA PlannedMoves ==
  ASSUME run \in [{"a"} -> PlannedRun], NEW w \in PlannedRun, run' = [run EXCEPT !["a"] = w]
  PROVE  run' \in [{"a"} -> PlannedRun] /\ run'["a"] = w
OBVIOUS

\* What is rendered is a content of this release, with the user's text and with
\* every entry that the merge does not put lore's in the place of.
LEMMA PlannedDesired ==
  ASSUME PlannedTypes, NEW q \in Planned!Paths
  PROVE  /\ Planned!Desired(q) \in Planned!Content /\ Planned!Desired(q).lore = "new"
         /\ q \in Merged => /\ Planned!Desired(q).user = files[q].user
                           /\ Planned!Desired(q).foreign = files[q].foreign \ Planned!TakenOver(q)
<1>1. files[q].user \in 0..MaxEdits /\ files[q].foreign \subseteq Planned!Names
  BY DEF PlannedTypes, Planned!Content
<1> DEFINE user == IF q \in Merged THEN files[q].user ELSE 0
           foreign == IF q \in Merged THEN files[q].foreign \ Planned!TakenOver(q) ELSE {}
<1>2. user \in 0..MaxEdits /\ foreign \subseteq Planned!Names  BY <1>1, Bounds
<1> HIDE DEF user, foreign
<1>3. Planned!Desired(q) = [user |-> user, lore |-> "new", foreign |-> foreign]
  BY DEF Planned!Desired, user, foreign
<1> QED  BY <1>2, <1>3 DEF Planned!Content, user, foreign

\* A file that its merge does not refuse keeps what is guarded of it.
LEMMA PlannedGuards ==
  ASSUME PlannedTypes, NEW q \in Merged, ~Planned!Refused(q)
  PROVE  Planned!Guarded(q) \subseteq Planned!Desired(q).foreign
<1>1. q \in Planned!Paths  BY PlannedContents
<1>2. Planned!Desired(q).foreign = files[q].foreign \ Planned!TakenOver(q)
  BY <1>1, PlannedDesired
<1>3. files[q].foreign \subseteq {"lore", "context7"}
  BY <1>1 DEF PlannedTypes, Planned!Content, Planned!Names
<1>4. CASE target = "opencode"
  BY <1>4 DEF Planned!Refused, Planned!OpenCodeRefuses, Planned!Guarded
<1>5. CASE target = "antigravity"
  BY <1>5 DEF Planned!Refused, Planned!AntigravityRefuses, Planned!Guarded
<1>6. CASE target = "codex"
  <2>1. ASSUME NEW e \in Planned!Guarded(q) PROVE e \notin Planned!TakenOver(q)
    BY <1>6, <2>1 DEF Planned!Guarded, Planned!TakenOver, Planned!CodexTakesOver,
      Planned!CodexOwnsConfig
  <2>2. Planned!Guarded(q) \subseteq files[q].foreign  BY DEF Planned!Guarded
  <2> QED  BY <1>2, <2>1, <2>2
<1> QED  BY <1>4, <1>5, <1>6 DEF PlannedTypes

\* What is planned of a path goes by the path and the manifest alone.
LEMMA PlannedUnmoved ==
  ASSUME NEW q, files'[q] = files[q], UNCHANGED <<target, manifest>>
  PROVE  /\ Planned!Desired(q)' = Planned!Desired(q)
         /\ Planned!Refused(q)' <=> Planned!Refused(q)
         /\ q = Legacy => (Planned!OwnsLegacy' <=> Planned!OwnsLegacy)
<1>1. Planned!CodexOwnsConfig(q)' <=> Planned!CodexOwnsConfig(q)  BY DEF Planned!CodexOwnsConfig
<1>2. Planned!TakenOver(q)' = Planned!TakenOver(q)
  BY <1>1 DEF Planned!TakenOver, Planned!CodexTakesOver, Planned!Names
<1>3. Planned!Desired(q)' = Planned!Desired(q)  BY <1>2 DEF Planned!Desired
<1>4. Planned!Refused(q)' <=> Planned!Refused(q)  BY <1>1 DEF Planned!Refused, Planned!CodexRefuses, Planned!OpenCodeRefuses,
    Planned!AntigravityRefuses
<1>5. q = Legacy => (Planned!OwnsLegacy' <=> Planned!OwnsLegacy)
  BY DEF Planned!OwnsLegacy, Planned!CodexOwnsLegacy, Planned!OpenCodeOwnsLegacy
<1> QED  BY <1>3, <1>4, <1>5

\* The path that is next is one that is still to be done.
LEMMA PlannedNext ==
  ASSUME PlannedTypes, run["a"].todo # {}
  PROVE  Planned!Upcoming("a") \in run["a"].todo
<1>1. run["a"].todo \subseteq Planned!Paths  BY DEF PlannedTypes, PlannedRun
<1> QED  BY <1>1, PlannedContents DEF Planned!Upcoming

\* An install that ends keeps what it has planned and found.
LEMMA PlannedLeaves ==
  ASSUME PlannedTypes, NEW out \in PlannedOuts, Planned!End("a", out)
  PROVE  /\ run' \in [{"a"} -> PlannedRun]
         /\ run'["a"].stage = "idle" /\ run'["a"].todo = {} /\ run'["a"].held = ""
         /\ run'["a"].out = out /\ run'["a"].rendered = run["a"].rendered
         /\ run'["a"].action = run["a"].action /\ run'["a"].dirty = run["a"].dirty
         /\ run'["a"].failed = run["a"].failed
<1> DEFINE r == [run["a"] EXCEPT !.stage = "idle", !.todo = {}, !.held = "", !.out = out]
<1>1. run["a"] \in PlannedRun  BY DEF PlannedTypes
<1>2. /\ r \in PlannedRun /\ r.stage = "idle" /\ r.todo = {} /\ r.held = "" /\ r.out = out
      /\ r.rendered = run["a"].rendered /\ r.action = run["a"].action
      /\ r.dirty = run["a"].dirty /\ r.failed = run["a"].failed
  BY <1>1 DEF PlannedRun, PlannedOuts
<1>3. run' = [run EXCEPT !["a"] = r]  BY DEF PlannedTypes, Planned!End
<1> QED  BY <1>2, <1>3 DEF PlannedTypes

\* One that does not say ok has nothing to show for it.
LEMMA PlannedEnds ==
  ASSUME PlannedInv, NEW out \in PlannedOuts \ {"ok"}, Planned!End("a", out), agentcfg' \in BOOLEAN,
         files' \in [Planned!Paths -> Planned!Content],
         owed' \subseteq Planned!Paths \X (Planned!Content \ {Planned!Absent}),
         \A o \in owed' : \E s \in 1..MaxInstalls : backups[s][o[1]] = o[2],
         manifest' \in Planned!Manifest, manifest'.state # "read" => manifest'.listed = {},
         UNCHANGED <<target, backups, clock, runs, edits>>
  PROVE  PlannedInv'
<1>1. /\ run' \in [{"a"} -> PlannedRun]
      /\ run'["a"].stage = "idle" /\ run'["a"].todo = {} /\ run'["a"].held = "" /\ run'["a"].out = out
  BY PlannedLeaves DEF PlannedInv
<1>2. PlannedTypes'  BY <1>1 DEF PlannedInv, PlannedTypes
<1>3. PlannedWork'  BY <1>1 DEF PlannedWork
<1>4. PlannedBackups'  BY <1>1 DEF PlannedInv, PlannedBackups
<1>5. Planned!OkIsInstalled'  BY <1>1 DEF Planned!OkIsInstalled
<1> QED  BY <1>2, <1>3, <1>4, <1>5 DEF PlannedInv

\* The same where nothing is touched.
LEMMA PlannedStops ==
  ASSUME PlannedInv, NEW out \in PlannedOuts \ {"ok"}, Planned!End("a", out), agentcfg' \in BOOLEAN,
         UNCHANGED <<target, files, manifest, backups, clock, runs, edits, owed>>
  PROVE  PlannedInv'
BY PlannedEnds DEF PlannedInv, PlannedTypes, PlannedBackups

\* A plan has a backup root of its own.
LEMMA PlannedBegins ==
  ASSUME PlannedInv, Planned!Begin("a"), agentcfg' \in BOOLEAN
  PROVE  PlannedInv'
<1>1. run["a"].stage = "idle" /\ runs < MaxInstalls /\ runs' = runs + 1
      /\ UNCHANGED <<target, files, manifest, backups, edits, owed>>
  BY DEF Planned!Begin
<1>2. clock' = clock + 1  BY <1>1 DEF Planned!Begin
<1>3. /\ clock' \in 1..MaxInstalls /\ runs' = clock' /\ clock' \in Nat /\ runs' > 0
      /\ runs' \in 0..MaxInstalls /\ \A s \in 1..MaxInstalls : s >= clock' => s > clock
  <2>1. clock = runs /\ runs \in Nat  BY PlannedCounts DEF PlannedInv
  <2> QED  BY <1>1, <1>2, <2>1, Bounds
<1>4. \A q \in Planned!Paths, s \in 1..MaxInstalls : s >= clock' => backups[s][q] = Planned!Absent
  BY <1>3 DEF PlannedInv, PlannedBackups
<1>5. \A q \in Planned!Paths : backups[clock'][q] = Planned!Absent  BY <1>3, <1>4
<1>6. \A s \in 1..MaxInstalls : s > clock' => \A q \in Planned!Paths : backups[s][q] = Planned!Absent
  BY <1>3, <1>4
<1>7. PICK rendered \in Planned!Selections, st \in {"idle", "planned"},
           out \in {"conflict", "error", "dry", ""} :
        run' = [run EXCEPT !["a"] = [Planned!NoRun EXCEPT
                  !.stamp = clock', !.rendered = rendered, !.stage = st, !.out = out]]
  BY DEF Planned!Begin
<1> DEFINE r == [Planned!NoRun EXCEPT
                  !.stamp = clock', !.rendered = rendered, !.stage = st, !.out = out]
<1>8. rendered \subseteq Planned!Files  BY <1>7, Zenon DEF Planned!Selections
<1>9. [q \in Planned!Paths |-> Planned!Absent] \in [Planned!Paths -> Planned!Content]
  BY PlannedContents
<1>10. /\ r \in PlannedRun
       /\ r.stage = st /\ r.out = out /\ r.todo = {} /\ r.held = "" /\ ~r.dirty /\ r.failed = {}
       /\ r.stamp = clock'
  BY <1>3, <1>7, <1>8, <1>9 DEF PlannedRun, Planned!NoRun, Planned!NoActions, PiActions, PlannedOuts
<1> HIDE DEF r
<1>11. run' = [run EXCEPT !["a"] = r]  BY <1>7 DEF r
<1>12. run' \in [{"a"} -> PlannedRun] /\ run'["a"] = r
  BY <1>10, <1>11 DEF PlannedInv, PlannedTypes
<1>13. PlannedTypes'  BY <1>1, <1>3, <1>12 DEF PlannedInv, PlannedTypes
<1>14. PlannedWork'  BY <1>3, <1>7, <1>10, <1>12 DEF PlannedWork
<1>15. PlannedBackups'
  BY <1>1, <1>5, <1>6, <1>7, <1>10, <1>12 DEF PlannedInv, PlannedBackups
<1>16. Planned!OkIsInstalled'  BY <1>7, <1>10, <1>12 DEF Planned!OkIsInstalled
<1> QED  BY <1>13, <1>14, <1>15, <1>16 DEF PlannedInv

\* The second plan is about the files as they are now.
LEMMA PlannedExecutes == ASSUME PlannedInv, Planned!Execute("a")  PROVE PlannedInv'
<1>1. /\ run["a"].stage = "planned"
      /\ UNCHANGED <<target, files, manifest, backups, clock, runs, edits, owed>>
      /\ agentcfg' \in BOOLEAN
  BY DEF Planned!Execute, Planned!Replan, Planned!EnsureDefault, PlannedInv, PlannedTypes
<1>2. CASE Planned!End("a", "conflict") \/ Planned!End("a", "error")
  BY <1>1, <1>2, PlannedStops DEF PlannedOuts
<1>3. CASE ~(Planned!End("a", "conflict") \/ Planned!End("a", "error"))
  <2> DEFINE plan == Planned!PlanOf(run["a"].rendered)
             des == [q \in Planned!Paths |-> IF q = Legacy THEN Planned!Absent ELSE Planned!Desired(q)]
             due == {q \in Planned!Paths : plan[q] \notin {"none", "unchanged"}}
             r == run'["a"]
  <2>1. /\ ~Planned!Conflicts(run["a"].rendered)
        /\ run' = [run EXCEPT !["a"].stage = "writing", !["a"].action = plan, !["a"].desired = des,
                              !["a"].todo = due, !["a"].found = manifest.state # "none"]
    BY <1>3 DEF Planned!Execute, Planned!Replan
  <2>2. /\ plan \in [Planned!Paths -> PiActions]
        /\ \A q \in run["a"].rendered : plan[q] = Planned!ActionFor(q)
        /\ \A q \in Planned!Paths \ run["a"].rendered :
              plan[q] = IF q = Legacy /\ Planned!OwnsLegacy THEN "delete" ELSE "none"
    <3>1. run["a"].rendered \subseteq Planned!Paths
      BY PlannedContents DEF PlannedInv, PlannedTypes, PlannedRun
    <3> QED  BY <3>1 DEF Planned!PlanOf, Planned!ActionFor, PiActions
  <2>3. des \in [Planned!Paths -> Planned!Content]  BY PlannedContents, PlannedDesired DEF PlannedInv
  <2>4. due \subseteq Planned!Paths  OBVIOUS
  <2> HIDE DEF plan, des, due
  <2>5. /\ run' \in [{"a"} -> PlannedRun]
        /\ r.stage = "writing" /\ r.action = plan /\ r.desired = des /\ r.todo = due
        /\ r.held = "" /\ r.stamp = clock /\ ~r.dirty /\ r.failed = {}
        /\ r.rendered = run["a"].rendered /\ r.out = run["a"].out
    <3> DEFINE w == [run["a"] EXCEPT !.stage = "writing", !.action = plan, !.desired = des,
                                     !.todo = due, !.found = manifest.state # "none"]
    <3>1. run["a"] \in PlannedRun /\ run["a"].held = "" /\ run["a"].stamp = clock
          /\ ~run["a"].dirty /\ run["a"].failed = {}
      BY <1>1 DEF PlannedInv, PlannedTypes, PlannedWork
    <3>2. /\ w \in PlannedRun
          /\ w.stage = "writing" /\ w.action = plan /\ w.desired = des /\ w.todo = due
          /\ w.held = run["a"].held /\ w.stamp = run["a"].stamp /\ w.dirty = run["a"].dirty
          /\ w.failed = run["a"].failed /\ w.rendered = run["a"].rendered /\ w.out = run["a"].out
      BY <2>2, <2>3, <2>4, <3>1 DEF PlannedRun
    <3>3. run' = [run EXCEPT !["a"] = w]  BY <2>1 DEF PlannedInv, PlannedTypes
    <3> QED  BY <3>1, <3>2, <3>3 DEF PlannedInv, PlannedTypes
  <2>6. r.rendered \subseteq Planned!Files  BY <2>5 DEF PlannedInv, PlannedTypes, PlannedRun
  <2>7. ASSUME NEW q \in due PROVE Due(q, run["a"])'
    <3>1. CASE q \in run["a"].rendered
      <4>1. q \in Planned!Files /\ q # Legacy  BY <2>5, <2>6, <3>1, PlannedContents
      <4>2. plan[q] = Planned!ActionFor(q) /\ plan[q] \notin {"none", "unchanged"}
        BY <2>2, <3>1 DEF due
      <4>3. plan[q] = "create" <=> files[q] = Planned!Absent  BY <4>2 DEF Planned!ActionFor
      <4>4. des[q] = Planned!Desired(q)  BY <4>1, <2>4 DEF des
      <4>5. /\ Planned!Desired(q)' = Planned!Desired(q)
            /\ Planned!Refused(q)' <=> Planned!Refused(q)
        BY <1>1, PlannedUnmoved
      <4>6. q \in Merged => ~Planned!Refused(q)  BY <2>1, <3>1 DEF Planned!Conflicts
      <4> QED  BY <1>1, <2>5, <4>1, <4>2, <4>3, <4>4, <4>5, <4>6 DEF Due
    <3>2. CASE q \notin run["a"].rendered
      <4>1. q = Legacy /\ Planned!OwnsLegacy /\ plan[q] = "delete"  BY <2>2, <2>4, <3>2 DEF due
      <4>2. des[q] = Planned!Absent  BY <2>4, <4>1 DEF des
      <4>3. Planned!OwnsLegacy' /\ q \notin Merged  BY <1>1, <4>1, PlannedUnmoved, PlannedContents
      <4>4. files[q] # Planned!Absent  BY <4>1 DEF Planned!OwnsLegacy
      <4> QED  BY <1>1, <2>5, <4>1, <4>2, <4>3, <4>4 DEF Due
    <3> QED  BY <3>1, <3>2
  <2>8. \A q \in r.rendered \ due : files[q].lore = "new"
    <3> SUFFICES ASSUME NEW q \in r.rendered \ due PROVE files[q].lore = "new"  OBVIOUS
    <3>1. q \in Planned!Paths  BY <2>6, PlannedContents
    <3>2. Planned!ActionFor(q) = "unchanged"
      BY <2>2, <2>5, <3>1 DEF due, Planned!ActionFor
    <3>3. files[q] = Planned!Desired(q)  BY <3>2 DEF Planned!ActionFor
    <3> QED  BY <3>1, <3>3, PlannedDesired DEF PlannedInv
  <2>9. plan[Legacy] = "delete" => Legacy \in due  BY PlannedContents DEF due
  <2>10. PlannedTypes'  BY <1>1, <2>5 DEF PlannedInv, PlannedTypes
  <2>11. PlannedWork'
    <3>1. runs > 0  BY <1>1 DEF PlannedInv, PlannedWork
    <3> QED  BY <1>1, <2>5, <2>7, <2>8, <2>9, <3>1 DEF PlannedWork
  <2>12. PlannedBackups'
    BY <1>1, <2>4, <2>5 DEF PlannedInv, PlannedBackups
  <2>13. Planned!OkIsInstalled'  BY <2>5 DEF Planned!OkIsInstalled
  <2> QED  BY <2>10, <2>11, <2>12, <2>13 DEF PlannedInv
<1> QED  BY <1>2, <1>3

\* What an update or a deletion finds is backed up; a creation finds nothing.
LEMMA PlannedLooks == ASSUME PlannedInv, Planned!Look("a")  PROVE PlannedInv'
<1> DEFINE r == run["a"]  q == Planned!Upcoming("a")
<1>1. /\ r.stage = "writing" /\ r.todo # {} /\ r.held = ""
      /\ UNCHANGED <<target, files, manifest, agentcfg, clock, runs, edits, owed>>
  BY DEF Planned!Look, Planned!Writing
<1>2. q \in r.todo /\ Due(q, r)  BY <1>1, PlannedNext DEF PlannedInv, PlannedWork
<1>3. q \in Planned!Paths /\ q # ""
  BY <1>2, PlannedContents DEF PlannedInv, PlannedTypes, PlannedRun
<1>4. /\ run' = [run EXCEPT !["a"].held = q]
      /\ IF r.action[q] = "create" THEN UNCHANGED backups ELSE Planned!BackUp("a", q)
  BY <1>2 DEF Planned!Look, Due
<1> HIDE DEF q
<1>5. /\ run' \in [{"a"} -> PlannedRun] /\ run'["a"] = [r EXCEPT !.held = q]
  <2>1. run \in [{"a"} -> PlannedRun]  BY DEF PlannedInv, PlannedTypes
  <2>2. [r EXCEPT !.held = q] \in PlannedRun  BY <1>3, <2>1 DEF PlannedRun
  <2>3. run' = [run EXCEPT !["a"] = [r EXCEPT !.held = q]]  BY <1>4, <2>1
  <2> QED  BY <2>1, <2>2, <2>3, PlannedMoves
<1>6. /\ run'["a"].held = q /\ run'["a"].stage = "writing" /\ run'["a"].todo = r.todo
      /\ run'["a"].action = r.action /\ run'["a"].desired = r.desired
      /\ run'["a"].rendered = r.rendered /\ run'["a"].failed = r.failed
      /\ run'["a"].stamp = r.stamp /\ run'["a"].dirty = r.dirty
  BY <1>1, <1>5 DEF PlannedInv, PlannedTypes, PlannedRun
<1>7. r.stamp = clock /\ clock \in 1..MaxInstalls
  <2>1. r.stamp = clock /\ runs > 0  BY <1>1 DEF PlannedInv, PlannedWork
  <2> QED  BY <2>1, PlannedCounts, Bounds DEF PlannedInv
<1>8. /\ backups' \in [1..MaxInstalls -> [Planned!Paths -> Planned!Content]]
      /\ \A s \in 1..MaxInstalls, x \in Planned!Paths :
            backups'[s][x] = backups[s][x] \/ (s = clock /\ x = q)
      /\ files[q] = Planned!Absent \/ backups'[clock][q] = files[q]
  <2>1. CASE r.action[q] = "create"
    BY <1>2, <1>4, <2>1, PlannedContents DEF Due, PlannedInv, PlannedTypes
  <2>2. CASE r.action[q] # "create"
    <3>1. backups' = [backups EXCEPT ![clock][q] = files[q]]  BY <1>4, <1>7, <2>2 DEF Planned!BackUp
    <3> QED  BY <1>3, <1>7, <3>1 DEF PlannedInv, PlannedTypes
  <2> QED  BY <2>1, <2>2
<1>9. PlannedTypes'  BY <1>1, <1>5, <1>8 DEF PlannedInv, PlannedTypes
<1>10. PlannedWork'
  <2>1. \A x \in r.todo : Due(x, r)  BY <1>1 DEF PlannedInv, PlannedWork
  <2>2. \A x \in r.todo : Due(x, run["a"])'
    BY <1>1, <1>6, <2>1, PlannedUnmoved DEF Due
  <2>3. Planned!Upcoming("a")' = q  BY <1>6 DEF Planned!Upcoming, q
  <2> QED  BY <1>1, <1>2, <1>6, <2>2, <2>3 DEF PlannedInv, PlannedWork
<1>11. PlannedBackups'
  <2>1. backups[clock][q] = Planned!Absent  BY <1>1, <1>2, <1>3 DEF PlannedInv, PlannedBackups
  <2>2. ASSUME NEW o \in owed PROVE \E s \in 1..MaxInstalls : backups'[s][o[1]] = o[2]
    <3>1. PICK s \in 1..MaxInstalls : backups[s][o[1]] = o[2]
      BY DEF PlannedInv, PlannedBackups
    <3>2. o[1] \in Planned!Paths /\ o[2] # Planned!Absent  BY DEF PlannedInv, PlannedTypes
    <3> QED  BY <1>8, <2>1, <3>1, <3>2, PlannedContents
  <2>3. \A s \in 1..MaxInstalls : s > clock => \A x \in Planned!Paths : backups'[s][x] = Planned!Absent
    <3> SUFFICES ASSUME NEW s \in 1..MaxInstalls, s > clock, NEW x \in Planned!Paths
                 PROVE  backups'[s][x] = Planned!Absent
      OBVIOUS
    <3>1. s # clock  BY <1>7
    <3>2. backups[s][x] = Planned!Absent  BY DEF PlannedInv, PlannedBackups
    <3> QED  BY <1>8, <3>1, <3>2
  <2>4. \A x \in r.todo \ {q} : backups'[clock][x] = Planned!Absent
    <3>1. r.todo \subseteq Planned!Paths  BY DEF PlannedInv, PlannedTypes, PlannedRun
    <3>2. \A x \in r.todo \ {r.held} : backups[clock][x] = Planned!Absent
      BY <1>1 DEF PlannedInv, PlannedBackups
    <3>3. r.held \notin r.todo  BY <1>1, <3>1, PlannedContents
    <3> QED  BY <1>7, <1>8, <3>1, <3>2, <3>3
  <2> QED  BY <1>1, <1>6, <1>8, <2>2, <2>3, <2>4 DEF PlannedBackups
<1>12. Planned!OkIsInstalled'  BY <1>6 DEF Planned!OkIsInstalled
<1> QED  BY <1>9, <1>10, <1>11, <1>12 DEF PlannedInv

\* Nothing is taken out of a file that is not there.
LEMMA PlannedTakes ==
  ASSUME NEW q, NEW c, files[q] = Planned!Absent
  PROVE  ~Planned!TakesOut(q, c)
<1>1. files[q].user = 0 /\ files[q].foreign = {}  BY PlannedContents
<1>2. files[q].user \in {0, c.user} /\ files[q].foreign \subseteq c.foreign  BY <1>1
<1> QED  BY <1>2 DEF Planned!TakesOut

\* What an install takes something out of is in its backup root.
LEMMA PlannedReplaced ==
  ASSUME PlannedInv, Planned!Writing("a"), run["a"].held = Planned!Upcoming("a"),
         Planned!Replace(Planned!Upcoming("a"), run["a"].desired[Planned!Upcoming("a")])
  PROVE  /\ files' \in [Planned!Paths -> Planned!Content]
         /\ owed' \subseteq Planned!Paths \X (Planned!Content \ {Planned!Absent})
         /\ \A o \in owed' : \E s \in 1..MaxInstalls : backups[s][o[1]] = o[2]
<1> DEFINE r == run["a"]  q == Planned!Upcoming("a")
<1>1. /\ r.stage = "writing" /\ r.todo # {} /\ r.held = q
      /\ files' = [files EXCEPT ![q] = r.desired[q]]
      /\ owed' = IF Planned!TakesOut(q, r.desired[q]) THEN owed \cup {<< q, files[q] >>} ELSE owed
  BY DEF Planned!Replace, Planned!Writing
<1>2. q \in r.todo  BY <1>1, PlannedNext DEF PlannedInv
<1>3. q \in Planned!Paths /\ q # "" /\ r \in PlannedRun
  BY <1>2, PlannedContents DEF PlannedInv, PlannedTypes, PlannedRun
<1> HIDE DEF q
<1>4. clock \in 1..MaxInstalls
  <2>1. runs > 0  BY <1>1 DEF PlannedInv, PlannedWork
  <2> QED  BY <2>1, PlannedSecond DEF PlannedInv
<1>5. /\ r.desired[q] \in Planned!Content /\ files[q] \in Planned!Content
      /\ files' \in [Planned!Paths -> Planned!Content]
  BY <1>1, <1>3 DEF PlannedInv, PlannedTypes, PlannedRun
<1>6. owed' \subseteq Planned!Paths \X (Planned!Content \ {Planned!Absent})
  <2>1. owed' = owed \/ (owed' = owed \cup {<< q, files[q] >>} /\ files[q] # Planned!Absent)
    BY <1>1, <1>5, PlannedTakes
  <2>2. owed \subseteq Planned!Paths \X (Planned!Content \ {Planned!Absent})
    BY DEF PlannedInv, PlannedTypes
  <2>3. files[q] # Planned!Absent =>
          << q, files[q] >> \in Planned!Paths \X (Planned!Content \ {Planned!Absent})
    BY <1>3, <1>5
  <2> QED  BY <2>1, <2>2, <2>3
<1>7. ASSUME NEW o \in owed' PROVE \E s \in 1..MaxInstalls : backups[s][o[1]] = o[2]
  <2>1. CASE o \in owed  BY <2>1 DEF PlannedInv, PlannedBackups
  <2>2. CASE o \notin owed
    <3>1. o = << q, files[q] >> /\ files[q] # Planned!Absent
      BY <1>1, <1>5, <1>7, <2>2, PlannedTakes
    <3>2. backups[clock][q] = files[q]
      BY <1>1, <1>3, <3>1 DEF PlannedInv, PlannedBackups
    <3> QED  BY <1>4, <3>1, <3>2
  <2> QED  BY <2>1, <2>2
<1> QED  BY <1>5, <1>6, <1>7

\* The step that writes or deletes does what the plan says, whether it is noted as
\* one that failed or not.
LEMMA PlannedReplaces ==
  ASSUME PlannedInv, Planned!Writing("a"), run["a"].held = Planned!Upcoming("a"),
         Planned!Replace(Planned!Upcoming("a"), run["a"].desired[Planned!Upcoming("a")]),
         NEW failed \in SUBSET Planned!Paths, run["a"].failed \subseteq failed,
         target = "codex" => failed = {},
         run' = [run EXCEPT !["a"].todo = @ \ {Planned!Upcoming("a")}, !["a"].held = "",
                            !["a"].failed = failed],
         UNCHANGED <<target, manifest, agentcfg, backups, clock, runs, edits>>
  PROVE  PlannedInv'
<1> DEFINE r == run["a"]  q == Planned!Upcoming("a")
<1>1. /\ r.stage = "writing" /\ r.todo # {} /\ r.held = q
      /\ files' = [files EXCEPT ![q] = r.desired[q]]
      /\ run' = [run EXCEPT !["a"].todo = @ \ {q}, !["a"].held = "", !["a"].failed = failed]
      /\ UNCHANGED <<target, manifest, agentcfg, backups, clock, runs, edits>>
  BY DEF Planned!Replace, Planned!Writing
<1>2. q \in r.todo /\ Due(q, r)  BY <1>1, PlannedNext DEF PlannedInv, PlannedWork
<1>3. q \in Planned!Paths /\ q # "" /\ r \in PlannedRun
  BY <1>2, PlannedContents DEF PlannedInv, PlannedTypes, PlannedRun
<1> HIDE DEF q
<1>4. /\ run' \in [{"a"} -> PlannedRun]
      /\ run'["a"].held = "" /\ run'["a"].stage = "writing" /\ run'["a"].todo = r.todo \ {q}
      /\ run'["a"].action = r.action /\ run'["a"].desired = r.desired
      /\ run'["a"].rendered = r.rendered /\ run'["a"].failed = failed
      /\ run'["a"].stamp = r.stamp /\ run'["a"].dirty = r.dirty
  <2> DEFINE w == [r EXCEPT !.todo = @ \ {q}, !.held = "", !.failed = failed]
  <2>1. /\ w \in PlannedRun /\ w.held = "" /\ w.stage = r.stage /\ w.todo = r.todo \ {q}
        /\ w.action = r.action /\ w.desired = r.desired /\ w.rendered = r.rendered
        /\ w.failed = failed /\ w.stamp = r.stamp /\ w.dirty = r.dirty
    BY <1>3 DEF PlannedRun
  <2>2. run' = [run EXCEPT !["a"] = w]  BY <1>1 DEF PlannedInv, PlannedTypes
  <2>3. r.stage = "writing" /\ run \in [{"a"} -> PlannedRun]
    BY <1>1 DEF PlannedInv, PlannedTypes
  <2> HIDE DEF w, r
  <2>4. run' \in [{"a"} -> PlannedRun] /\ run'["a"] = w  BY <2>1, <2>2, <2>3, PlannedMoves
  <2> QED  BY <2>1, <2>3, <2>4
<1>5. r.stamp = clock /\ clock \in 1..MaxInstalls
  <2>1. r.stamp = clock /\ runs > 0  BY <1>1 DEF PlannedInv, PlannedWork
  <2> QED  BY <2>1, PlannedSecond DEF PlannedInv
<1>6. /\ r.desired[q] \in Planned!Content /\ files[q] \in Planned!Content
      /\ files' \in [Planned!Paths -> Planned!Content]
      /\ files'[q] = r.desired[q] /\ \A x \in Planned!Paths : x # q => files'[x] = files[x]
  BY <1>1, <1>3 DEF PlannedInv, PlannedTypes, PlannedRun
<1>7. PlannedTypes'  BY <1>1, <1>4, PlannedReplaced DEF PlannedInv, PlannedTypes
<1>8. PlannedWork'
  <2>1. ASSUME NEW x \in r.todo \ {q} PROVE Due(x, run["a"])'
    <3>1. Due(x, r) /\ x \in Planned!Paths /\ x # q
      BY <1>1, <1>3 DEF PlannedInv, PlannedWork, PlannedRun
    <3>2. files'[x] = files[x]  BY <1>6, <3>1
    <3>3. /\ Planned!Desired(x)' = Planned!Desired(x)
          /\ Planned!Refused(x)' <=> Planned!Refused(x)
          /\ x = Legacy => (Planned!OwnsLegacy' <=> Planned!OwnsLegacy)
      BY <1>1, <3>2, PlannedUnmoved
    <3> QED  BY <1>4, <3>1, <3>2, <3>3 DEF Due
  <2>2. ASSUME NEW x \in r.rendered \ ((r.todo \ {q}) \cup failed) PROVE files'[x].lore = "new"
    <3>1. x \in Planned!Paths /\ x # Legacy  BY <1>3, PlannedContents DEF PlannedRun
    <3>2. CASE x = q
      <4>1. r.desired[q] = Planned!Desired(q)  BY <1>2, <3>1, <3>2 DEF Due
      <4> QED  BY <1>3, <1>6, <3>2, <4>1, PlannedDesired DEF PlannedInv
    <3>3. CASE x # q
      BY <1>1, <1>6, <2>2, <3>1, <3>3 DEF PlannedInv, PlannedWork
    <3> QED  BY <3>2, <3>3
  <2>3. (r.action[Legacy] = "delete" /\ Legacy \notin (r.todo \ {q}) \cup failed)
           => files'[Legacy] = Planned!Absent
    <3>1. CASE q = Legacy
      <4>1. r.desired[q] = Planned!Absent  BY <1>2, <3>1 DEF Due
      <4> QED  BY <1>6, <3>1, <4>1
    <3>2. CASE q # Legacy
      <4>1. files'[Legacy] = files[Legacy]  BY <1>6, <3>2, PlannedContents
      <4> QED  BY <1>1, <3>2, <4>1 DEF PlannedInv, PlannedWork
    <3> QED  BY <3>1, <3>2
  <2>4. ~r.dirty /\ runs > 0 /\ (target = "codex" => failed = {})
    BY <1>1 DEF PlannedInv, PlannedWork
  <2> QED  BY <1>1, <1>4, <1>5, <2>1, <2>2, <2>3, <2>4 DEF PlannedWork
<1>9. PlannedBackups'
  <2>1. \A o \in owed' : \E s \in 1..MaxInstalls : backups[s][o[1]] = o[2]
    BY PlannedReplaced
  <2>2. \A x \in r.todo \ {q} : backups[clock][x] = Planned!Absent
    BY <1>1 DEF PlannedInv, PlannedBackups
  <2>3. \A s \in 1..MaxInstalls : s > clock => \A x \in Planned!Paths : backups[s][x] = Planned!Absent
    BY DEF PlannedInv, PlannedBackups
  <2>4. /\ backups' = backups /\ clock' = clock /\ run'["a"].held = ""
        /\ run'["a"].stage = "writing" /\ run'["a"].todo \ {""} \subseteq r.todo \ {q}
    BY <1>1, <1>4
  <2> HIDE DEF r
  <2> QED  BY <2>1, <2>2, <2>3, <2>4 DEF PlannedBackups
<1>10. Planned!OkIsInstalled'  BY <1>4 DEF Planned!OkIsInstalled
<1> QED  BY <1>7, <1>8, <1>9, <1>10 DEF PlannedInv

\* One that succeeds.
LEMMA PlannedPuts == ASSUME PlannedInv, Planned!Put("a")  PROVE PlannedInv'
<1> DEFINE r == run["a"]  q == Planned!Upcoming("a")
<1>1. r \in PlannedRun /\ r.failed \subseteq Planned!Paths  BY DEF PlannedInv, PlannedTypes, PlannedRun
<1>2. /\ Planned!Writing("a") /\ r.held = q /\ Planned!Replace(q, r.desired[q])
      /\ run' = [run EXCEPT !["a"].todo = @ \ {q}, !["a"].held = ""]
      /\ UNCHANGED <<target, manifest, agentcfg, backups, clock, runs, edits>>
  BY DEF Planned!Put
<1>3. run' = [run EXCEPT !["a"].todo = @ \ {q}, !["a"].held = "", !["a"].failed = r.failed]
  BY <1>1, <1>2 DEF PlannedInv, PlannedTypes, PlannedRun
<1>4. target = "codex" => r.failed = {}
  BY <1>2 DEF PlannedInv, PlannedWork, Planned!Writing
<1> QED  BY <1>1, <1>2, <1>3, <1>4, PlannedReplaces

\* One that fails after its effect.
LEMMA PlannedFailsLate == ASSUME PlannedInv, Planned!FailLate("a")  PROVE PlannedInv'
<1> DEFINE r == run["a"]  q == Planned!Upcoming("a")
<1>1. UNCHANGED <<target, agentcfg, backups, clock, runs, edits>> /\ agentcfg' \in BOOLEAN
  BY DEF Planned!FailLate, PlannedInv, PlannedTypes
<1>2. "error" \in PlannedOuts \ {"ok"}  BY DEF PlannedOuts
<1>3. CASE Planned!Writing("a")
  <2>1. /\ r.held = q /\ Planned!Replace(q, r.desired[q]) /\ Planned!Missed("a", q)
        /\ UNCHANGED manifest
    BY <1>3 DEF Planned!FailLate, Planned!Writing
  <2>2. CASE target = "codex"
    <3>1. Planned!End("a", "error")
      BY <2>1, <2>2 DEF Planned!Missed, Planned!MissedByCodex, Planned!MissedByOthers
    <3>2. manifest' \in Planned!Manifest /\ (manifest'.state # "read" => manifest'.listed = {})
      BY <2>1 DEF PlannedInv, PlannedTypes
    <3> QED  BY <1>1, <1>2, <1>3, <2>1, <3>1, <3>2, PlannedReplaced, PlannedEnds
  <2>3. CASE target # "codex"
    <3>1. run' = [run EXCEPT !["a"].todo = @ \ {q}, !["a"].held = "", !["a"].failed = @ \cup {q}]
      BY <2>1, <2>3 DEF Planned!Missed, Planned!MissedByCodex, Planned!MissedByOthers
    <3>2. r.failed \cup {q} \in SUBSET Planned!Paths /\ r \in PlannedRun
      <4>1. q \in r.todo  BY <1>3, PlannedNext DEF PlannedInv, Planned!Writing
      <4> HIDE DEF q
      <4> QED  BY <4>1 DEF PlannedInv, PlannedTypes, PlannedRun
    <3>3. run' = [run EXCEPT !["a"].todo = @ \ {q}, !["a"].held = "", !["a"].failed = r.failed \cup {q}]
      BY <3>1 DEF PlannedInv, PlannedTypes
    <3> QED  BY <1>1, <1>3, <2>1, <2>3, <3>2, <3>3, PlannedReplaces
  <2> QED  BY <2>2, <2>3
<1>4. CASE ~Planned!Writing("a")
  <2>1. manifest' = Planned!Listing("a") /\ Planned!End("a", "error") /\ UNCHANGED <<files, owed>>
    BY <1>4 DEF Planned!FailLate
  <2>2. r.rendered \subseteq Planned!Paths
    BY PlannedContents DEF PlannedInv, PlannedTypes, PlannedRun
  <2>3. manifest' \in Planned!Manifest /\ manifest'.state = "read"
    BY <2>1, <2>2 DEF Planned!Listing, Planned!Manifest
  <2>4. /\ files' \in [Planned!Paths -> Planned!Content]
        /\ owed' \subseteq Planned!Paths \X (Planned!Content \ {Planned!Absent})
        /\ \A o \in owed' : \E s \in 1..MaxInstalls : backups[s][o[1]] = o[2]
    BY <2>1 DEF PlannedInv, PlannedTypes, PlannedBackups
  <2> QED  BY <1>1, <1>2, <2>1, <2>3, <2>4, PlannedEnds
<1> QED  BY <1>3, <1>4

\* A step fails: Codex ends, the others go on to the next file.
LEMMA PlannedFails == ASSUME PlannedInv, Planned!Fail("a")  PROVE PlannedInv'
<1> DEFINE r == run["a"]  q == Planned!Upcoming("a")
<1>1. UNCHANGED <<target, files, manifest, agentcfg, backups, clock, runs, edits, owed>>
      /\ agentcfg' \in BOOLEAN
  BY DEF Planned!Fail, PlannedInv, PlannedTypes
<1>2. CASE Planned!End("a", "error")  BY <1>1, <1>2, PlannedStops DEF PlannedOuts
<1>3. CASE ~Planned!End("a", "error")
  <2>1. /\ r.stage = "writing" /\ r.todo # {} /\ target # "codex"
        /\ run' = [run EXCEPT !["a"].todo = @ \ {q}, !["a"].held = "", !["a"].failed = @ \cup {q}]
    BY <1>3 DEF Planned!Fail, Planned!Writing, Planned!Missed, Planned!MissedByCodex,
      Planned!MissedByOthers
  <2>2. q \in r.todo /\ r \in PlannedRun  BY <2>1, PlannedNext DEF PlannedInv, PlannedTypes
  <2>3. q \in Planned!Paths  BY <2>2 DEF PlannedRun
  <2> HIDE DEF q
  <2>4. /\ run' \in [{"a"} -> PlannedRun]
        /\ run'["a"].held = "" /\ run'["a"].stage = "writing" /\ run'["a"].todo = r.todo \ {q}
        /\ run'["a"].action = r.action /\ run'["a"].desired = r.desired
        /\ run'["a"].rendered = r.rendered /\ run'["a"].failed = r.failed \cup {q}
        /\ run'["a"].stamp = r.stamp /\ run'["a"].dirty = r.dirty
    <3> DEFINE w == [r EXCEPT !.todo = @ \ {q}, !.held = "", !.failed = @ \cup {q}]
    <3>1. /\ w \in PlannedRun /\ w.held = "" /\ w.stage = r.stage /\ w.todo = r.todo \ {q}
          /\ w.action = r.action /\ w.desired = r.desired /\ w.rendered = r.rendered
          /\ w.failed = r.failed \cup {q} /\ w.stamp = r.stamp /\ w.dirty = r.dirty
      BY <2>2, <2>3 DEF PlannedRun
    <3>2. run' = [run EXCEPT !["a"] = w] /\ run \in [{"a"} -> PlannedRun]
      BY <2>1 DEF PlannedInv, PlannedTypes
    <3> HIDE DEF w
    <3>3. run' \in [{"a"} -> PlannedRun] /\ run'["a"] = w  BY <3>1, <3>2, PlannedMoves
    <3> QED  BY <2>1, <3>1, <3>3
  <2>5. PlannedTypes'  BY <1>1, <2>4 DEF PlannedInv, PlannedTypes
  <2>6. PlannedWork'
    <3>1. \A x \in r.todo : Due(x, r)  BY <2>1 DEF PlannedInv, PlannedWork
    <3>2. ASSUME NEW x \in r.todo \ {q} PROVE Due(x, run["a"])'
      <4>1. Due(x, r)  BY <3>1
      <4>2. files'[x] = files[x] /\ UNCHANGED <<target, manifest>>  BY <1>1
      <4>3. /\ Planned!Desired(x)' = Planned!Desired(x)
            /\ Planned!Refused(x)' <=> Planned!Refused(x)
            /\ x = Legacy => (Planned!OwnsLegacy' <=> Planned!OwnsLegacy)
        BY <4>2, PlannedUnmoved
      <4> QED  BY <2>4, <4>1, <4>2, <4>3 DEF Due
    <3>3. /\ \A x \in r.rendered \ ((r.todo \ {q}) \cup (r.failed \cup {q})) : files[x].lore = "new"
          /\ r.action[Legacy] = "delete" /\ Legacy \notin (r.todo \ {q}) \cup (r.failed \cup {q}) =>
               files[Legacy] = Planned!Absent
          /\ runs > 0 /\ r.stamp = clock /\ ~r.dirty
      BY <2>1 DEF PlannedInv, PlannedWork
    <3> QED  BY <1>1, <2>1, <2>4, <3>2, <3>3 DEF PlannedWork
  <2>7. PlannedBackups'
    <3>1. /\ \A x \in r.todo \ {q} : backups[clock][x] = Planned!Absent
          /\ \A o \in owed : \E s \in 1..MaxInstalls : backups[s][o[1]] = o[2]
          /\ \A s \in 1..MaxInstalls : s > clock =>
                \A x \in Planned!Paths : backups[s][x] = Planned!Absent
      <4>1. \A x \in r.todo \ {r.held} : backups[clock][x] = Planned!Absent
        BY <2>1 DEF PlannedInv, PlannedBackups
      <4>2. r.held \in {"", q}  BY DEF PlannedInv, PlannedWork, q
      <4>3. "" \notin r.todo  BY <2>2, PlannedContents DEF PlannedRun
      <4> QED  BY <4>1, <4>2, <4>3 DEF PlannedInv, PlannedBackups
    <3> QED  BY <1>1, <2>4, <3>1 DEF PlannedBackups
  <2>8. Planned!OkIsInstalled'  BY <2>4 DEF Planned!OkIsInstalled
  <2> QED  BY <2>5, <2>6, <2>7, <2>8 DEF PlannedInv
<1> QED  BY <1>2, <1>3

\* The manifest comes last, when all that did not fail is written.
LEMMA PlannedManifest == ASSUME PlannedInv, Planned!WriteManifest("a")  PROVE PlannedInv'
<1> DEFINE r == run["a"]
<1>1. /\ r.stage = "writing" /\ r.todo = {}
      /\ UNCHANGED <<target, files, agentcfg, backups, clock, runs, edits, owed>>
      /\ agentcfg' \in BOOLEAN
  BY DEF Planned!WriteManifest, PlannedInv, PlannedTypes
<1>2. CASE Planned!ManifestUnreadable("a")
  BY <1>1, <1>2, PlannedStops DEF Planned!WriteManifest, PlannedOuts
<1>3. CASE ~Planned!ManifestUnreadable("a")
  <2>1. PICK out \in {"ok", "failed"} :
          /\ manifest' = [state |-> "read", listed |-> r.rendered]
          /\ Planned!End("a", out) /\ (out = "ok" => r.failed = {})
    BY <1>3 DEF Planned!WriteManifest, Planned!Listing
  <2>2. /\ run' \in [{"a"} -> PlannedRun]
        /\ run'["a"].stage = "idle" /\ run'["a"].todo = {} /\ run'["a"].held = ""
        /\ run'["a"].out = out /\ run'["a"].rendered = r.rendered /\ run'["a"].action = r.action
    BY <2>1, PlannedLeaves DEF PlannedInv, PlannedOuts
  <2>3. r.rendered \subseteq Planned!Paths
    BY PlannedContents DEF PlannedInv, PlannedTypes, PlannedRun
  <2>4. manifest' \in Planned!Manifest /\ manifest'.state = "read"
    BY <2>1, <2>3 DEF Planned!Manifest
  <2>5. PlannedTypes'  BY <1>1, <2>2, <2>4 DEF PlannedInv, PlannedTypes
  <2>6. PlannedWork'  BY <2>2 DEF PlannedWork
  <2>7. PlannedBackups'  BY <1>1, <2>2 DEF PlannedInv, PlannedBackups
  <2>8. Planned!OkIsInstalled'
    <3>1. r.failed = {} => /\ \A x \in r.rendered : files[x].lore = "new"
                           /\ r.action[Legacy] = "delete" => files[Legacy] = Planned!Absent
      BY <1>1 DEF PlannedInv, PlannedWork
    <3> QED  BY <1>1, <2>1, <2>2, <3>1 DEF Planned!OkIsInstalled
  <2> QED  BY <2>5, <2>6, <2>7, <2>8 DEF PlannedInv
<1> QED  BY <1>2, <1>3

\* An edit dirties every install but one whose second plan is still to be made.
LEMMA PlannedEdits == ASSUME PlannedInv, Planned!Edit  PROVE PlannedInv'
<1> DEFINE r == run["a"]
<1>1. /\ edits < MaxEdits /\ edits' = edits + 1 /\ r.stage \in {"idle", "planned"}
      /\ run' = Planned!Dirtied
      /\ UNCHANGED <<target, agentcfg, backups, clock, runs, owed>>
  BY DEF Planned!Edit
<1>2. edits \in 0..MaxEdits /\ edits' \in 0..MaxEdits /\ edits + 1 \in 0..MaxEdits
  BY <1>1, Bounds DEF PlannedInv, PlannedTypes
<1>3. /\ run' \in [{"a"} -> PlannedRun]
      /\ run'["a"].held = r.held /\ run'["a"].stage = r.stage /\ run'["a"].todo = r.todo
      /\ run'["a"].failed = r.failed /\ run'["a"].stamp = r.stamp
      /\ run'["a"].dirty = (r.dirty \/ r.stage # "planned")
  <2>1. r \in PlannedRun  BY DEF PlannedInv, PlannedTypes
  <2>2. run'["a"] = [r EXCEPT !.dirty = @ \/ r.stage # "planned"]
        /\ run' = [i \in {"a"} |-> run'["a"]]
    BY <1>1 DEF Planned!Dirtied
  <2>3. run'["a"] \in PlannedRun  BY <2>1, <2>2 DEF PlannedRun
  <2> QED  BY <2>1, <2>2, <2>3 DEF PlannedRun
<1>4. /\ files' \in [Planned!Paths -> Planned!Content]
      /\ manifest' \in Planned!Manifest /\ (manifest'.state # "read" => manifest'.listed = {})
  <2>1. CASE UNCHANGED manifest /\ ~UNCHANGED files
    <3>1. PICK q \in Planned!Paths, c \in {Planned!Absent} \cup
             [user : {edits + 1}, lore : {"", "old", "new"}, foreign : SUBSET Planned!Names] :
             files' = [files EXCEPT ![q] = c]
      BY <2>1 DEF Planned!Edit
    <3>2. c \in Planned!Content  BY <1>2, PlannedContents DEF Planned!Content
    <3> QED  BY <2>1, <3>1, <3>2 DEF PlannedInv, PlannedTypes
  <2>2. CASE ~(UNCHANGED manifest /\ ~UNCHANGED files)
    <3>1. UNCHANGED files  BY <2>2 DEF Planned!Edit
    <3>2. UNCHANGED manifest \/ \E s \in {"none", "broken"} : manifest' = [state |-> s, listed |-> {}]
      BY DEF Planned!Edit
    <3> QED  BY <3>1, <3>2 DEF PlannedInv, PlannedTypes, Planned!Manifest
  <2> QED  BY <2>1, <2>2
<1>5. PlannedTypes'  BY <1>1, <1>2, <1>3, <1>4 DEF PlannedInv, PlannedTypes
<1>6. PlannedWork'  BY <1>1, <1>3 DEF PlannedInv, PlannedWork
<1>7. PlannedBackups'
  <2>1. r.held = "" /\ r.todo = {}  BY <1>1 DEF PlannedInv, PlannedWork
  <2> QED  BY <1>1, <1>3, <2>1 DEF PlannedInv, PlannedBackups
<1>8. Planned!OkIsInstalled'
  <2>1. run'["a"].stage = "idle" => run'["a"].dirty  BY <1>3
  <2> QED  BY <2>1 DEF Planned!OkIsInstalled
<1> QED  BY <1>5, <1>6, <1>7, <1>8 DEF PlannedInv

\* Before the first install.
LEMMA PlannedStarts == Planned!Init => PlannedInv
<1> SUFFICES ASSUME Planned!Init PROVE PlannedInv  OBVIOUS
<1> DEFINE none == [q \in Planned!Paths |-> Planned!Absent]
           old == [q \in Planned!Paths |-> [Planned!Absent EXCEPT !.lore = "old"]]
<1>1. /\ none \in [Planned!Paths -> Planned!Content] /\ old \in [Planned!Paths -> Planned!Content]
      /\ Planned!NoActions \in [Planned!Paths -> PiActions]
  <2>1. [Planned!Absent EXCEPT !.lore = "old"] \in Planned!Content
    BY PlannedContents DEF Planned!Content
  <2> QED  BY <2>1, PlannedContents DEF Planned!NoActions, PiActions
<1>2. files \in {none, old}  BY DEF Planned!Init
<1>3. manifest \in {Planned!NoManifest, [state |-> "read", listed |-> Planned!Paths]}
  BY DEF Planned!Init
<1>4. manifest \in Planned!Manifest /\ (manifest.state # "read" => manifest.listed = {})
  BY <1>3 DEF Planned!Manifest, Planned!NoManifest
<1>5. backups = [s \in 1..MaxInstalls |-> none]  BY DEF Planned!Init
<1> HIDE DEF none, old
<1>6. /\ Planned!NoRun \in PlannedRun
      /\ Planned!NoRun.stage = "idle" /\ Planned!NoRun.todo = {} /\ Planned!NoRun.held = ""
      /\ Planned!NoRun.out = ""
  BY <1>1 DEF Planned!NoRun, PlannedRun, none
<1>7. run \in [{"a"} -> PlannedRun] /\ run["a"] = Planned!NoRun  BY <1>6 DEF Planned!Init
<1>8. /\ target \in {"codex", "opencode", "antigravity"} /\ agentcfg \in BOOLEAN
      /\ runs = 0 /\ clock = 0 /\ edits = 0 /\ owed = {}
  BY DEF Planned!Init
<1>9. 0 \in 0..MaxInstalls /\ 0 \in 0..MaxEdits  BY Bounds
<1>10. PlannedTypes  BY <1>1, <1>2, <1>4, <1>5, <1>7, <1>8, <1>9 DEF PlannedTypes
<1>11. PlannedWork  BY <1>6, <1>7 DEF PlannedWork
<1>12. PlannedBackups  BY <1>5, <1>6, <1>7, <1>8 DEF PlannedBackups, none
<1>13. Planned!OkIsInstalled  BY <1>6, <1>7 DEF Planned!OkIsInstalled
<1> QED  BY <1>10, <1>11, <1>12, <1>13 DEF PlannedInv

\* Every step of these installers.
LEMMA PlannedStep == ASSUME PlannedInv, Planned!Next  PROVE PlannedInv'
<1>1. CASE Planned!PlanCodex("a") \/ Planned!PlanOpenCode("a") \/ Planned!PlanAntigravity("a")
  <2>1. Planned!Begin("a") /\ agentcfg' \in BOOLEAN
    BY <1>1 DEF Planned!PlanCodex, Planned!PlanOpenCode, Planned!PlanAntigravity,
      Planned!EnsureDefault, PlannedInv, PlannedTypes
  <2> QED  BY <2>1, PlannedBegins
<1>2. CASE Planned!Die("a")
  <2>1. /\ Planned!End("a", "dead") /\ "dead" \in PlannedOuts \ {"ok"} /\ agentcfg' \in BOOLEAN
        /\ UNCHANGED <<target, files, manifest, backups, clock, runs, edits, owed>>
    BY <1>2 DEF Planned!Die, PlannedOuts, PlannedInv, PlannedTypes
  <2> QED  BY <2>1, PlannedStops
<1> QED
  BY <1>1, <1>2, PlannedExecutes, PlannedLooks, PlannedPuts, PlannedFails, PlannedFailsLate,
    PlannedManifest, PlannedEdits DEF Planned!Next

\* Only Put and the user change a file, only WriteManifest and the user the manifest.
LEMMA PlannedOwns ==
  ASSUME PlannedInv, Planned!Next
  PROVE  Planned!ForeignKept /\ Planned!UserLegacyKept /\ Planned!CodexManifestIsLast
<1> DEFINE r == run["a"]
<1>1. CASE Planned!Edit
  <2>1. edits' # edits
    <3>1. edits' = edits + 1 /\ edits \in 0..MaxEdits
      BY <1>1 DEF Planned!Edit, PlannedInv, PlannedTypes
    <3> QED  BY <3>1, Bounds
  <2> QED  BY <2>1 DEF Planned!ForeignKept, Planned!UserLegacyKept, Planned!CodexManifestIsLast
<1> DEFINE Wrote ==
       /\ r.stage = "writing" /\ r.todo # {} /\ manifest' = manifest
       /\ files' = [files EXCEPT ![Planned!Upcoming("a")] = r.desired[Planned!Upcoming("a")]]
<1> DEFINE Listed ==
       /\ r.stage = "writing" /\ r.todo = {} /\ files' = files
       /\ manifest' # manifest => manifest'.listed = r.rendered
<1>2. CASE Wrote
  <2>1. /\ r.stage = "writing" /\ r.todo # {} /\ manifest' = manifest
        /\ files' = [files EXCEPT ![Planned!Upcoming("a")] = r.desired[Planned!Upcoming("a")]]
    BY <1>2
  <2>2. Due(Planned!Upcoming("a"), r)
    BY <2>1, PlannedNext DEF PlannedInv, PlannedWork
  <2>3. (files[Legacy].lore = "" /\ Legacy \notin manifest.listed)
           => Planned!Upcoming("a") # Legacy
    BY <2>2 DEF Due, Planned!OwnsLegacy, Planned!CodexOwnsLegacy, Planned!OpenCodeOwnsLegacy
  <2>4. Planned!UserLegacyKept
    BY <2>1, <2>3, PlannedContents DEF Planned!UserLegacyKept, PlannedInv, PlannedTypes
  <2>5. ASSUME NEW q \in Merged PROVE Planned!Guarded(q) \subseteq files'[q].foreign
    <3>1. q \in Planned!Paths /\ q # Legacy  BY PlannedContents
    <3>2. CASE q = Planned!Upcoming("a")
      <4>1. r.desired[q] = Planned!Desired(q) /\ ~Planned!Refused(q)
        BY <2>2, <3>1, <3>2 DEF Due
      <4>2. files'[q] = r.desired[q]
        BY <2>1, <3>1, <3>2 DEF PlannedInv, PlannedTypes
      <4> QED  BY <4>1, <4>2, PlannedGuards DEF PlannedInv
    <3>3. CASE q # Planned!Upcoming("a")
      <4>1. files'[q] = files[q]  BY <2>1, <3>1, <3>3 DEF PlannedInv, PlannedTypes
      <4> QED  BY <4>1 DEF Planned!Guarded
    <3> QED  BY <3>2, <3>3
  <2> QED
    BY <2>1, <2>4, <2>5 DEF Planned!ForeignKept, Planned!CodexManifestIsLast
<1>3. CASE Listed
  <2>1. /\ r.stage = "writing" /\ r.todo = {} /\ files' = files
        /\ manifest' # manifest => manifest'.listed = r.rendered
    BY <1>3
  <2>2. target = "codex" => \A q \in r.rendered : files[q].lore = "new"
    BY <2>1 DEF PlannedInv, PlannedWork
  <2> QED
    BY <2>1, <2>2 DEF Planned!ForeignKept, Planned!Guarded, Planned!UserLegacyKept,
      Planned!CodexManifestIsLast
<1>4. Planned!Put("a") => Wrote
  BY DEF Planned!Put, Planned!Writing, Planned!Replace
<1>5. Planned!WriteManifest("a") => Listed
  BY DEF Planned!WriteManifest, Planned!Listing
<1>6. Planned!FailLate("a") => Wrote \/ Listed
  BY DEF Planned!FailLate, Planned!Writing, Planned!Replace, Planned!Listing
<1>7. CASE /\ ~Planned!Edit /\ ~Planned!Put("a") /\ ~Planned!WriteManifest("a")
           /\ ~Planned!FailLate("a")
  <2>1. files' = files /\ manifest' = manifest
    BY <1>7 DEF Planned!Next, Planned!PlanCodex, Planned!PlanOpenCode, Planned!PlanAntigravity,
      Planned!Begin, Planned!Execute, Planned!Replan, Planned!Look, Planned!Fail, Planned!Die
  <2> QED
    BY <2>1 DEF Planned!ForeignKept, Planned!Guarded, Planned!UserLegacyKept,
      Planned!CodexManifestIsLast
<1> HIDE DEF Wrote, Listed
<1> QED  BY <1>1, <1>2, <1>3, <1>4, <1>5, <1>6, <1>7

-----------------------------------------------------------------------------
(* The steps of the installer of Pi *)

\* What is known of paths and releases.
LEMMA PiApart ==
  /\ "" \notin Pi!Paths /\ Pi!Files \subseteq Pi!Paths /\ Overlays \subseteq Pi!Paths
  /\ Cleanups \subseteq Pi!Paths /\ Settings \subseteq Pi!Files
  /\ Pi!Files \cap Overlays = {} /\ Pi!Files \cap Cleanups = {} /\ Overlays \cap Cleanups = {}
  /\ 1 \in Pi!Releases /\ Pi!Releases \subseteq Nat \ {0}
  /\ \A r \in Pi!Releases : Rendered[r] \subseteq Overlays
BY PiPaths DEF Pi!PathsAreApart, Pi!Paths, Pi!Files

\* The content of a path that does not exist.
LEMMA PiContents ==
  /\ Pi!Absent \in Pi!Content /\ Pi!Absent.user = 0 /\ Pi!Absent.lore = 0
  /\ Pi!Nothing.path = "" /\ Pi!Nothing.to = Pi!Absent
<1>1. 0 \in 0..PiEdits  BY Bounds
<1> QED  BY <1>1 DEF Pi!Absent, Pi!Content, Pi!Nothing

\* The step under way is that of a path.
LEMMA PiHeld ==
  ASSUME PiTypes
  PROVE  /\ held = Pi!Nothing => held.path = ""
         /\ held # Pi!Nothing => held.path \in Pi!Paths /\ held.path # "" /\ held.to \in Pi!Content
         /\ todo \ {""} = todo
<1>1. held # Pi!Nothing => held \in [path : Pi!Paths, to : Pi!Content]  BY DEF PiTypes
<1>2. "" \notin Pi!Paths /\ todo \subseteq Pi!Paths  BY PiApart DEF PiTypes
<1> QED  BY <1>1, <1>2, PiContents

\* The clock and the edits are within their bounds.
LEMMA PiClock ==
  ASSUME PiTypes
  PROVE  /\ clock \in Nat /\ clock <= MaxInstalls /\ edits \in Nat
         /\ clock > 0 => clock \in 1..MaxInstalls
         /\ \A s \in 1..MaxInstalls : s > clock => s # clock
BY Bounds DEF PiTypes

\* What is rendered is a content of the release.
LEMMA PiDesired ==
  ASSUME PiTypes, NEW q \in Pi!Paths
  PROVE  /\ Pi!Desired(q, release) \in Pi!Content /\ Pi!Desired(q, release) # Pi!Absent
         /\ Pi!Desired(q, release).lore = release
<1>1. files[q].user \in 0..PiEdits /\ release \in Pi!Releases  BY DEF PiTypes, Pi!Content
<1> DEFINE user == IF q \in Settings THEN files[q].user ELSE 0
<1>2. user \in 0..PiEdits  BY <1>1, Bounds
<1> HIDE DEF user
<1>3. Pi!Desired(q, release) = [user |-> user, lore |-> release]  BY DEF Pi!Desired, user
<1>4. release # 0  BY <1>1, PiApart
<1>5. /\ [user |-> user, lore |-> release] \in Pi!Content
      /\ [user |-> user, lore |-> release].lore = release
  BY <1>1, <1>2 DEF Pi!Content
<1> QED  BY <1>3, <1>4, <1>5, PiContents

\* The stages, and what is ahead in each.
LEMMA PiStages ==
  ASSUME PiTypes
  PROVE  /\ stage = "planned" => Ahead = Pi!Paths
         /\ stage = "cleanups" => Ahead = Pi!Files \cup Overlays \cup (todo \ {held.path})
         /\ stage = "files" => Ahead = Overlays \cup (todo \ {held.path})
         /\ stage = "overlays" => Ahead = (Overlays \ Rendered[release]) \cup (todo \ {held.path})
         /\ stage = "stale" => Ahead = todo \ {held.path}
         /\ stage = "idle" => Ahead = {}
BY DEF Ahead

\* What an install has done counts for nothing when it has not come to say ok.
LEMMA PiEnds ==
  ASSUME PiInv, NEW out \in PiOuts \ {"ok"}, Pi!Finish(out),
         files' \in [Pi!Paths -> Pi!Content], owed' \subseteq Pi!Paths \X (1..PiEdits),
         \A o \in owed' : \E s \in 1..MaxInstalls : backups[s][o[1]].user = o[2],
         manifest' \in PiManifests, manifest'.state # "read" => manifest'.listed = {},
         UNCHANGED <<backups, release, clock, edits>>
  PROVE  PiInv'
<1>1. /\ stage' = "idle" /\ todo' = {} /\ held' = Pi!Nothing
      /\ run' \in PiRun /\ run'.out = out /\ run'.listed = run.listed
  BY DEF Pi!Finish, PiInv, PiTypes, PiRun
<1>2. PiTypes'  BY <1>1 DEF PiInv, PiTypes
<1>3. PiWork'  BY <1>1 DEF PiWork
<1>4. Ahead' = {}  BY <1>1 DEF Ahead
<1>5. PiBackups'  BY <1>1, <1>4 DEF PiInv, PiBackups
<1>6. PiHolds'  BY <1>1 DEF PiHolds
<1>7. PiProgress'  BY <1>1 DEF PiProgress, PiSteps
<1> QED  BY <1>1, <1>2, <1>3, <1>5, <1>6, <1>7 DEF PiInv

\* The same where nothing is touched.
LEMMA PiStops ==
  ASSUME PiInv, NEW out \in PiOuts \ {"ok"}, Pi!Finish(out),
         UNCHANGED <<files, backups, manifest, release, clock, edits, owed>>
  PROVE  PiInv'
BY PiEnds DEF PiInv, PiTypes, PiBackups

\* A plan has a backup root of its own.
LEMMA PiPlans == ASSUME PiInv, Pi!Plan  PROVE PiInv'
<1>1. /\ stage = "idle" /\ stage' \in {"idle", "planned"}
      /\ clock < MaxInstalls /\ clock' = clock + 1
      /\ UNCHANGED <<files, backups, manifest, release, todo, held, edits, owed>>
  BY DEF Pi!Plan
<1>2. /\ clock' \in 0..MaxInstalls /\ clock' > 0 /\ clock' \in 1..MaxInstalls
      /\ \A s \in 1..MaxInstalls : s >= clock' => s > clock
  BY <1>1, PiClock, Bounds DEF PiInv
<1>3. \A s \in 1..MaxInstalls : s >= clock' => \A q \in Pi!Paths : backups[s][q] = Pi!Absent
  BY <1>2 DEF PiInv, PiBackups
<1>4. \/ /\ stage' = "planned"
         /\ \E full \in BOOLEAN : run' =
              [Pi!NoRun EXCEPT !.of = release, !.planned = Pi!PlanOf(release), !.full = full]
      \/ stage' = "idle" /\ run' = [Pi!NoRun EXCEPT !.of = release, !.out = "error"]
  BY DEF Pi!Plan
<1>5. Pi!PlanOf(release) \in [Pi!Paths -> PiActions]
  BY DEF Pi!PlanOf, PiActions, Pi!ActionFor
<1>6. Pi!NoActions \in [Pi!Paths -> PiActions]  BY DEF Pi!NoActions, PiActions
<1>7. /\ run' \in PiRun /\ run'.of = release /\ ~run'.dirty
      /\ run'.out = IF stage' = "planned" THEN "" ELSE "error"
      /\ run'.listed = {} /\ run'.conflicts = {}
  <2>1. /\ Pi!NoRun \in PiRun /\ Pi!NoRun.out = "" /\ ~Pi!NoRun.dirty
        /\ Pi!NoRun.listed = {} /\ Pi!NoRun.conflicts = {}
    BY <1>6, PiApart DEF PiRun, Pi!NoRun, PiOuts
  <2>2. release \in Pi!Releases  BY DEF PiInv, PiTypes
  <2>3. CASE stage' = "planned"
    <3>1. PICK full \in BOOLEAN : run' =
            [Pi!NoRun EXCEPT !.of = release, !.planned = Pi!PlanOf(release), !.full = full]
      BY <1>4, <2>3
    <3> QED  BY <1>5, <2>1, <2>2, <2>3, <3>1 DEF PiRun
  <2>4. CASE stage' = "idle"
    <3>1. run' = [Pi!NoRun EXCEPT !.of = release, !.out = "error"]  BY <1>4, <2>4
    <3> QED  BY <2>1, <2>2, <2>4, <3>1 DEF PiRun, PiOuts
  <2> QED  BY <1>1, <2>3, <2>4
<1>8. todo' = {} /\ held' = Pi!Nothing  BY <1>1 DEF PiInv, PiWork
<1>9. PiTypes'  BY <1>1, <1>2, <1>7 DEF PiInv, PiTypes
<1>10. PiWork'  BY <1>1, <1>2, <1>7, <1>8 DEF PiWork
<1>11. Ahead' \subseteq Pi!Paths  BY <1>1 DEF Ahead
<1>12. PiBackups'
  <2>1. \A s \in 1..MaxInstalls : s > clock' => \A q \in Pi!Paths : backups[s][q] = Pi!Absent
    BY <1>2, <1>3
  <2>2. \A q \in Pi!Paths : backups[clock'][q] = Pi!Absent  BY <1>2, <1>3
  <2> QED  BY <1>1, <1>8, <1>11, <2>1, <2>2 DEF PiInv, PiBackups
<1>13. PiHolds'  BY <1>8 DEF PiHolds
<1>14. PiProgress'  BY <1>1 DEF PiProgress, PiSteps
<1> QED  BY <1>1, <1>7, <1>9, <1>10, <1>12, <1>13, <1>14 DEF PiInv

\* The first stage finds the leftovers that are there.
LEMMA PiBegins == ASSUME PiInv, Pi!Begin  PROVE PiInv'
<1>1. /\ stage = "planned"
      /\ UNCHANGED <<files, backups, manifest, release, clock, edits, owed>>
  BY DEF Pi!Begin
<1>2. CASE Pi!Finish("drift") \/ Pi!Finish("error")
  BY <1>1, <1>2, PiStops DEF PiOuts
<1>3. CASE ~(Pi!Finish("drift") \/ Pi!Finish("error"))
  <2>1. /\ stage' = "cleanups" /\ todo' = {q \in Cleanups : files[q] # Pi!Absent}
        /\ held' = Pi!Nothing /\ run' = run
    BY <1>1, <1>3 DEF Pi!Begin, Pi!WorkOf, PiInv, PiWork
  <2>2. PiTypes'  BY <1>1, <2>1, PiApart DEF PiInv, PiTypes, PiSteps
  <2>3. PiWork'  BY <1>1, <2>1 DEF PiInv, PiWork
  <2>4. Ahead' \subseteq Pi!Paths  BY <1>1, <2>1, PiApart DEF Ahead
  <2>5. \A q \in Pi!Paths : backups[clock][q] = Pi!Absent
    BY <1>1, PiStages DEF PiInv, PiBackups
  <2>6. PiBackups'  BY <1>1, <2>1, <2>4, <2>5 DEF PiInv, PiBackups
  <2>7. PiHolds'  BY <2>1 DEF PiHolds
  <2>8. PiProgress'  BY <1>1, <2>1 DEF PiProgress, CleanedUp
  <2> QED  BY <2>1, <2>2, <2>3, <2>6, <2>7, <2>8 DEF PiInv
<1> QED  BY <1>2, <1>3

\* A stage that is done leaves nothing to do.
LEMMA PiNextStages == ASSUME PiInv, Pi!NextStage  PROVE PiInv'
<1>1. /\ held = Pi!Nothing /\ todo = {} /\ held.path = "" /\ held' = held
      /\ UNCHANGED <<files, backups, manifest, release, run, clock, edits, owed>>
  BY PiContents DEF Pi!NextStage
<1>2. \/ stage = "cleanups" /\ stage' = "files" /\ todo' = Pi!Files
      \/ stage = "files" /\ stage' = "overlays" /\ todo' = Rendered[run.of]
      \/ stage = "overlays" /\ stage' = "stale" /\ todo' = manifest.listed \ Rendered[run.of]
  <2>1. PICK i \in 1..3 : stage = Pi!Stages[i] /\ stage' = Pi!Stages[i + 1]
                          /\ todo' = Pi!WorkOf(Pi!Stages[i + 1])
    BY DEF Pi!NextStage
  <2>2. i = 1 \/ i = 2 \/ i = 3  BY <2>1
  <2>3. CASE i = 1  BY <2>1, <2>3 DEF Pi!Stages, Pi!WorkOf
  <2>4. CASE i = 2  BY <2>1, <2>4 DEF Pi!Stages, Pi!WorkOf
  <2>5. CASE i = 3  BY <2>1, <2>5 DEF Pi!Stages, Pi!WorkOf
  <2> QED  BY <2>2, <2>3, <2>4, <2>5
<1>3. run.of = release /\ release \in Pi!Releases /\ Rendered[release] \subseteq Overlays
      /\ manifest.listed \subseteq Overlays
  BY <1>2, PiApart DEF PiInv, PiWork, PiTypes, PiManifests
<1>4. todo' \subseteq Pi!Paths /\ "" \notin todo'  BY <1>2, <1>3, PiApart
<1>5. PiTypes'  BY <1>1, <1>2, <1>4 DEF PiInv, PiTypes, PiSteps
<1>6. PiWork'
  <2>1. stage # "idle" => clock > 0 /\ run.of = release /\ run.out = ""  BY DEF PiInv, PiWork
  <2>2. CASE stage = "cleanups"  BY <1>1, <1>2, <2>1, <2>2 DEF PiInv, PiWork
  <2>3. CASE stage = "files"  BY <1>1, <1>2, <1>3, <1>4, <2>1, <2>3 DEF PiInv, PiWork
  <2>4. CASE stage = "overlays"
    BY <1>1, <1>2, <1>3, <1>4, <2>1, <2>4 DEF PiInv, PiWork
  <2> QED  BY <1>2, <2>2, <2>3, <2>4
<1>7. Ahead' \subseteq Ahead
  <2>1. todo' \ {held'.path} = todo'  BY <1>1, <1>4
  <2>2. CASE stage = "cleanups"  BY <1>1, <1>2, <2>1, <2>2 DEF Ahead
  <2>3. CASE stage = "files"  BY <1>1, <1>2, <1>3, <2>1, <2>3 DEF Ahead
  <2>4. CASE stage = "overlays"  BY <1>1, <1>2, <1>3, <2>1, <2>4 DEF Ahead
  <2> QED  BY <1>2, <2>2, <2>3, <2>4
<1>8. PiBackups'  BY <1>1, <1>7 DEF PiInv, PiBackups
<1>9. PiHolds'  BY <1>1 DEF PiHolds
<1>10. ASSUME ~run.dirty PROVE PiProgress'
  <2>1. PiProgress  BY <1>10 DEF PiInv
  <2>2. \A q : Installed(q)' <=> Installed(q)  BY <1>1 DEF Installed
  <2>3. CASE stage = "cleanups"
    <3>1. CleanedUp' /\ FilesDone'
      BY <1>1, <1>2, <2>1, <2>3 DEF PiProgress, CleanedUp, FilesDone, PiSteps
    <3> QED  BY <1>2, <2>3, <3>1 DEF PiProgress
  <2>4. CASE stage = "files"
    <3>1. CleanedUp' /\ FilesDone'
      BY <1>1, <2>1, <2>2, <2>4 DEF PiProgress, CleanedUp, FilesDone, PiSteps
    <3>2. run'.listed = {} /\ run'.conflicts = {}  BY <1>1, <2>4 DEF PiInv, PiWork
    <3> QED  BY <3>1, <3>2 DEF PiProgress, OverlaysDone
  <2>5. CASE stage = "overlays"
    <3>1. CleanedUp' /\ FilesDone' /\ OverlaysDone'
      BY <1>1, <2>1, <2>2, <2>5 DEF PiProgress, CleanedUp, FilesDone, OverlaysDone, PiSteps
    <3> QED  BY <1>1, <2>1, <2>5, <3>1 DEF PiProgress
  <2> QED  BY <1>2, <2>3, <2>4, <2>5
<1> QED  BY <1>1, <1>2, <1>5, <1>6, <1>8, <1>9, <1>10 DEF PiInv

\* The path that is next, and the stage it is of.
LEMMA PiNext ==
  ASSUME PiInv, todo # {}
  PROVE  /\ Pi!Upcoming \in todo /\ Pi!Upcoming \in Pi!Paths /\ Pi!Upcoming # "" /\ stage \in PiSteps
         /\ run.of = release /\ run.out = "" /\ clock \in 1..MaxInstalls
<1>1. stage \in PiSteps /\ run.of = release /\ run.out = "" /\ clock > 0
  BY DEF PiInv, PiWork, PiTypes
<1>2. Pi!Upcoming \in todo /\ todo \subseteq Pi!Paths  BY DEF Pi!Upcoming, PiInv, PiTypes
<1> QED  BY <1>1, <1>2, PiApart, PiClock DEF PiInv

\* A step that decides to write or to delete: what it finds is backed up, or there
\* was nothing.
LEMMA PiLooks ==
  ASSUME PiInv, held = Pi!Nothing, todo # {}, NEW action \in PiActions, NEW to,
         held' = [path |-> Pi!Upcoming, to |-> to],
         run' = [run EXCEPT !.done[Pi!Upcoming] = action,
                            !.listed = IF stage = "overlays" THEN @ \cup {Pi!Upcoming} ELSE @],
         Pi!BackUp(Pi!Upcoming) \/ (UNCHANGED backups /\ files[Pi!Upcoming] = Pi!Absent),
         to = IF stage \in {"files", "overlays"} THEN Pi!Desired(Pi!Upcoming, release) ELSE Pi!Absent,
         Pi!Upcoming \in Overlays =>
           (files[Pi!Upcoming] = Pi!Absent \/ Pi!Upcoming \in manifest.listed),
         UNCHANGED <<files, manifest, release, stage, todo, clock, edits, owed>>
  PROVE  PiInv'
<1> DEFINE q == Pi!Upcoming
<1>1. q \in todo /\ q \in Pi!Paths /\ q # "" /\ stage \in PiSteps /\ clock \in 1..MaxInstalls
      /\ run.of = release /\ run.out = "" /\ held.path = ""
  BY PiNext, PiContents
<1>2. Pi!Upcoming' = q  BY DEF Pi!Upcoming
<1>3. held' = [path |-> q, to |-> to] /\ held'.path = q /\ held'.to = to  OBVIOUS
<1>4. run' = [run EXCEPT !.done[q] = action,
                         !.listed = IF stage = "overlays" THEN @ \cup {q} ELSE @]
  OBVIOUS
<1>5. \/ backups' = [backups EXCEPT ![clock][q] = files[q]]
      \/ UNCHANGED backups /\ files[q] = Pi!Absent
  BY DEF Pi!BackUp
<1>6. q \in Overlays => files[q] = Pi!Absent \/ q \in manifest.listed  OBVIOUS
<1>7. to = IF stage \in {"files", "overlays"} THEN Pi!Desired(q, release) ELSE Pi!Absent
  OBVIOUS
<1>8. stage = "overlays" => todo \subseteq Rendered[release] /\ q \in Overlays
  <2>1. stage = "overlays" => todo \subseteq Rendered[release]  BY DEF PiInv, PiWork
  <2>2. Rendered[release] \subseteq Overlays  BY PiApart DEF PiInv, PiTypes
  <2> QED  BY <1>1, <2>1, <2>2
<1> HIDE DEF q
<1>9. to \in Pi!Content /\ to = to  BY <1>1, <1>7, PiDesired, PiContents DEF PiInv
<1>10. /\ run' \in PiRun
       /\ run'.of = run.of /\ run'.out = run.out /\ run'.dirty = run.dirty
       /\ run'.conflicts = run.conflicts /\ run'.failed = run.failed
       /\ run'.listed = IF stage = "overlays" THEN run.listed \cup {q} ELSE run.listed
  <2>1. run \in PiRun  BY DEF PiInv, PiTypes
  <2> DEFINE d == [run.done EXCEPT ![q] = action]
             l == IF stage = "overlays" THEN run.listed \cup {q} ELSE run.listed
  <2>2. d \in [Pi!Paths -> PiActions]  BY <2>1 DEF PiRun
  <2>3. l \in SUBSET Overlays  BY <2>1, <1>8 DEF PiRun
  <2>4. run' = [run EXCEPT !.done = d, !.listed = l]  BY <1>4, <2>1 DEF PiRun
  <2> HIDE DEF d
  <2>5. l = IF stage = "overlays" THEN run.listed \cup {q} ELSE run.listed  OBVIOUS
  <2> HIDE DEF l
  <2> QED  BY <2>1, <2>2, <2>3, <2>4, <2>5 DEF PiRun
<1>11. /\ backups' \in [1..MaxInstalls -> [Pi!Paths -> Pi!Content]]
       /\ \A s \in 1..MaxInstalls, x \in Pi!Paths :
             backups'[s][x] = backups[s][x] \/ (s = clock /\ x = q)
       /\ files[q].user = 0 \/ backups'[clock][q].user = files[q].user
  <2>1. CASE UNCHANGED backups /\ files[q] = Pi!Absent
    BY <2>1, PiContents DEF PiInv, PiTypes
  <2>2. CASE backups' = [backups EXCEPT ![clock][q] = files[q]]
    <3>1. backups \in [1..MaxInstalls -> [Pi!Paths -> Pi!Content]] /\ files[q] \in Pi!Content
      BY <1>1 DEF PiInv, PiTypes
    <3> QED  BY <1>1, <2>2, <3>1
  <2> QED  BY <1>5, <2>1, <2>2
<1>12. PiTypes'
  <2>1. held' \in [path : Pi!Paths, to : Pi!Content]  BY <1>1, <1>3, <1>9
  <2> QED  BY <1>10, <1>11, <2>1 DEF PiInv, PiTypes
<1>13. held' # Pi!Nothing  BY <1>1, <1>3, PiContents
<1>14. PiWork'
  <2>1. /\ clock > 0 /\ stage # "planned" /\ stage # "idle"
        /\ stage = "cleanups" => todo \subseteq Cleanups
        /\ stage = "files" => todo \subseteq Pi!Files
        /\ stage = "overlays" => todo \subseteq Rendered[release]
        /\ stage = "stale" => todo \subseteq manifest.listed \ Rendered[release]
    BY <1>1 DEF PiInv, PiWork, PiSteps
  <2>2. stage \in {"cleanups", "files"} => run'.listed = {} /\ run'.conflicts = {}
    BY <1>10 DEF PiInv, PiWork
  <2>3. stage \in {"overlays", "stale"} =>
          /\ run'.listed \cup run'.conflicts \subseteq Rendered[release]
          /\ run'.listed \cap run'.conflicts = {}
          /\ Rendered[release] \ (todo \ {q}) \subseteq run'.listed \cup run'.conflicts
          /\ todo \cap run'.conflicts = {} /\ todo \cap run'.listed \subseteq {q}
    <3> HAVE stage \in {"overlays", "stale"}
    <3>1. /\ run.listed \cup run.conflicts \subseteq Rendered[release]
          /\ run.listed \cap run.conflicts = {}
          /\ Rendered[release] \ todo \subseteq run.listed \cup run.conflicts
          /\ todo \cap run.conflicts = {}
      BY <1>1 DEF PiInv, PiWork
    <3>2. todo \cap run.listed = {}
      <4>1. todo \cap run.listed \subseteq {""}  BY <1>1 DEF PiInv, PiWork
      <4>2. "" \notin todo  BY PiHeld DEF PiInv
      <4> QED  BY <4>1, <4>2
    <3>3. CASE stage = "overlays"
      <4>1. run'.listed = run.listed \cup {q} /\ run'.conflicts = run.conflicts  BY <1>10, <3>3
      <4>2. q \in Rendered[release] /\ q \in todo  BY <1>1, <1>8, <3>3
      <4>3. q \notin run.conflicts  BY <3>1, <4>2
      <4>4. run'.listed \cap run'.conflicts = {}  BY <3>1, <4>1, <4>3
      <4>5. todo \cap run'.listed \subseteq {q}  BY <3>2, <4>1
      <4>6. Rendered[release] \ (todo \ {q}) \subseteq run'.listed \cup run'.conflicts
        BY <3>1, <4>1
      <4>7. run'.listed \cup run'.conflicts \subseteq Rendered[release]  BY <3>1, <4>1, <4>2
      <4> QED  BY <3>1, <4>1, <4>4, <4>5, <4>6, <4>7
    <3>4. CASE stage = "stale"
      <4>1. run'.listed = run.listed /\ run'.conflicts = run.conflicts  BY <1>10, <3>4
      <4>2. q \notin Rendered[release]  BY <1>1, <2>1, <3>4
      <4> QED  BY <1>1, <3>1, <3>2, <4>1, <4>2
    <3> QED  BY <3>3, <3>4
  <2> QED  BY <1>1, <1>2, <1>3, <1>10, <2>1, <2>2, <2>3 DEF PiWork
<1>15. Ahead' \subseteq Ahead \ {q} /\ q \in Ahead
  <2>1. todo' = todo /\ held'.path = q /\ todo \ {held.path} = todo
        /\ Pi!Files \cap Cleanups = {} /\ Overlays \cap Cleanups = {} /\ Pi!Files \cap Overlays = {}
    BY <1>3, PiApart, PiHeld DEF PiInv
  <2>2. CASE stage = "cleanups"
    <3>1. todo \subseteq Cleanups  BY <2>2 DEF PiInv, PiWork
    <3>2. Ahead = Pi!Files \cup Overlays \cup todo /\ Ahead' = Pi!Files \cup Overlays \cup (todo \ {q})
      BY <2>1, <2>2 DEF Ahead
    <3>3. q \in todo /\ q \notin Pi!Files /\ q \notin Overlays  BY <1>1, <2>1, <3>1
    <3> QED  BY <3>2, <3>3
  <2>3. CASE stage = "files"
    <3>1. todo \subseteq Pi!Files  BY <2>3 DEF PiInv, PiWork
    <3>2. Ahead = Overlays \cup todo /\ Ahead' = Overlays \cup (todo \ {q})
      BY <2>1, <2>3 DEF Ahead
    <3> QED  BY <1>1, <2>1, <3>1, <3>2
  <2>4. CASE stage = "overlays"
    <3>1. todo \subseteq Rendered[release]  BY <2>4 DEF PiInv, PiWork
    <3>2. /\ Ahead = (Overlays \ Rendered[release]) \cup todo
          /\ Ahead' = (Overlays \ Rendered[release]) \cup (todo \ {q})
      BY <2>1, <2>4 DEF Ahead
    <3> QED  BY <1>1, <2>1, <3>1, <3>2
  <2>5. CASE stage = "stale"
    <3>1. Ahead = todo /\ Ahead' = todo \ {q}  BY <2>1, <2>5 DEF Ahead
    <3> QED  BY <1>1, <2>1, <3>1
  <2> QED  BY <1>1, <2>2, <2>3, <2>4, <2>5 DEF PiSteps
<1>16. PiBackups'
  <2>1. /\ \A x \in Ahead : backups[clock][x] = Pi!Absent
        /\ \A s \in 1..MaxInstalls : s > clock => \A x \in Pi!Paths : backups[s][x] = Pi!Absent
    BY DEF PiInv, PiBackups
  <2>2. ASSUME NEW o \in owed PROVE \E s \in 1..MaxInstalls : backups'[s][o[1]].user = o[2]
    <3>1. PICK s \in 1..MaxInstalls : backups[s][o[1]].user = o[2]  BY DEF PiInv, PiBackups
    <3>2. o[1] \in Pi!Paths /\ o[2] # 0  BY DEF PiInv, PiTypes
    <3>3. backups[clock][q].user = 0  BY <1>15, <2>1, PiContents
    <3> QED  BY <1>11, <3>1, <3>2, <3>3
  <2>3. ASSUME NEW s \in 1..MaxInstalls, s > clock, NEW x \in Pi!Paths
        PROVE  backups'[s][x] = Pi!Absent
    <3>1. s # clock  BY <2>3, PiClock DEF PiInv
    <3> QED  BY <1>11, <2>1, <2>3, <3>1
  <2>4. ASSUME NEW x \in Ahead' PROVE backups'[clock][x] = Pi!Absent
    <3>1. x \in Ahead /\ x # q  BY <1>15
    <3>2. x \in Pi!Paths
      <4>1. todo \subseteq Pi!Paths  BY DEF PiInv, PiTypes
      <4> QED  BY <1>1, <3>1, <4>1, PiApart, PiStages DEF PiInv, PiSteps
    <3> QED  BY <1>1, <1>11, <2>1, <3>1, <3>2
  <2> QED  BY <1>3, <1>11, <2>2, <2>3, <2>4 DEF PiBackups
<1>17. PiHolds'
  <2>1. held'.to = IF stage' \in {"files", "overlays"} THEN Pi!Desired(q, release) ELSE Pi!Absent
    BY <1>3, <1>7
  <2> QED  BY <1>3, <1>6, <2>1 DEF PiHolds, Pi!Desired
<1>18. ASSUME ~run.dirty PROVE PiProgress'
  <2>1. PiProgress  BY <1>18 DEF PiInv
  <2>2. \A x : Installed(x)' <=> Installed(x)  BY <1>10 DEF Installed
  <2>3. run'.listed \ todo = run.listed \ todo
    <3>1. q \in todo /\ run'.listed \in {run.listed, run.listed \cup {q}}  BY <1>1, <1>10
    <3> QED  BY <3>1
  <2>4. /\ CleanedUp' <=> CleanedUp
        /\ FilesDone' <=> FilesDone
        /\ OverlaysDone' <=> OverlaysDone
    <3>1. CleanedUp' <=> CleanedUp  BY DEF CleanedUp
    <3>2. FilesDone' <=> FilesDone  BY <1>10, <2>2 DEF FilesDone
    <3>3. OverlaysDone' <=> OverlaysDone  BY <1>10, <2>2, <2>3 DEF OverlaysDone
    <3> QED  BY <3>1, <3>2, <3>3
  <2> QED  BY <1>10, <2>1, <2>4 DEF PiProgress
<1> QED  BY <1>1, <1>10, <1>12, <1>14, <1>16, <1>17, <1>18 DEF PiInv, PiSteps

\* A path that is not ahead any more: it holds what it should, it is a file of the
\* user, or it could not be written.
LEMMA PiSkips ==
  ASSUME PiInv, todo # {}, stage \in {"files", "overlays"},
         held' = Pi!Nothing, todo' = todo \ {Pi!Upcoming},
         run' \in PiRun, run'.of = run.of, run'.out = run.out, run'.dirty = run.dirty,
         \/ /\ held = Pi!Nothing /\ files[Pi!Upcoming] = Pi!Desired(Pi!Upcoming, release)
            /\ run'.listed = IF stage = "overlays" THEN run.listed \cup {Pi!Upcoming} ELSE run.listed
            /\ run'.conflicts = run.conflicts /\ run'.failed = run.failed
         \/ /\ held = Pi!Nothing /\ stage = "overlays" /\ Pi!Collides(Pi!Upcoming, manifest.listed)
            /\ run'.conflicts = run.conflicts \cup {Pi!Upcoming}
            /\ run'.listed = run.listed /\ run'.failed = run.failed
         \/ /\ stage = "files" /\ run'.failed = run.failed \cup {Pi!Upcoming}
            /\ run'.listed = run.listed /\ run'.conflicts = run.conflicts,
         UNCHANGED <<files, backups, manifest, release, stage, clock, edits, owed>>
  PROVE  PiInv'
<1> DEFINE q == Pi!Upcoming
<1>1. /\ q \in todo /\ q \in Pi!Paths /\ q # "" /\ clock \in 1..MaxInstalls
      /\ run.of = release /\ run.out = ""
  BY PiNext
<1>2. held' = Pi!Nothing /\ held'.path = "" /\ todo' = todo \ {q}  BY PiContents
<1>3. held.path \in {"", q}  BY PiContents DEF PiInv, PiWork
<1>4. \/ /\ held = Pi!Nothing /\ files[q] = Pi!Desired(q, release)
         /\ run'.listed = IF stage = "overlays" THEN run.listed \cup {q} ELSE run.listed
         /\ run'.conflicts = run.conflicts /\ run'.failed = run.failed
      \/ /\ held = Pi!Nothing /\ stage = "overlays" /\ Pi!Collides(q, manifest.listed)
         /\ run'.conflicts = run.conflicts \cup {q}
         /\ run'.listed = run.listed /\ run'.failed = run.failed
      \/ /\ stage = "files" /\ run'.failed = run.failed \cup {q}
         /\ run'.listed = run.listed /\ run'.conflicts = run.conflicts
  OBVIOUS
<1> HIDE DEF q
<1>5. PiTypes'  BY <1>2 DEF PiInv, PiTypes
<1>6. PiWork'
  <2>1. /\ clock > 0
        /\ stage = "files" => /\ todo' \subseteq Pi!Files
                              /\ run'.listed = {} /\ run'.conflicts = {}
        /\ stage = "overlays" => todo \subseteq Rendered[release]
    BY <1>2, <1>4 DEF PiInv, PiWork
  <2>2. stage = "overlays" =>
          /\ run'.listed \cup run'.conflicts \subseteq Rendered[release]
          /\ run'.listed \cap run'.conflicts = {}
          /\ Rendered[release] \ todo' \subseteq run'.listed \cup run'.conflicts
          /\ todo' \cap run'.conflicts = {} /\ todo' \cap run'.listed = {}
    <3> HAVE stage = "overlays"
    <3>1. held = Pi!Nothing /\ held.path = ""  BY <1>4, PiContents
    <3>2. /\ run.listed \cup run.conflicts \subseteq Rendered[release]
          /\ run.listed \cap run.conflicts = {}
          /\ Rendered[release] \ (todo \ {""}) \subseteq run.listed \cup run.conflicts
          /\ todo \cap run.conflicts = {} /\ todo \cap run.listed \subseteq {""}
      BY <3>1 DEF PiInv, PiWork
    <3>3. "" \notin todo  BY PiHeld DEF PiInv
    <3>4. q \in Rendered[release] /\ q \in todo /\ q \notin run.conflicts /\ q \notin run.listed
          /\ Rendered[release] \ todo \subseteq run.listed \cup run.conflicts
          /\ todo \cap run.listed = {}
      BY <1>1, <2>1, <3>2, <3>3
    <3>5. CASE run'.listed = run.listed \cup {q} /\ run'.conflicts = run.conflicts
      <4>1. run'.listed \cup run'.conflicts \subseteq Rendered[release]  BY <3>2, <3>4, <3>5
      <4>2. run'.listed \cap run'.conflicts = {}  BY <3>2, <3>4, <3>5
      <4>3. Rendered[release] \ todo' \subseteq run'.listed \cup run'.conflicts
        BY <1>2, <3>4, <3>5
      <4>4. todo' \cap run'.conflicts = {} /\ todo' \cap run'.listed = {}
        BY <1>2, <3>2, <3>4, <3>5
      <4> QED  BY <4>1, <4>2, <4>3, <4>4
    <3>6. CASE run'.listed = run.listed /\ run'.conflicts = run.conflicts \cup {q}
      <4>1. run'.listed \cup run'.conflicts \subseteq Rendered[release]  BY <3>2, <3>4, <3>6
      <4>2. run'.listed \cap run'.conflicts = {}  BY <3>2, <3>4, <3>6
      <4>3. Rendered[release] \ todo' \subseteq run'.listed \cup run'.conflicts
        BY <1>2, <3>4, <3>6
      <4>4. todo' \cap run'.conflicts = {} /\ todo' \cap run'.listed = {}
        BY <1>2, <3>2, <3>4, <3>6
      <4> QED  BY <4>1, <4>2, <4>3, <4>4
    <3> QED  BY <1>4, <3>5, <3>6
  <2>3. todo' \ {""} = todo'
    <3>1. "" \notin todo  BY PiHeld DEF PiInv
    <3> QED  BY <1>2, <3>1
  <2>4. stage = "overlays" => todo' \subseteq Rendered[release]  BY <1>2, <2>1
  <2> QED  BY <1>1, <1>2, <2>1, <2>2, <2>3, <2>4 DEF PiWork
<1>7. Ahead' \subseteq Ahead
  <2>1. todo' \ {held'.path} \subseteq todo \ {held.path}
    <3>1. "" \notin todo  BY PiHeld DEF PiInv
    <3> QED  BY <1>2, <1>3, <3>1
  <2>2. CASE stage = "files"
    <3>1. Ahead = Overlays \cup (todo \ {held.path}) /\ Ahead' = Overlays \cup (todo' \ {held'.path})
      BY <2>2 DEF Ahead
    <3> QED  BY <2>1, <3>1
  <2>3. CASE stage = "overlays"
    <3>1. /\ Ahead = (Overlays \ Rendered[release]) \cup (todo \ {held.path})
          /\ Ahead' = (Overlays \ Rendered[release]) \cup (todo' \ {held'.path})
      BY <2>3 DEF Ahead
    <3> QED  BY <2>1, <3>1
  <2> QED  BY <2>2, <2>3
<1>8. PiBackups'  BY <1>2, <1>7 DEF PiInv, PiBackups
<1>9. PiHolds'  BY <1>2 DEF PiHolds
<1>10. ASSUME ~run.dirty PROVE PiProgress'
  <2>1. PiProgress  BY <1>10 DEF PiInv
  <2>2. \A x : Installed(x)' <=> Installed(x)  BY DEF Installed
  <2>3. CleanedUp'
    <3>1. CleanedUp  BY <2>1 DEF PiProgress, PiSteps
    <3>2. q \notin Cleanups
      <4>1. CASE stage = "files"
        <5>1. q \in Pi!Files  BY <1>1, <4>1 DEF PiInv, PiWork
        <5> QED  BY <5>1, PiApart
      <4>2. CASE stage = "overlays"
        <5>1. q \in Rendered[release] /\ release \in Pi!Releases
          BY <1>1, <4>2 DEF PiInv, PiWork, PiTypes
        <5> QED  BY <5>1, PiApart
      <4> QED  BY <4>1, <4>2
    <3> QED  BY <1>2, <3>1, <3>2 DEF CleanedUp
  <2>4. files[q] = Pi!Desired(q, release) => Installed(q)
    BY <1>1 DEF Installed, Pi!Desired
  <2>5. FilesDone'
    <3>1. FilesDone  BY <2>1 DEF PiProgress
    <3>2. run.failed \subseteq run'.failed  BY <1>4
    <3>3. q \in Pi!Files => Installed(q) \/ q \in run'.failed
      <4>1. stage = "overlays" => q \notin Pi!Files
        <5>1. stage = "overlays" => q \in Rendered[release] /\ release \in Pi!Releases
          BY <1>1 DEF PiInv, PiWork, PiTypes
        <5> QED  BY <5>1, PiApart
      <4> QED  BY <1>4, <2>4, <4>1
    <3> QED  BY <1>2, <2>2, <3>1, <3>2, <3>3 DEF FilesDone
  <2>6. CASE stage = "files"  BY <2>3, <2>5, <2>6 DEF PiProgress
  <2>7. CASE stage = "overlays"
    <3>1. OverlaysDone /\ \A x \in run.conflicts : x \notin manifest.listed
      BY <2>1, <2>7 DEF PiProgress
    <3>2. \A x \in run'.listed : x \in run.listed \/ (x = q /\ Installed(q))
      BY <1>4, <2>4, <2>7
    <3>3. \A x \in run'.conflicts : x \in run.conflicts \/ (x = q /\ Pi!Collides(q, manifest.listed))
      BY <1>4, <2>7
    <3>4. q \in run'.listed => Installed(q)
      <4>1. q \notin run.listed
        <5>1. held.path = ""  BY <1>4, <2>7, PiContents
        <5>2. todo \cap run.listed \subseteq {held.path}  BY <2>7 DEF PiInv, PiWork
        <5> QED  BY <1>1, <5>1, <5>2
      <4> QED  BY <3>2, <4>1
    <3>5. OverlaysDone'
      <4>1. \A x \in run'.listed \ todo' : Installed(x)
        BY <1>2, <3>1, <3>2, <3>4 DEF OverlaysDone
      <4>2. \A x \in run'.conflicts : files[x] # Pi!Absent
        BY <3>1, <3>3 DEF OverlaysDone, Pi!Collides
      <4> QED  BY <2>2, <4>1, <4>2 DEF OverlaysDone
    <3>6. \A x \in run'.conflicts : x \notin manifest.listed  BY <3>1, <3>3 DEF Pi!Collides
    <3> QED  BY <2>3, <2>5, <3>5, <3>6 DEF PiProgress
  <2> QED  BY <2>6, <2>7
<1> QED  BY <1>5, <1>6, <1>8, <1>9, <1>10 DEF PiInv

\* The step of a rendered path: in place, a collision, or looked at.
LEMMA PiLooksRendered == ASSUME PiInv, Pi!LookRendered  PROVE PiInv'
<1> DEFINE q == Pi!Upcoming  listed == IF stage = "overlays" THEN run.listed \cup {q} ELSE run.listed
<1>1. /\ stage \in {"files", "overlays"} /\ held = Pi!Nothing /\ todo # {}
      /\ UNCHANGED <<files, manifest, release, stage, clock, edits, owed>>
  BY DEF Pi!LookRendered
<1>2. /\ q \in todo /\ q \in Pi!Paths /\ run.of = release /\ run \in PiRun /\ release \in Pi!Releases
  BY <1>1, PiNext DEF PiInv, PiTypes
<1>3. stage = "overlays" => q \in Overlays
  BY <1>2, PiApart DEF PiInv, PiWork
<1>4. stage = "files" => q \notin Overlays
  BY <1>2, PiApart DEF PiInv, PiWork
<1>5. CASE stage = "overlays" /\ Pi!Collides(q, manifest.listed)
  <2>1. run' = [run EXCEPT !.conflicts = @ \cup {q}] /\ todo' = todo \ {q}
        /\ held' = Pi!Nothing /\ UNCHANGED backups
    BY <1>1, <1>5 DEF Pi!LookRendered
  <2>2. /\ run' \in PiRun /\ run'.of = run.of /\ run'.out = run.out /\ run'.dirty = run.dirty
        /\ run'.conflicts = run.conflicts \cup {q}
        /\ run'.listed = run.listed /\ run'.failed = run.failed
    BY <1>2, <1>3, <1>5, <2>1 DEF PiRun
  <2> QED  BY <1>1, <1>5, <2>1, <2>2, PiSkips
<1>6. CASE ~(stage = "overlays" /\ Pi!Collides(q, manifest.listed))
  <2> DEFINE action == Pi!ActionFor(q, release)
  <2>1. Pi!Look(q, action, Pi!Desired(q, release))
    BY <1>2, <1>6 DEF Pi!LookRendered
  <2>2. /\ action \in {"unchanged", "create", "update"}
        /\ action = "unchanged" => files[q] = Pi!Desired(q, release)
        /\ action = "create" => files[q] = Pi!Absent
    BY DEF Pi!ActionFor
  <2> HIDE DEF action
  <2>3. run' = [run EXCEPT !.done[q] = action,
                           !.listed = IF stage = "overlays" THEN @ \cup {q} ELSE @]
    BY <2>1 DEF Pi!Look
  <2>4. CASE action = "unchanged"
    <3>1. todo' = todo \ {q} /\ held' = Pi!Nothing /\ UNCHANGED backups
      BY <2>1, <2>4 DEF Pi!Look
    <3>2. /\ run' \in PiRun /\ run'.of = run.of /\ run'.out = run.out /\ run'.dirty = run.dirty
          /\ run'.conflicts = run.conflicts /\ run'.failed = run.failed
          /\ run'.listed = listed
      <4> DEFINE d == [run.done EXCEPT ![q] = action]
      <4>1. d \in [Pi!Paths -> PiActions]  BY <1>2, <2>4 DEF PiRun, PiActions
      <4>2. listed \in SUBSET Overlays  BY <1>2, <1>3 DEF PiRun
      <4>3. run' = [run EXCEPT !.done = d, !.listed = listed]  BY <1>2, <2>3 DEF PiRun
      <4> HIDE DEF d, listed
      <4> QED  BY <1>2, <4>1, <4>2, <4>3 DEF PiRun
    <3> QED  BY <1>1, <2>2, <2>4, <3>1, <3>2, PiSkips
  <2>5. CASE action # "unchanged"
    <3>1. UNCHANGED todo /\ held' = [path |-> q, to |-> Pi!Desired(q, release)]
          /\ (Pi!BackUp(q) \/ (UNCHANGED backups /\ files[q] = Pi!Absent))
      BY <2>1, <2>2, <2>5 DEF Pi!Look
    <3>2. q \in Overlays => files[q] = Pi!Absent \/ q \in manifest.listed
      BY <1>1, <1>4, <1>6 DEF Pi!Collides
    <3>3. action \in PiActions  BY <2>2 DEF PiActions
    <3> QED  BY <1>1, <2>3, <3>1, <3>2, <3>3, PiLooks
  <2> QED  BY <2>4, <2>5
<1> QED  BY <1>5, <1>6

\* The step of a path that is deleted: gone already, or looked at.
LEMMA PiLooksDelete == ASSUME PiInv, Pi!LookDelete  PROVE PiInv'
<1> DEFINE q == Pi!Upcoming
<1>1. /\ stage \in {"cleanups", "stale"} /\ held = Pi!Nothing /\ todo # {}
      /\ UNCHANGED <<files, manifest, release, clock, edits, owed>>
  BY DEF Pi!LookDelete
<1>2. CASE files[q] = Pi!Absent
  <2>1. Pi!Finish("error") /\ UNCHANGED backups  BY <1>2 DEF Pi!LookDelete
  <2> QED  BY <1>1, <2>1, PiStops DEF PiOuts
<1>3. CASE files[q] # Pi!Absent
  <2>1. Pi!Look(q, "delete", Pi!Absent) /\ UNCHANGED stage  BY <1>3 DEF Pi!LookDelete
  <2>2. /\ Pi!BackUp(q) /\ UNCHANGED todo /\ held' = [path |-> q, to |-> Pi!Absent]
        /\ run' = [run EXCEPT !.done[q] = "delete",
                              !.listed = IF stage = "overlays" THEN @ \cup {q} ELSE @]
    BY <2>1 DEF Pi!Look
  <2>3. q \in Overlays => q \in manifest.listed
    <3>1. q \in todo  BY <1>1, PiNext
    <3>2. stage = "cleanups" => q \in Cleanups  BY <3>1 DEF PiInv, PiWork
    <3>3. stage = "stale" => q \in manifest.listed  BY <3>1 DEF PiInv, PiWork
    <3> QED  BY <1>1, <3>2, <3>3, PiApart
  <2>4. "delete" \in PiActions  BY DEF PiActions
  <2> QED  BY <1>1, <2>1, <2>2, <2>3, <2>4, PiLooks
<1> QED  BY <1>2, <1>3

\* A file that cannot be written is noted; any other failure ends the install.
LEMMA PiNotes ==
  ASSUME PiInv, Pi!Missed
  PROVE  \/ /\ stage = "files" /\ todo # {} /\ Pi!Upcoming \in todo
            /\ todo' = todo \ {Pi!Upcoming} /\ held' = Pi!Nothing /\ UNCHANGED stage
            /\ run' \in PiRun /\ run'.of = run.of /\ run'.out = run.out /\ run'.dirty = run.dirty
            /\ run'.failed = run.failed \cup {Pi!Upcoming}
            /\ run'.listed = run.listed /\ run'.conflicts = run.conflicts
         \/ Pi!Finish("error")
<1> DEFINE q == Pi!Upcoming
<1>1. CASE stage = "files" /\ todo # {}
  <2>1. /\ run' = [run EXCEPT !.failed = @ \cup {q}, !.done[q] = "none"]
        /\ todo' = todo \ {q} /\ held' = Pi!Nothing /\ UNCHANGED stage
    BY <1>1 DEF Pi!Missed
  <2>2. q \in todo /\ q \in Pi!Files /\ q \in Pi!Paths /\ run \in PiRun
    BY <1>1, PiNext DEF PiInv, PiWork, PiTypes
  <2> DEFINE d == [run.done EXCEPT ![q] = "none"]  f == run.failed \cup {q}
  <2>3. d \in [Pi!Paths -> PiActions]  BY <2>2 DEF PiRun, PiActions
  <2>4. f \in SUBSET Pi!Files  BY <2>2 DEF PiRun
  <2>5. run' = [run EXCEPT !.failed = f, !.done = d]  BY <2>1, <2>2 DEF PiRun
  <2>6. f = run.failed \cup {q}  OBVIOUS
  <2> HIDE DEF d, f
  <2>7. /\ run' \in PiRun /\ run'.of = run.of /\ run'.out = run.out /\ run'.dirty = run.dirty
        /\ run'.failed = run.failed \cup {q}
        /\ run'.listed = run.listed /\ run'.conflicts = run.conflicts
    BY <2>2, <2>3, <2>4, <2>5, <2>6 DEF PiRun
  <2> QED  BY <1>1, <2>1, <2>2, <2>7
<1>2. CASE ~(stage = "files" /\ todo # {})  BY <1>2 DEF Pi!Missed
<1> QED  BY <1>1, <1>2

\* A step that fails before it has an effect.
LEMMA PiFails == ASSUME PiInv, Pi!Fail  PROVE PiInv'
<1>1. UNCHANGED <<files, backups, manifest, release, clock, edits, owed>> /\ Pi!Missed
  BY DEF Pi!Fail, Pi!Missed
<1>2. CASE Pi!Finish("error")  BY <1>1, <1>2, PiStops DEF PiOuts
<1>3. CASE ~Pi!Finish("error")  BY <1>1, <1>3, PiNotes, PiSkips
<1> QED  BY <1>2, <1>3

\* What the manifest is that an install writes.
LEMMA PiListing ==
  ASSUME PiTypes
  PROVE  /\ Pi!Listing(run.listed) \in PiManifests
         /\ Pi!Listing(run.listed).state = "read" /\ Pi!Listing(run.listed).listed = run.listed
<1>1. run.listed \in SUBSET Overlays  BY DEF PiTypes, PiRun
<1> QED  BY <1>1 DEF Pi!Listing, PiManifests

\* What is taken out of its file is in a backup.
LEMMA PiReplaced ==
  ASSUME PiInv, held # Pi!Nothing, Pi!Replace(held.path)
  PROVE  /\ files' \in [Pi!Paths -> Pi!Content]
         /\ owed' \subseteq Pi!Paths \X (1..PiEdits)
         /\ \A o \in owed' : \E s \in 1..MaxInstalls : backups[s][o[1]].user = o[2]
<1> DEFINE q == held.path
<1>1. /\ files' = [files EXCEPT ![q] = held.to]
      /\ owed' = IF files[q].user \notin {0, held.to.user}
                 THEN owed \cup {<< q, files[q].user >>} ELSE owed
  BY DEF Pi!Replace
<1>2. q \in todo /\ q \in Pi!Paths /\ held.to \in Pi!Content  BY PiHeld DEF PiInv, PiWork
<1>3. clock \in 1..MaxInstalls  BY <1>2, PiNext
<1>4. files' \in [Pi!Paths -> Pi!Content] /\ files[q] \in Pi!Content
  BY <1>1, <1>2 DEF PiInv, PiTypes
<1>5. owed' \subseteq Pi!Paths \X (1..PiEdits)
  <2>1. files[q].user \in 0..PiEdits  BY <1>4 DEF Pi!Content
  <2>2. files[q].user # 0 => files[q].user \in 1..PiEdits  BY <2>1, Bounds
  <2>3. owed' = owed \/ (owed' = owed \cup {<< q, files[q].user >>} /\ files[q].user # 0)
    BY <1>1
  <2>4. owed \subseteq Pi!Paths \X (1..PiEdits)  BY DEF PiInv, PiTypes
  <2>5. files[q].user # 0 => << q, files[q].user >> \in Pi!Paths \X (1..PiEdits)
    BY <1>2, <2>2
  <2> QED  BY <2>3, <2>4, <2>5
<1>6. ASSUME NEW o \in owed' PROVE \E s \in 1..MaxInstalls : backups[s][o[1]].user = o[2]
  <2>1. CASE o \in owed  BY <2>1 DEF PiInv, PiBackups
  <2>2. CASE o \notin owed
    <3>1. o = << q, files[q].user >> /\ files[q].user # 0  BY <1>1, <1>6, <2>2
    <3>2. backups[clock][q].user = files[q].user  BY <3>1 DEF PiInv, PiBackups
    <3> QED  BY <1>3, <3>1, <3>2
  <2> QED  BY <2>1, <2>2
<1> QED  BY <1>4, <1>5, <1>6

\* The step that writes or deletes does what it has prepared, whether it is noted
\* as one that failed or not.
LEMMA PiReplaces ==
  ASSUME PiInv, held # Pi!Nothing, Pi!Replace(held.path),
         todo' = todo \ {held.path}, held' = Pi!Nothing,
         run' \in PiRun, run'.of = run.of, run'.out = run.out, run'.dirty = run.dirty,
         run'.listed = run.listed, run'.conflicts = run.conflicts,
         run.failed \subseteq run'.failed,
         UNCHANGED <<backups, manifest, release, stage, clock, edits>>
  PROVE  PiInv'
<1> DEFINE q == held.path
<1>1. /\ held # Pi!Nothing /\ files' = [files EXCEPT ![q] = held.to]
      /\ todo' = todo \ {q} /\ held' = Pi!Nothing /\ held'.path = ""
      /\ UNCHANGED <<backups, manifest, release, stage, clock, edits>>
      /\ run' \in PiRun /\ run'.of = run.of /\ run'.out = run.out /\ run'.dirty = run.dirty
      /\ run'.listed = run.listed /\ run'.conflicts = run.conflicts
      /\ run.failed \subseteq run'.failed
  BY PiContents DEF Pi!Replace
<1>2. q \in todo /\ q \in Pi!Paths /\ q # "" /\ held.to \in Pi!Content /\ "" \notin todo
  BY <1>1, PiHeld DEF PiInv, PiWork
<1>3. stage \in PiSteps /\ run.of = release /\ clock \in 1..MaxInstalls /\ release \in Pi!Releases
  BY <1>2, PiNext DEF PiInv, PiTypes
<1>4. /\ files' \in [Pi!Paths -> Pi!Content] /\ files[q] \in Pi!Content
      /\ files'[q] = held.to /\ \A x \in Pi!Paths : x # q => files'[x] = files[x]
  BY <1>1, <1>2 DEF PiInv, PiTypes
<1>5. PiTypes'  BY <1>1, PiReplaced DEF PiInv, PiTypes
<1>6. /\ stage = "cleanups" => q \in Cleanups
      /\ stage = "files" => q \in Pi!Files
      /\ stage = "overlays" => q \in Overlays /\ todo \subseteq Rendered[release]
      /\ stage = "stale" => q \in Overlays /\ q \notin Rendered[release]
  <2>1. Rendered[release] \subseteq Overlays /\ manifest.listed \subseteq Overlays
    BY <1>3, PiApart DEF PiInv, PiTypes, PiManifests
  <2> QED  BY <1>2, <2>1 DEF PiInv, PiWork
<1>7. PiWork'
  <2>1. /\ clock > 0 /\ run.out = "" /\ stage # "planned" /\ stage # "idle"
        /\ stage = "cleanups" => todo' \subseteq Cleanups
        /\ stage = "files" => todo' \subseteq Pi!Files
        /\ stage = "overlays" => todo' \subseteq Rendered[release]
        /\ stage = "stale" => todo' \subseteq manifest.listed \ Rendered[release]
        /\ stage \in {"cleanups", "files"} => run.listed = {} /\ run.conflicts = {}
    BY <1>1, <1>2 DEF PiInv, PiWork
  <2>2. stage \in {"overlays", "stale"} =>
          /\ run.listed \cup run.conflicts \subseteq Rendered[release]
          /\ run.listed \cap run.conflicts = {}
          /\ Rendered[release] \ (todo' \ {""}) \subseteq run.listed \cup run.conflicts
          /\ todo' \cap run.conflicts = {} /\ todo' \cap run.listed \subseteq {""}
    <3> HAVE stage \in {"overlays", "stale"}
    <3>1. /\ run.listed \cup run.conflicts \subseteq Rendered[release]
          /\ run.listed \cap run.conflicts = {}
          /\ Rendered[release] \ (todo \ {q}) \subseteq run.listed \cup run.conflicts
          /\ todo \cap run.conflicts = {} /\ todo \cap run.listed \subseteq {q}
      BY DEF PiInv, PiWork
    <3>2. todo' \ {""} = todo \ {q}  BY <1>1, <1>2
    <3>3. todo' \cap run.conflicts = {} /\ todo' \cap run.listed \subseteq {""}
      BY <1>1, <3>1
    <3> QED  BY <3>1, <3>2, <3>3
  <2> QED  BY <1>1, <1>3, <2>1, <2>2 DEF PiWork
<1>8. Ahead' \subseteq Ahead
  <2>1. todo' \ {held'.path} \subseteq todo \ {held.path}  BY <1>1, <1>2
  <2>2. CASE stage = "cleanups"
    <3>1. /\ Ahead = Pi!Files \cup Overlays \cup (todo \ {held.path})
          /\ Ahead' = Pi!Files \cup Overlays \cup (todo' \ {held'.path})
      BY <1>1, <2>2 DEF Ahead
    <3> QED  BY <2>1, <3>1
  <2>3. CASE stage = "files"
    <3>1. Ahead = Overlays \cup (todo \ {held.path}) /\ Ahead' = Overlays \cup (todo' \ {held'.path})
      BY <1>1, <2>3 DEF Ahead
    <3> QED  BY <2>1, <3>1
  <2>4. CASE stage = "overlays"
    <3>1. /\ Ahead = (Overlays \ Rendered[release]) \cup (todo \ {held.path})
          /\ Ahead' = (Overlays \ Rendered[release]) \cup (todo' \ {held'.path})
      BY <1>1, <2>4 DEF Ahead
    <3> QED  BY <2>1, <3>1
  <2>5. CASE stage = "stale"
    <3>1. Ahead = todo \ {held.path} /\ Ahead' = todo' \ {held'.path}
      BY <1>1, <2>5 DEF Ahead
    <3> QED  BY <2>1, <3>1
  <2> QED  BY <1>3, <2>2, <2>3, <2>4, <2>5 DEF PiSteps
<1>9. PiBackups'
  <2>1. \A o \in owed' : \E s \in 1..MaxInstalls : backups[s][o[1]].user = o[2]
    BY PiReplaced
  <2>2. /\ \A x \in Ahead : backups[clock][x] = Pi!Absent
        /\ \A s \in 1..MaxInstalls : s > clock => \A x \in Pi!Paths : backups[s][x] = Pi!Absent
    BY DEF PiInv, PiBackups
  <2> QED  BY <1>1, <1>8, <2>1, <2>2 DEF PiBackups
<1>10. PiHolds'  BY <1>1 DEF PiHolds
<1>11. ASSUME ~run.dirty PROVE PiProgress'
  <2>1. PiProgress  BY <1>11 DEF PiInv
  <2>2. \A x \in Pi!Paths : x # q => (Installed(x)' <=> Installed(x))  BY <1>1, <1>4 DEF Installed
  <2>3. Pi!Files \subseteq Pi!Paths /\ Overlays \subseteq Pi!Paths /\ Cleanups \subseteq Pi!Paths
        /\ Pi!Files \cap Overlays = {} /\ Pi!Files \cap Cleanups = {} /\ Overlays \cap Cleanups = {}
    BY PiApart
  <2>4. stage \in {"files", "overlays"} =>
          files'[q] = [user |-> IF q \in Settings THEN files'[q].user ELSE 0, lore |-> run'.of]
    <3> HAVE stage \in {"files", "overlays"}
    <3>1. files'[q] = [user |-> IF q \in Settings THEN files[q].user ELSE 0, lore |-> release]
      BY <1>1, <1>4 DEF PiInv, PiHolds, Pi!Desired
    <3>2. q \in Settings => files'[q].user = files[q].user  BY <3>1
    <3> QED  BY <1>1, <1>3, <3>1, <3>2
  <2>5. stage = "cleanups" => files'[q] = Pi!Absent  BY <1>1, <1>4 DEF PiInv, PiHolds
  <2>6. CleanedUp'
    <3>1. CleanedUp  BY <1>3, <2>1 DEF PiProgress
    <3>2. q \in Cleanups => files'[q] = Pi!Absent  BY <1>3, <1>6, <2>3, <2>5 DEF PiSteps
    <3> QED  BY <1>1, <1>4, <2>3, <3>1, <3>2 DEF CleanedUp
  <2>7. stage \in {"files", "overlays", "stale"} => FilesDone'
    <3> HAVE stage \in {"files", "overlays", "stale"}
    <3>1. FilesDone  BY <2>1 DEF PiProgress
    <3>2. \A x \in Pi!Files : x = q => Installed(x)'  BY <1>6, <2>3, <2>4 DEF Installed
    <3>3. ASSUME NEW x \in Pi!Files \ todo' PROVE Installed(x)' \/ x \in run'.failed
      <4>1. CASE x = q  BY <3>2, <4>1
      <4>2. CASE x # q
        <5>1. Installed(x) \/ x \in run.failed  BY <1>1, <3>1, <4>2 DEF FilesDone
        <5> QED  BY <1>1, <2>2, <2>3, <4>2, <5>1
      <4> QED  BY <4>1, <4>2
    <3> QED  BY <1>1, <3>3 DEF FilesDone
  <2>8. stage \in {"overlays", "stale"} =>
          OverlaysDone' /\ \A x \in run.conflicts : x \notin manifest.listed
    <3> HAVE stage \in {"overlays", "stale"}
    <3>1. OverlaysDone /\ \A x \in run.conflicts : x \notin manifest.listed
      BY <2>1 DEF PiProgress
    <3>2. /\ run.listed \cup run.conflicts \subseteq Rendered[release]
          /\ todo \cap run.conflicts = {}
      BY DEF PiInv, PiWork
    <3>3. run.listed \subseteq Pi!Paths /\ run.conflicts \subseteq Pi!Paths
      BY <2>3 DEF PiInv, PiTypes, PiRun
    <3>4. q \notin run.conflicts /\ \A x \in run.listed : x = q => Installed(x)'
      BY <1>2, <1>6, <2>4, <3>2 DEF Installed
    <3>5. ASSUME NEW x \in run.listed \ todo' PROVE Installed(x)'
      <4>1. CASE x = q  BY <3>4, <4>1
      <4>2. CASE x # q
        <5>1. Installed(x)  BY <1>1, <3>1, <4>2 DEF OverlaysDone
        <5> QED  BY <2>2, <3>3, <4>2, <5>1
      <4> QED  BY <4>1, <4>2
    <3>6. \A x \in run.conflicts : files'[x] # Pi!Absent
      BY <1>4, <3>1, <3>3, <3>4 DEF OverlaysDone
    <3> QED  BY <1>1, <3>1, <3>5, <3>6 DEF OverlaysDone
  <2> QED  BY <1>1, <2>6, <2>7, <2>8 DEF PiProgress
<1> QED  BY <1>1, <1>3, <1>5, <1>7, <1>9, <1>10, <1>11 DEF PiInv, PiSteps

\* One that succeeds.
LEMMA PiPuts == ASSUME PiInv, Pi!Put  PROVE PiInv'
<1>1. run \in PiRun  BY DEF PiInv, PiTypes
<1> QED  BY <1>1, PiReplaces DEF Pi!Put

\* A step that fails after its effect.
LEMMA PiFailsLate == ASSUME PiInv, Pi!FailLate  PROVE PiInv'
<1>1. UNCHANGED <<backups, release, clock, edits>> /\ Pi!Missed
  BY DEF Pi!FailLate, Pi!Missed
<1>2. CASE held # Pi!Nothing
  <2>1. Pi!Replace(held.path) /\ UNCHANGED manifest  BY <1>2 DEF Pi!FailLate
  <2>2. CASE Pi!Finish("error")
    <3>1. manifest' \in PiManifests /\ (manifest'.state # "read" => manifest'.listed = {})
      BY <2>1 DEF PiInv, PiTypes
    <3>2. "error" \in PiOuts \ {"ok"}  BY DEF PiOuts
    <3> QED  BY <1>1, <1>2, <2>1, <2>2, <3>1, <3>2, PiReplaced, PiEnds
  <2>3. CASE ~Pi!Finish("error")
    <3>1. held.path = Pi!Upcoming  BY <1>2 DEF PiInv, PiWork
    <3> QED  BY <1>1, <1>2, <2>1, <2>3, <3>1, PiNotes, PiReplaces
  <2> QED  BY <2>2, <2>3
<1>3. CASE held = Pi!Nothing
  <2>1. /\ stage = "stale" /\ UNCHANGED <<files, owed>>
        /\ manifest' = Pi!Listing(run.listed)
    BY <1>3 DEF Pi!FailLate
  <2>2. manifest' \in PiManifests /\ manifest'.state = "read"  BY <2>1, PiListing DEF PiInv
  <2>3. Pi!Finish("error") /\ "error" \in PiOuts \ {"ok"}  BY <1>1, <2>1 DEF Pi!Missed, PiOuts
  <2>4. /\ files' \in [Pi!Paths -> Pi!Content] /\ owed' \subseteq Pi!Paths \X (1..PiEdits)
        /\ \A o \in owed' : \E s \in 1..MaxInstalls : backups[s][o[1]].user = o[2]
    BY <2>1 DEF PiInv, PiTypes, PiBackups
  <2> QED  BY <1>1, <2>2, <2>3, <2>4, PiEnds
<1> QED  BY <1>2, <1>3

\* The manifest comes last, when the three kinds of files are done.
LEMMA PiManifest == ASSUME PiInv, Pi!WriteManifest  PROVE PiInv'
<1>1. /\ stage = "stale" /\ todo = {} /\ held = Pi!Nothing /\ held.path = ""
      /\ manifest' = Pi!Listing(run.listed)
      /\ UNCHANGED <<files, backups, release, clock, edits, owed>>
  BY PiContents DEF Pi!WriteManifest
<1>2. PICK out \in {"error", "mismatch", "ok"} : Pi!Finish(out) /\ (out = "ok" => run.failed = {})
  BY DEF Pi!WriteManifest
<1>3. /\ stage' = "idle" /\ todo' = {} /\ held' = Pi!Nothing
      /\ run' \in PiRun /\ run'.out = out /\ run'.listed = run.listed /\ run'.of = run.of
      /\ run'.conflicts = run.conflicts /\ run'.failed = run.failed /\ run'.dirty = run.dirty
  BY <1>2 DEF Pi!Finish, PiInv, PiTypes, PiRun, PiOuts
<1>4. manifest' \in PiManifests /\ manifest'.state = "read" /\ manifest'.listed = run.listed
  BY <1>1, PiListing DEF PiInv
<1>5. PiTypes'  BY <1>1, <1>3, <1>4 DEF PiInv, PiTypes
<1>6. PiWork'  BY <1>3 DEF PiWork
<1>7. Ahead' = {}  BY <1>3 DEF Ahead
<1>8. PiBackups'  BY <1>1, <1>3, <1>7 DEF PiInv, PiBackups
<1>9. PiHolds'  BY <1>3 DEF PiHolds
<1>10. PiProgress'  BY <1>3 DEF PiProgress, PiSteps
<1>11. ASSUME ~run'.dirty, out = "ok"
       PROVE  /\ CleanedUp' /\ FilesDone' /\ OverlaysDone' /\ run'.failed = {}
              /\ manifest'.listed = run'.listed
              /\ run'.listed = Rendered[run'.of] \ run'.conflicts
              /\ run'.conflicts \subseteq Rendered[run'.of]
  <2>1. CleanedUp /\ FilesDone /\ OverlaysDone
    BY <1>1, <1>3, <1>11 DEF PiInv, PiProgress, PiSteps
  <2>2. \A x : Installed(x)' <=> Installed(x)  BY <1>1, <1>3 DEF Installed
  <2>3. CleanedUp'  BY <1>1, <1>3, <2>1 DEF CleanedUp
  <2>4. FilesDone'  BY <1>1, <1>3, <2>1, <2>2 DEF FilesDone
  <2>5. OverlaysDone'  BY <1>1, <1>3, <2>1, <2>2 DEF OverlaysDone
  <2>6. /\ run.of = release /\ run.listed \cup run.conflicts \subseteq Rendered[release]
        /\ run.listed \cap run.conflicts = {}
        /\ Rendered[release] \ (todo \ {""}) \subseteq run.listed \cup run.conflicts
    BY <1>1 DEF PiInv, PiWork
  <2>7. run.listed = Rendered[release] \ run.conflicts  BY <1>1, <2>6
  <2> QED  BY <1>1, <1>2, <1>3, <1>4, <1>11, <2>3, <2>4, <2>5, <2>6, <2>7
<1> QED  BY <1>3, <1>5, <1>6, <1>8, <1>9, <1>10, <1>11 DEF PiInv

\* The user does not touch what a step is about to write, and dirties the install.
LEMMA PiEdited ==
  ASSUME PiInv, NEW q \in Pi!Paths,
         NEW c \in {Pi!Absent, [user |-> edits + 1, lore |-> 0]}, Pi!Edit(q, c)
  PROVE  PiInv'
<1>1. /\ edits < PiEdits /\ held.path # q /\ edits' = edits + 1
      /\ files' = [files EXCEPT ![q] = c]
      /\ UNCHANGED <<backups, manifest, release, stage, todo, held, clock, owed>>
  BY DEF Pi!Edit
<1>2. edits' \in 0..PiEdits /\ edits + 1 \in 0..PiEdits
  BY <1>1, PiClock, Bounds DEF PiInv
<1>3. c \in Pi!Content
  <2>1. [user |-> edits + 1, lore |-> 0] \in Pi!Content  BY <1>2 DEF Pi!Content
  <2> QED  BY <2>1, PiContents
<1>4. PICK seen \in BOOLEAN : run' = [run EXCEPT !.moved = @ \/ seen, !.dirty = TRUE]
  BY DEF Pi!Edit
<1>5. /\ run' \in PiRun /\ run'.dirty /\ run'.of = run.of /\ run'.out = run.out
      /\ run'.listed = run.listed /\ run'.conflicts = run.conflicts
  BY <1>4 DEF PiInv, PiTypes, PiRun
<1>6. /\ files' \in [Pi!Paths -> Pi!Content]
      /\ \A x \in Pi!Paths : x # q => files'[x] = files[x]
  BY <1>1, <1>3 DEF PiInv, PiTypes
<1>7. PiTypes'  BY <1>1, <1>2, <1>5, <1>6 DEF PiInv, PiTypes
<1>8. PiWork'  BY <1>1, <1>5 DEF PiInv, PiWork, Pi!Upcoming
<1>9. Ahead' = Ahead  BY <1>1 DEF Ahead
<1>10. held # Pi!Nothing => files'[held.path] = files[held.path]
  BY <1>1, <1>6, PiHeld DEF PiInv
<1>11. PiBackups'  BY <1>1, <1>9, <1>10 DEF PiInv, PiBackups
<1>12. PiHolds'  BY <1>1, <1>10 DEF PiInv, PiHolds, Pi!Desired
<1> QED  BY <1>5, <1>7, <1>8, <1>11, <1>12 DEF PiInv

\* The user takes the manifest away or spoils it before anything is written.
LEMMA PiDamages == ASSUME PiInv, Pi!Damage  PROVE PiInv'
<1>1. /\ edits < PiEdits /\ edits' = edits + 1 /\ stage \in {"idle", "planned"}
      /\ UNCHANGED <<files, backups, release, stage, todo, held, clock, owed>>
  BY DEF Pi!Damage
<1>2. edits' \in 0..PiEdits  BY <1>1, PiClock, Bounds DEF PiInv
<1>3. PICK t \in {"none", "broken"} : manifest' = [state |-> t, listed |-> {}]
  BY DEF Pi!Damage
<1>4. manifest' \in PiManifests /\ manifest'.listed = {}  BY <1>3 DEF PiManifests
<1>5. PICK seen \in BOOLEAN : run' = [run EXCEPT !.moved = @ \/ seen, !.dirty = TRUE]
  BY DEF Pi!Damage
<1>6. /\ run' \in PiRun /\ run'.dirty /\ run'.of = run.of /\ run'.out = run.out
      /\ run'.listed = run.listed /\ run'.conflicts = run.conflicts
  BY <1>5 DEF PiInv, PiTypes, PiRun
<1>7. PiTypes'  BY <1>1, <1>2, <1>4, <1>6 DEF PiInv, PiTypes
<1>8. held = Pi!Nothing /\ todo = {}  BY <1>1 DEF PiInv, PiWork
<1>9. PiWork'  BY <1>1, <1>6, <1>8 DEF PiInv, PiWork
<1>10. Ahead' = Ahead  BY <1>1 DEF Ahead
<1>11. PiBackups'  BY <1>1, <1>8, <1>10 DEF PiInv, PiBackups
<1>12. PiHolds'  BY <1>1, <1>8 DEF PiHolds
<1> QED  BY <1>6, <1>7, <1>9, <1>11, <1>12 DEF PiInv

\* A new binary finds no install under way.
LEMMA PiUpgrades == ASSUME PiInv, Pi!Upgrade  PROVE PiInv'
<1>1. /\ stage = "idle" /\ release' \in Pi!Releases
      /\ UNCHANGED <<files, backups, manifest, stage, todo, held, run, clock, edits, owed>>
  BY DEF Pi!Upgrade
<1>2. PiTypes'  BY <1>1 DEF PiInv, PiTypes
<1>3. held = Pi!Nothing /\ todo = {}  BY <1>1 DEF PiInv, PiWork
<1>4. PiWork'  BY <1>1, <1>3 DEF PiWork
<1>5. Ahead' = {}  BY <1>1 DEF Ahead
<1>6. PiBackups'  BY <1>1, <1>3, <1>5 DEF PiInv, PiBackups
<1>7. PiHolds'  BY <1>1, <1>3 DEF PiHolds
<1>8. PiProgress'  BY <1>1 DEF PiProgress, PiSteps
<1>9. \A x : Installed(x)' <=> Installed(x)  BY <1>1 DEF Installed
<1>10. ASSUME CleanedUp, FilesDone, OverlaysDone PROVE CleanedUp' /\ FilesDone' /\ OverlaysDone'
  BY <1>1, <1>9, <1>10 DEF CleanedUp, FilesDone, OverlaysDone
<1> QED  BY <1>1, <1>2, <1>4, <1>6, <1>7, <1>8, <1>10 DEF PiInv

\* Before the first install there are at most leftovers of old releases.
LEMMA PiStarts == Pi!Init => PiInv
<1> SUFFICES ASSUME Pi!Init PROVE PiInv  OBVIOUS
<1>1. files \in [Pi!Paths -> {Pi!Absent, [user |-> 0, lore |-> 1]}]  BY DEF Pi!Init
<1>2. [user |-> 0, lore |-> 1] \in Pi!Content
  <2>1. 0 \in 0..PiEdits  BY Bounds
  <2> QED  BY <2>1, PiApart DEF Pi!Content
<1>3. files \in [Pi!Paths -> Pi!Content]  BY <1>1, <1>2, PiContents
<1>4. backups = [s \in 1..MaxInstalls |-> [q \in Pi!Paths |-> Pi!Absent]]  BY DEF Pi!Init
<1>5. Pi!NoActions \in [Pi!Paths -> PiActions]  BY DEF Pi!NoActions, PiActions
<1>6. run \in PiRun /\ run.out = "" /\ run.listed = {} /\ run.conflicts = {}
  BY <1>5, PiApart DEF Pi!Init, Pi!NoRun, PiRun, PiOuts
<1>7. /\ manifest = Pi!NoManifest /\ release = 1 /\ stage = "idle" /\ todo = {}
      /\ held = Pi!Nothing /\ clock = 0 /\ edits = 0 /\ owed = {}
  BY DEF Pi!Init
<1>8. 0 \in 0..MaxInstalls /\ 0 \in 0..PiEdits  BY Bounds
<1>9. manifest \in PiManifests /\ manifest.listed = {}  BY <1>7 DEF Pi!NoManifest, PiManifests
<1>10. backups \in [1..MaxInstalls -> [Pi!Paths -> Pi!Content]]  BY <1>4, PiContents
<1>11. PiTypes  BY <1>3, <1>6, <1>7, <1>8, <1>9, <1>10, PiApart DEF PiTypes
<1>12. PiWork  BY <1>7 DEF PiWork
<1>13. Ahead = {}  BY <1>7 DEF Ahead
<1>14. PiBackups  BY <1>4, <1>7, <1>13 DEF PiBackups
<1>15. PiHolds  BY <1>7 DEF PiHolds
<1>16. PiProgress  BY <1>7 DEF PiProgress, PiSteps
<1> QED  BY <1>6, <1>11, <1>12, <1>14, <1>15, <1>16 DEF PiInv

\* Every step of this installer.
LEMMA PiStep == ASSUME PiInv, Pi!Next  PROVE PiInv'
<1>1. CASE Pi!Die
  <2>1. Pi!Finish("died") /\ UNCHANGED <<files, backups, manifest, release, clock, edits, owed>>
    BY <1>1 DEF Pi!Die
  <2> QED  BY <2>1, PiStops DEF PiOuts
<1>2. CASE Pi!Write \/ Pi!Remove
  BY <1>2, PiEdited DEF Pi!Write, Pi!Remove
<1> QED
  BY <1>1, <1>2, PiPlans, PiBegins, PiNextStages, PiLooksRendered, PiLooksDelete, PiPuts,
    PiManifest, PiFails, PiFailsLate, PiDamages, PiUpgrades DEF Pi!Next, Pi!Steps

\* Only Put and the user change a file, only WriteManifest the manifest, and what a
\* plan of a release finds after one that said ok is in place.
LEMMA PiOwns ==
  ASSUME PiInv, Pi!Next
  PROVE  Pi!UserOverlaysKept /\ Pi!OwnsWhatItLists /\ Pi!RerunIsQuiet
<1>1. Pi!UserOverlaysKept
  <2>1. CASE held # Pi!Nothing /\ Pi!Replace(held.path)
    <3>1. held # Pi!Nothing /\ files' = [files EXCEPT ![held.path] = held.to]
      BY <2>1 DEF Pi!Replace
    <3>2. ASSUME NEW q \in Overlays, files[q].user # 0, q \notin manifest.listed
          PROVE  files'[q] = files[q]
      <4>1. held.path # q  BY <3>1, <3>2, PiContents DEF PiInv, PiHolds
      <4>2. q \in Pi!Paths  BY PiApart
      <4> QED  BY <3>1, <4>1, <4>2 DEF PiInv, PiTypes
    <3> QED  BY <3>2 DEF Pi!UserOverlaysKept
  <2>2. CASE Pi!Write \/ Pi!Remove \/ Pi!Damage
    <3>1. edits' = edits + 1  BY <2>2 DEF Pi!Write, Pi!Remove, Pi!Edit, Pi!Damage
    <3>2. edits' # edits  BY <3>1, PiClock DEF PiInv
    <3> QED  BY <3>2 DEF Pi!UserOverlaysKept
  <2>3. CASE /\ ~(held # Pi!Nothing /\ Pi!Replace(held.path))
             /\ ~Pi!Write /\ ~Pi!Remove /\ ~Pi!Damage
    <3>1. files' = files
      BY <2>3 DEF Pi!Next, Pi!Steps, Pi!Plan, Pi!Begin, Pi!NextStage, Pi!LookRendered,
        Pi!LookDelete, Pi!Put, Pi!WriteManifest, Pi!Fail, Pi!FailLate, Pi!Die, Pi!Upgrade
    <3> QED  BY <3>1 DEF Pi!UserOverlaysKept
  <2> QED  BY <2>1, <2>2, <2>3
<1>2. Pi!OwnsWhatItLists
  <2>1. CASE /\ stage = "stale" /\ todo = {} /\ manifest' = Pi!Listing(run.listed)
             /\ UNCHANGED files
    <3>1. stage = "stale" /\ todo = {} /\ manifest'.listed = run.listed
      BY <2>1 DEF Pi!Listing
    <3>2. ASSUME NEW q \in run.listed, ~run.dirty PROVE files[q].user = 0
      <4>1. Installed(q)
        BY <3>1, <3>2 DEF PiInv, PiProgress, OverlaysDone
      <4>2. q \notin Settings  BY PiApart DEF PiInv, PiTypes, PiRun
      <4> QED  BY <4>1, <4>2 DEF Installed
    <3> QED  BY <3>1, <3>2 DEF Pi!OwnsWhatItLists
  <2>2. CASE Pi!Damage
    <3>1. manifest'.listed = {}  BY <2>2 DEF Pi!Damage
    <3> QED  BY <3>1 DEF Pi!OwnsWhatItLists
  <2>3. CASE /\ ~(/\ stage = "stale" /\ todo = {} /\ manifest' = Pi!Listing(run.listed)
                 /\ UNCHANGED files)
             /\ ~Pi!Damage
    <3>1. manifest' = manifest
      BY <2>3 DEF Pi!Next, Pi!Steps, Pi!Plan, Pi!Begin, Pi!NextStage, Pi!LookRendered,
        Pi!LookDelete, Pi!Put, Pi!WriteManifest, Pi!Fail, Pi!FailLate, Pi!Die, Pi!Write,
        Pi!Remove, Pi!Edit, Pi!Upgrade
    <3> QED  BY <3>1 DEF Pi!OwnsWhatItLists
  <2> QED  BY <2>1, <2>2, <2>3
<1>3. Pi!RerunIsQuiet
  <2> SUFFICES ASSUME stage = "idle", stage' = "planned", run.out = "ok", ~run.dirty,
                      run.of = release, NEW q \in Pi!Paths
               PROVE  run'.planned[q] \in {"none", "unchanged"}
    BY DEF Pi!RerunIsQuiet
  <2>1. Pi!Plan
    <3>1. Pi!Next  OBVIOUS
    <3>2. ~Pi!Begin /\ ~Pi!LookRendered /\ ~Pi!LookDelete /\ ~Pi!WriteManifest
          /\ ~Pi!Fail /\ ~Pi!FailLate /\ ~Pi!Die /\ ~Pi!NextStage
      BY DEF Pi!Begin, Pi!LookRendered, Pi!LookDelete, Pi!WriteManifest, Pi!Fail, Pi!FailLate,
        Pi!Missed, Pi!Die, Pi!NextStage, Pi!Finish, Pi!Stages
    <3>3. ~Pi!Put /\ ~Pi!Write /\ ~Pi!Remove /\ ~Pi!Damage /\ ~Pi!Upgrade
      BY DEF Pi!Put, Pi!Write, Pi!Remove, Pi!Edit, Pi!Damage, Pi!Upgrade
    <3> QED  BY <3>1, <3>2, <3>3 DEF Pi!Next, Pi!Steps
  <2>2. run'.planned = Pi!PlanOf(release)  BY <2>1 DEF Pi!Plan, Pi!NoRun
  <2>3. /\ CleanedUp /\ FilesDone /\ OverlaysDone /\ run.failed = {} /\ todo = {}
        /\ manifest.listed = Rendered[release] \ run.conflicts
        /\ manifest.listed = run.listed
    BY DEF PiInv, PiWork
  <2>4. ASSUME Installed(q) PROVE Pi!ActionFor(q, release) = "unchanged"
    BY <2>4 DEF Installed, Pi!ActionFor, Pi!Desired
  <2>5. CASE q \in Cleanups
    BY <2>2, <2>3, <2>5 DEF Pi!PlanOf, CleanedUp
  <2>6. CASE q \in Pi!Files /\ q \notin Cleanups
    BY <2>2, <2>3, <2>4, <2>6 DEF Pi!PlanOf, FilesDone
  <2>7. CASE q \notin Pi!Files /\ q \notin Cleanups
    <3>1. CASE q \in Rendered[release]
      <4>1. q \in run.conflicts \/ q \in manifest.listed  BY <2>3, <3>1
      <4>2. q \in manifest.listed => Installed(q)  BY <2>3 DEF OverlaysDone
      <4>3. (q \in run.conflicts /\ q \notin manifest.listed) => Pi!Collides(q, manifest.listed)
        BY <2>3 DEF OverlaysDone, Pi!Collides
      <4> QED  BY <2>2, <2>4, <2>7, <3>1, <4>1, <4>2, <4>3 DEF Pi!PlanOf, Pi!Collides
    <3>2. CASE q \notin Rendered[release]
      BY <2>2, <2>3, <2>7, <3>2 DEF Pi!PlanOf
    <3> QED  BY <3>1, <3>2
  <2> QED  BY <2>5, <2>6, <2>7
<1> QED  BY <1>1, <1>2, <1>3

\* What the invariant says of the properties.
LEMMA PiPromises ==
  ASSUME PiInv
  PROVE  Pi!TypeOK /\ Pi!NothingLost /\ Pi!OkIsInstalled
<1>1. Pi!TypeOK  BY DEF PiInv, PiTypes, PiWork, PiManifests, Pi!TypeOK
<1>2. Pi!NothingLost  BY DEF PiInv, PiBackups, Pi!NothingLost
<1>3. Pi!OkIsInstalled
  <2> SUFFICES ASSUME stage = "idle", run.out = "ok", ~run.dirty
               PROVE  /\ \A q \in Pi!Files : files[q].lore = run.of
                      /\ \A q \in Rendered[run.of] \ run.conflicts : files[q].lore = run.of
                      /\ manifest.listed = Rendered[run.of] \ run.conflicts
                      /\ \A q \in Cleanups : files[q] = Pi!Absent
    BY DEF Pi!OkIsInstalled
  <2>1. /\ CleanedUp /\ FilesDone /\ OverlaysDone /\ run.failed = {} /\ todo = {}
        /\ manifest.listed = run.listed /\ run.listed = Rendered[run.of] \ run.conflicts
    BY DEF PiInv, PiWork
  <2>2. \A q : Installed(q) => files[q].lore = run.of  BY DEF Installed
  <2> QED  BY <2>1, <2>2 DEF CleanedUp, FilesDone, OverlaysDone
<1> QED  BY <1>1, <1>2, <1>3

\* What the invariant of the three says of the properties.
LEMMA PlannedPromises ==
  ASSUME PlannedInv
  PROVE  Planned!TypeOK /\ Planned!NothingLost /\ Planned!OkIsInstalled
<1>1. Planned!TypeOK
  <2>1. /\ run["a"].todo \subseteq Planned!Paths
        /\ run["a"].held = "" \/ run["a"].held \in run["a"].todo
        /\ run["a"].stage \in {"idle", "planned"} => run["a"].todo = {}
    BY DEF PlannedInv, PlannedTypes, PlannedWork, PlannedRun
  <2> QED  BY <2>1 DEF PlannedInv, PlannedTypes, Planned!TypeOK
<1>2. Planned!NothingLost  BY DEF PlannedInv, PlannedBackups, Planned!NothingLost
<1> QED  BY <1>1, <1>2 DEF PlannedInv

-----------------------------------------------------------------------------
(* The steps of the merge *)

\* The bound on the edits.
LEMMA EditBound ==
  0 \in 0..DocEdits /\ (\A n \in 0..DocEdits : n < DocEdits => n + 1 \in 0..DocEdits)
BY Bounds

\* A block as the merge leaves it: a block again, with its server and its token
\* or with those of the login, and merged again it stays.
LEMMA MergedTwice ==
  ASSUME NEW b \in {Document!NoBlock} \cup Document!Block, hosted \in BOOLEAN,
         saved \in [server : Servers, token : Tokens]
  PROVE  /\ Document!RenderedBlock \in Document!Block
         /\ Document!MergedBlock(b) \in {Document!NoBlock} \cup Document!Block
         /\ Document!MergedBlock(Document!MergedBlock(b)) = Document!MergedBlock(b)
         /\ (b.shape = "remote" => b.of = b.server) =>
              (Document!MergedBlock(b).shape = "remote" => Document!MergedBlock(b).of = Document!MergedBlock(b).server)
<1>1. Document!RenderedBlock \in Document!Block /\ Document!RenderedBlock.shape = "remote"
      /\ Document!RenderedBlock.mark = "none" /\ Document!RenderedBlock.server = saved.server
      /\ Document!RenderedBlock.of = saved.server
  BY DEF Document!RenderedBlock, Document!Block
<1>2. CASE b = Document!NoBlock
  <2>1. b.shape = "none" /\ Document!Unmarked(b) = b
    BY <1>2 DEF Document!NoBlock, Document!Unmarked
  <2>2. Document!MergedBlock(b) = IF hosted THEN Document!RenderedBlock ELSE b
    BY <2>1 DEF Document!MergedBlock
  <2>3. Document!Unmarked(Document!RenderedBlock) = Document!RenderedBlock
    BY <1>1 DEF Document!Unmarked, Document!Block
  <2>4. Document!MergedBlock(Document!RenderedBlock) = Document!RenderedBlock
    BY <1>1, <2>3 DEF Document!MergedBlock, Document!Native
  <2> QED  BY <1>1, <1>2, <2>1, <2>2, <2>4
<1>3. CASE b \in Document!Block /\ b # Document!NoBlock
  <2> DEFINE u == Document!Unmarked(b)
  <2>1. CASE b.shape = "none"
    BY <1>3, <2>1 DEF Document!Block
  <2>2. CASE b.shape # "none"
    <3>1. u \in Document!Block /\ u.shape = b.shape /\ u.mark = "none" /\ u.server = b.server
          /\ u.of = b.of /\ u.token = b.token
      BY <1>3, <2>2 DEF Document!Unmarked, Document!Block
    <3>2. Document!Unmarked(u) = u
      BY <2>2, <3>1 DEF Document!Unmarked, Document!Block
    <3>3. Document!Unmarked(Document!RenderedBlock) = Document!RenderedBlock
      BY <1>1 DEF Document!Unmarked, Document!Block
    <3>4. Document!Native(Document!RenderedBlock)  BY <1>1 DEF Document!Native
    <3>5. Document!MergedBlock(Document!RenderedBlock) = Document!RenderedBlock
      BY <1>1, <3>3, <3>4 DEF Document!MergedBlock
    <3>6. Document!MergedBlock(b) = IF hosted /\ ~Document!Native(u) THEN Document!RenderedBlock ELSE u
      BY <2>2 DEF Document!MergedBlock
    <3>7. ~(hosted /\ ~Document!Native(u)) => Document!MergedBlock(u) = u
      BY <2>2, <3>1, <3>2 DEF Document!MergedBlock
    <3> HIDE DEF u
    <3> QED  BY <1>1, <3>1, <3>5, <3>6, <3>7
  <2> QED  BY <2>1, <2>2
<1> QED  BY <1>2, <1>3

\* What is rendered into a document is a document, without the old shapes.
LEMMA DesiredShape ==
  ASSUME DocumentInv
  PROVE  /\ Document!Desired \in Document!Files /\ Document!Desired.exists
         /\ ~Document!Desired.stale /\ Document!Desired.path = "none"
         /\ Document!Desired.model \notin {"none", "bare"}
         /\ LET b == Document!Desired.block IN b.shape = "remote" => b.of = b.server
<1> DEFINE d == Document!Desired
<1>1. file \in Document!Files /\ hosted \in BOOLEAN /\ saved \in [server : Servers, token : Tokens]
      /\ cfg \in {"none", "configured"}
  BY DEF DocumentInv, Document!TypeOK
<1>2. file.block \in {Document!NoBlock} \cup Document!Block  BY <1>1 DEF Document!Files
<1>3. Document!NoBlock.shape = "none"  BY DEF Document!NoBlock
<1>4. Document!RenderedBlock.of = Document!RenderedBlock.server  BY DEF Document!RenderedBlock
<1>5. d.block = IF file.exists THEN Document!MergedBlock(file.block)
                ELSE IF hosted THEN Document!RenderedBlock ELSE Document!NoBlock
  BY DEF Document!Desired
<1>6. d.block \in {Document!NoBlock} \cup Document!Block
      /\ (d.block.shape = "remote" => d.block.of = d.block.server)
  <2>1. file.block.shape = "remote" => file.block.of = file.block.server
    BY DEF DocumentInv, Document!TokenStaysHome
  <2> QED  BY <1>1, <1>2, <1>3, <1>4, <1>5, <2>1, MergedTwice
<1>7. Document!Model \in Document!Models \ {"none", "bare"}
  BY <1>1 DEF Document!Model, Document!Configured, Document!Models, Document!Files
<1>8. Document!Plugin \subseteq Document!Plugins
  BY <1>1 DEF Document!Plugin, Document!Files, Document!Lists, Document!NoList, Document!Plugins
<1>9. Document!PluginsLeft \in Document!Lists
  BY <1>1 DEF Document!PluginsLeft, Document!Files, Document!Lists
<1>10. Document!OldPaths \cup {"lore"} \subseteq {"lore", "own"}
  BY <1>1 DEF Document!OldPaths, Document!Files
<1>11. (IF hosted THEN "ours" ELSE file.context7) \in {"none", "ours", "disabled", "foreign"}
  BY <1>1 DEF Document!Files
<1> HIDE DEF d
<1> QED
  BY <1>5, <1>6, <1>7, <1>8, <1>9, <1>10, <1>11 DEF d, Document!Desired, Document!Files

\* What a successful install has written would be written again.
LEMMA DesiredSettles ==
  ASSUME DocumentInv, Document!StartupSafe(Document!Desired), file' = Document!Desired,
         UNCHANGED <<saved, cfg, hosted>>
  PROVE  Document!Desired' = file'
<1>1. file \in Document!Files /\ hosted \in BOOLEAN /\ saved \in [server : Servers, token : Tokens]
      /\ cfg \in {"none", "configured"}
  BY DEF DocumentInv, Document!TypeOK
<1>2. /\ file'.exists
      /\ file'.block = IF file.exists THEN Document!MergedBlock(file.block)
                       ELSE IF hosted THEN Document!RenderedBlock ELSE Document!NoBlock
      /\ file'.context7 = IF hosted THEN "ours" ELSE file.context7
      /\ file'.model = Document!Model /\ file'.plugin = Document!Plugin
      /\ file'.plugins = Document!PluginsLeft /\ file'.hasPaths
      /\ file'.paths = Document!OldPaths \cup {"lore"}
      /\ file' \in Document!Files /\ ~file'.stale /\ file'.path = "none"
  BY DesiredShape DEF Document!Desired
<1>3. ASSUME NEW b PROVE Document!MergedBlock(b)' = Document!MergedBlock(b)
  BY DEF Document!MergedBlock, Document!Native, Document!RenderedBlock
<1>4. Document!MergedBlock(file'.block) = file'.block
  <2>1. file.block \in {Document!NoBlock} \cup Document!Block  BY <1>1 DEF Document!Files
  <2>2. Document!NoBlock.shape = "none"  BY DEF Document!NoBlock
  <2>3. Document!RenderedBlock.shape = "remote" /\ Document!RenderedBlock.mark = "none"
        /\ Document!RenderedBlock.server = saved.server
    BY DEF Document!RenderedBlock
  <2>4. Document!Unmarked(Document!RenderedBlock) = Document!RenderedBlock
    BY DEF Document!Unmarked, Document!RenderedBlock
  <2>5. Document!MergedBlock(Document!RenderedBlock) = Document!RenderedBlock
    BY <2>3, <2>4 DEF Document!MergedBlock, Document!Native
  <2>6. ~hosted => Document!MergedBlock(Document!NoBlock) = Document!NoBlock
    BY <2>2 DEF Document!MergedBlock, Document!Unmarked
  <2> QED  BY <1>1, <1>2, <2>1, <2>5, <2>6, MergedTwice
<1>5. Document!Desired'.block = file'.block
  <2>1. Document!Desired'.block = Document!MergedBlock(file.block)'
    BY <1>2 DEF Document!Desired
  <2> QED  BY <1>3, <1>4, <2>1 DEF Document!MergedBlock, Document!Native, Document!RenderedBlock
<1>6. Document!Model' = file'.model
  BY <1>2, DesiredShape DEF Document!Model, Document!Desired
<1>7. file'.plugins = Document!NoList  BY <1>2 DEF Document!StartupSafe, Document!Desired
<1>8. Document!Plugin' = file'.plugin /\ Document!PluginsLeft' = file'.plugins
  <2>1. "legacy" \notin file'.plugin  BY <1>2 DEF Document!Plugin
  <2>2. ~Document!Changed(file'.plugins)  BY <1>7 DEF Document!Changed, Document!NoList
  <2>3. ~Document!Changed(file.plugins)'  BY <2>2 DEF Document!Changed
  <2> QED  BY <2>1, <2>3 DEF Document!Plugin, Document!PluginsLeft
<1>9. Document!OldPaths' \cup {"lore"} = file'.paths
  BY <1>2 DEF Document!OldPaths
<1>10. (IF hosted' THEN "ours" ELSE file'.context7) = file'.context7
  BY <1>2
<1>11. Document!Desired' =
         [exists |-> TRUE, block |-> Document!Desired'.block,
          context7 |-> IF hosted' THEN "ours" ELSE file'.context7,
          model |-> Document!Model', plugin |-> Document!Plugin', plugins |-> Document!PluginsLeft',
          stale |-> FALSE, path |-> "none", hasPaths |-> TRUE,
          paths |-> Document!OldPaths' \cup {"lore"}]
  BY DEF Document!Desired
<1>12. file' = [exists |-> file'.exists, block |-> file'.block, context7 |-> file'.context7,
                model |-> file'.model, plugin |-> file'.plugin, plugins |-> file'.plugins,
                stale |-> file'.stale, path |-> file'.path, hasPaths |-> file'.hasPaths,
                paths |-> file'.paths]
  BY <1>2 DEF Document!Files
<1>13. file'.exists = TRUE /\ file'.stale = FALSE /\ file'.path = "none" /\ file'.hasPaths = TRUE
  BY <1>2 DEF Document!Files
<1> QED  BY <1>5, <1>6, <1>8, <1>9, <1>10, <1>11, <1>12, <1>13

\* An install writes what it has rendered, or nothing.
LEMMA DocumentInstalls == ASSUME DocumentInv, Document!Install  PROVE DocumentInv'
<1>1. CASE result' = "ok"
  <2>1. file' = Document!Desired /\ Document!StartupSafe(Document!Desired)
        /\ accepted' = TRUE /\ edits' = 0 /\ UNCHANGED <<saved, cfg, hosted>>
    BY <1>1 DEF Document!Install
  <2>2. Settled'  BY <2>1, DesiredSettles DEF Settled
  <2>3. Document!TokenStaysHome'  BY <2>1, DesiredShape DEF Document!TokenStaysHome
  <2> QED
    BY <1>1, <2>1, <2>2, <2>3, DesiredShape, EditBound DEF DocumentInv, Document!TypeOK
<1>2. CASE result' # "ok"
  <2>1. UNCHANGED <<file, accepted, edits, saved, cfg, hosted>> /\ result' \in {"conflict", "refused"}
    BY <1>2 DEF Document!Install
  <2> QED  BY <2>1 DEF DocumentInv, Document!TypeOK, Document!TokenStaysHome
<1> QED  BY <1>1, <1>2

\* An edit leaves a document.
LEMMA DocumentEdited ==
  ASSUME DocumentInv, NEW f \in Document!Files, Document!Edited(f),
         f.block.shape = "remote" => f.block.of = f.block.server
  PROVE  DocumentInv'
<1>1. file' = [f EXCEPT !.exists = TRUE] /\ edits < DocEdits /\ edits' = edits + 1 /\ result' = ""
      /\ accepted' \in BOOLEAN /\ UNCHANGED <<saved, cfg, hosted>>
  BY DEF Document!Edited, DocumentInv, Document!TypeOK
<1>2. file' \in Document!Files /\ file'.exists /\ file'.block = f.block
  BY <1>1 DEF Document!Files
<1>3. edits' \in 0..DocEdits  BY <1>1, EditBound DEF DocumentInv, Document!TypeOK
<1> QED  BY <1>1, <1>2, <1>3 DEF DocumentInv, Document!TypeOK, Document!TokenStaysHome

\* What an edit of one part makes of a document.
Edit(f) ==
  /\ f \in Document!Files /\ (f.block.shape = "remote" => f.block.of = f.block.server)
  /\ Document!Edited(f) /\ (f.model = file.model \/ Document!EditAgent)

LEMMA DocumentEdits ==
  ASSUME DocumentInv,
         Document!EditServers \/ Document!EditAgent \/ Document!EditPlugins
           \/ Document!EditSkills \/ Document!OldRelease
  PROVE  \E f : Edit(f)
<1>1. file \in Document!Files /\ (file.block.shape = "remote" => file.block.of = file.block.server)
  BY DEF DocumentInv, Document!TypeOK, Document!TokenStaysHome
<1>2. CASE Document!EditServers
  <2>1. CASE \E c \in {"none", "disabled", "foreign"} :
               Document!Edited([file EXCEPT !.context7 = c])
    <3>1. PICK c \in {"none", "disabled", "foreign"} : Document!Edited([file EXCEPT !.context7 = c])
      BY <2>1
    <3>2. Edit([file EXCEPT !.context7 = c])  BY <1>1, <3>1 DEF Edit, Document!Files
    <3> QED  BY <3>2
  <2>2. CASE \E b \in {Document!NoBlock} \cup {own \in Document!Block : own.server = own.of} :
               Document!Edited([file EXCEPT !.block = b])
    <3>1. PICK b \in {Document!NoBlock} \cup {own \in Document!Block : own.server = own.of} :
            Document!Edited([file EXCEPT !.block = b])
      BY <2>2
    <3>2. b.shape = "remote" => b.of = b.server  BY DEF Document!NoBlock
    <3>3. Edit([file EXCEPT !.block = b])  BY <1>1, <3>1, <3>2 DEF Edit, Document!Files
    <3> QED  BY <3>3
  <2> QED  BY <1>2, <2>1, <2>2 DEF Document!EditServers
<1>3. CASE Document!EditAgent
  <2>1. PICK m \in {"none", "chosen", "bare"} : Document!Edited([file EXCEPT !.model = m])
    BY <1>3 DEF Document!EditAgent
  <2>2. Edit([file EXCEPT !.model = m])
    BY <1>1, <1>3, <2>1 DEF Edit, Document!Files, Document!Models
  <2> QED  BY <2>2
<1>4. CASE Document!EditPlugins
  <2>1. CASE \E n \in SUBSET Document!Plugins : Document!Edited([file EXCEPT !.plugin = n])
    <3>1. PICK n \in SUBSET Document!Plugins : Document!Edited([file EXCEPT !.plugin = n])
      BY <2>1
    <3>2. Edit([file EXCEPT !.plugin = n])  BY <1>1, <3>1 DEF Edit, Document!Files
    <3> QED  BY <3>2
  <2>2. CASE \E l \in Document!Lists : Document!Edited([file EXCEPT !.plugins = l])
    <3>1. PICK l \in Document!Lists : Document!Edited([file EXCEPT !.plugins = l])
      BY <2>2
    <3>2. Edit([file EXCEPT !.plugins = l])  BY <1>1, <3>1 DEF Edit, Document!Files
    <3> QED  BY <3>2
  <2> QED  BY <1>4, <2>1, <2>2 DEF Document!EditPlugins
<1>5. CASE Document!EditSkills
  <2>1. CASE Document!Edited([file EXCEPT !.path = "mine"])
    <3>1. Edit([file EXCEPT !.path = "mine"])  BY <1>1, <2>1 DEF Edit, Document!Files
    <3> QED  BY <3>1
  <2>2. CASE \E p \in SUBSET {"lore"} :
               Document!Edited([file EXCEPT !.hasPaths = TRUE, !.paths = p])
    <3>1. PICK p \in SUBSET {"lore"} : Document!Edited([file EXCEPT !.hasPaths = TRUE, !.paths = p])
      BY <2>2
    <3>2. Edit([file EXCEPT !.hasPaths = TRUE, !.paths = p])
      BY <1>1, <3>1 DEF Edit, Document!Files
    <3> QED  BY <3>2
  <2>3. CASE Document!Edited([file EXCEPT !.hasPaths = TRUE, !.paths = @ \cup {"own"}])
    <3>1. Edit([file EXCEPT !.hasPaths = TRUE, !.paths = @ \cup {"own"}])
      BY <1>1, <2>3 DEF Edit, Document!Files
    <3> QED  BY <3>1
  <2> QED  BY <1>5, <2>1, <2>2, <2>3 DEF Document!EditSkills
<1>6. CASE Document!OldRelease
  <2>1. Edit([file EXCEPT !.stale = TRUE])
    BY <1>1, <1>6 DEF Edit, Document!Files, Document!OldRelease
  <2> QED  BY <2>1
<1> QED  BY <1>2, <1>3, <1>4, <1>5, <1>6

\* The user removes what was refused.
LEMMA DocumentResolved ==
  ASSUME DocumentInv, Document!Resolve
  PROVE  DocumentInv' /\ file'.model = file.model
<1>1. /\ \/ file' = [file EXCEPT !.block = Document!NoBlock, !.context7 = "none"]
         \/ file' = [file EXCEPT !.plugins = Document!NoList]
      /\ result' = "" /\ accepted' = FALSE /\ UNCHANGED <<saved, cfg, hosted, edits>>
  BY DEF Document!Resolve
<1>2. file \in Document!Files  BY DEF DocumentInv, Document!TypeOK
<1>3. /\ file' \in Document!Files /\ file'.model = file.model /\ file'.exists = file.exists
      /\ file'.block = file.block \/ file'.block = Document!NoBlock
  BY <1>1, <1>2 DEF Document!Files, Document!Lists
<1>4. Document!TokenStaysHome'
  BY <1>3 DEF DocumentInv, Document!TokenStaysHome, Document!NoBlock
<1> QED  BY <1>1, <1>3, <1>4 DEF DocumentInv, Document!TypeOK

\* A login, a configuration and a selection leave the document as it is.
LEMMA DocumentElsewhere ==
  ASSUME DocumentInv, Document!Login \/ Document!Configure \/ Document!Select
  PROVE  DocumentInv' /\ file' = file
<1>1. /\ UNCHANGED <<file, accepted, edits>> /\ result' = ""
      /\ saved' \in [server : Servers, token : Tokens] /\ cfg' \in {"none", "configured"}
      /\ hosted' \in BOOLEAN
  BY DEF DocumentInv, Document!TypeOK, Document!Login, Document!Configure, Document!Select
<1> QED  BY <1>1 DEF DocumentInv, Document!TypeOK, Document!TokenStaysHome

\* Every step of the document keeps its invariant.
LEMMA DocumentStep == ASSUME DocumentInv, Document!Next  PROVE DocumentInv'
<1>1. ASSUME NEW f, Edit(f) PROVE DocumentInv'
  BY <1>1, DocumentEdited DEF Edit
<1> QED
  BY <1>1, DocumentInstalls, DocumentEdits, DocumentResolved, DocumentElsewhere DEF Document!Next

\* A step of the document keeps what it promises.
LEMMA DocumentKeeps ==
  ASSUME DocumentInv, Document!Next
  PROVE  /\ (result = "ok" /\ Document!Install) => file' = file
         /\ (file.model = "chosen" /\ file'.model # "chosen") => Document!EditAgent
         /\ ("mine" \in Document!Registered(file) /\ Document!Install) =>
              "mine" \in Document!Registered(file)'
<1>1. ASSUME Document!Install, result = "ok" PROVE file' = file
  <2>1. Settled  BY <1>1 DEF DocumentInv
  <2> QED  BY <1>1, <2>1 DEF Document!Install, Settled
<1>2. ASSUME file.model = "chosen", file'.model # "chosen" PROVE Document!EditAgent
  <2>1. ASSUME Document!Install PROVE file'.model = "chosen"
    <3>1. file.exists  BY <1>2 DEF DocumentInv
    <3>2. Document!Model = "chosen"  BY <1>2, <3>1 DEF Document!Model
    <3> QED  BY <1>2, <2>1, <3>2 DEF Document!Install, Document!Desired
  <2>2. ASSUME NEW f, Edit(f) PROVE f.model = file'.model
    BY <2>2 DEF Edit, Document!Edited, Document!Files
  <2>3. ASSUME NEW f, Edit(f) PROVE Document!EditAgent
    BY <1>2, <2>2, <2>3 DEF Edit
  <2> QED
    BY <1>2, <2>1, <2>3, DocumentEdits, DocumentResolved, DocumentElsewhere DEF Document!Next
<1>3. ASSUME Document!Install, "mine" \in Document!Registered(file)
      PROVE  "mine" \in Document!Registered(file)'
  <2>1. CASE file' = file  BY <1>3, <2>1 DEF Document!Registered
  <2>2. CASE file' # file
    <3>1. file' = Document!Desired /\ Document!StartupSafe(Document!Desired)
      BY <1>3, <2>2 DEF Document!Install
    <3>2. file'.plugin = Document!Plugin /\ Document!PluginsLeft = Document!NoList
      BY <3>1 DEF Document!Desired, Document!StartupSafe
    <3>3. ~Document!Changed(file.plugins) => file.plugins.names = {}
      BY <3>2 DEF Document!PluginsLeft, Document!NoList
    <3>4. "mine" \in Document!Plugin
      BY <1>3, <3>3 DEF Document!Plugin, Document!Registered
    <3> QED  BY <3>2, <3>4 DEF Document!Registered
  <2> QED  BY <2>1, <2>2
<1> QED  BY <1>1, <1>2, <1>3

\* There is no document before the first install.
LEMMA DocumentStarts == Document!Init => DocumentInv
<1> SUFFICES ASSUME Document!Init PROVE DocumentInv  OBVIOUS
<1>1. file = Document!Absent /\ result = "" /\ edits = 0 /\ cfg = "none" /\ accepted = FALSE
      /\ hosted \in BOOLEAN /\ saved \in [server : Servers, token : Tokens]
  BY DEF Document!Init
<1>2. Document!Absent \in Document!Files /\ Document!Absent.model = "none"
      /\ Document!Absent.block = Document!NoBlock
  BY DEF Document!Absent, Document!Files, Document!Models, Document!Lists, Document!NoList
<1>3. file \in Document!Files /\ file.model = "none" /\ file.block = Document!NoBlock
  BY <1>1, <1>2
<1>4. edits \in 0..DocEdits  BY <1>1, EditBound
<1>5. Document!TypeOK  BY <1>1, <1>3, <1>4 DEF Document!TypeOK
<1>6. Document!TokenStaysHome  BY <1>3 DEF Document!TokenStaysHome, Document!NoBlock
<1> QED  BY <1>1, <1>3, <1>5, <1>6 DEF DocumentInv

-----------------------------------------------------------------------------
(* All of them *)

\* The review pair, whose installer is not the one that runs, is at rest.
ReviewRests == pointer = 0 /\ proc = [i \in {"a"} |-> Review!Idle]

\* Before the first install of a pair there is none.
LEMMA ReviewStarts == Review!Init => ReviewInv /\ ReviewRests
<1> SUFFICES ASSUME Review!Init PROVE ReviewInv /\ ReviewRests  OBVIOUS
<1>1. Review!NoDir \in Review!Dir /\ Review!NoDir.parts = {}  BY DEF Review!NoDir, Review!Dir
<1>2. Review!Idle \in ReviewProc /\ Review!Idle.pc = "idle" /\ ~Review!Idle.created
  BY DEF Review!Idle, ReviewProc
<1>3. /\ staging = [r \in Revisions |-> Review!NoDir] /\ releases = [r \in Revisions |-> Review!NoDir]
      /\ pointer = 0 /\ proc = [i \in {"a"} |-> Review!Idle]
      /\ runs = 0 /\ faults = 0 /\ damaged = {}
  BY DEF Review!Init
<1>4. 0 \in 0..MaxReviews /\ 0 \in 0..1  BY Bounds
<1>5. proc["a"] = Review!Idle /\ proc \in [{"a"} -> ReviewProc]  BY <1>2, <1>3
<1> QED  BY <1>1, <1>2, <1>3, <1>4, <1>5 DEF ReviewInv, ReviewRests, Safe

\* What the invariant of the pair says of the properties.
LEMMA ReviewPromises ==
  /\ ReviewInv => Review!TypeOK /\ PointerIsSafe
  /\ ReviewRests => PointerIsSafe
<1>1. ASSUME ReviewInv PROVE Review!TypeOK /\ PointerIsSafe
  <2>1. proc["a"] \in ReviewProc  BY <1>1 DEF ReviewInv
  <2>2. Review!TypeOK
    BY <1>1, <2>1 DEF ReviewInv, ReviewProc, Review!TypeOK
  <2>3. Review!PointerIsCoherent
    <3>1. CASE Safe(pointer)  BY <3>1 DEF Safe, Review!PointerIsCoherent
    <3>2. CASE proc["a"].pc = "restore"
      BY <1>1, <3>2 DEF ReviewInv, Safe, Review!PointerIsCoherent
    <3> QED  BY <1>1, <3>1, <3>2 DEF ReviewInv
  <2>4. Review!FailureKeepsPointer
    BY <1>1 DEF ReviewInv, Review!FailureKeepsPointer, Review!At
  <2> QED  BY <2>2, <2>3, <2>4 DEF PointerIsSafe
<1>2. ASSUME ReviewRests PROVE PointerIsSafe
  BY <1>2 DEF ReviewRests, Review!Idle, PointerIsSafe, Review!PointerIsCoherent,
    Review!FailureKeepsPointer, Review!At
<1> QED  BY <1>1, <1>2

\* Nothing changes while another installer runs.
LEMMA PiStays ==
  ASSUME PiInv, UNCHANGED <<shared, piVars>>
  PROVE  PiInv'
<1>1. UNCHANGED <<files, backups, manifest, run, clock, edits, owed, fulls, release, stage, todo, held>>
  BY DEF shared, piVars
<1>2. Ahead' = Ahead  BY <1>1 DEF Ahead
<1>3. \A q : Installed(q)' <=> Installed(q)  BY <1>1 DEF Installed
<1>4. PiTypes'  BY <1>1 DEF PiInv, PiTypes
<1>5. PiWork'  BY <1>1 DEF PiInv, PiWork, Pi!Upcoming
<1>6. PiBackups'  BY <1>1, <1>2 DEF PiInv, PiBackups
<1>7. PiHolds'  BY <1>1 DEF PiInv, PiHolds, Pi!Desired
<1>8. /\ CleanedUp' <=> CleanedUp
      /\ FilesDone' <=> FilesDone
      /\ OverlaysDone' <=> OverlaysDone
  BY <1>1, <1>3 DEF CleanedUp, FilesDone, OverlaysDone
<1>9. PiProgress' <=> PiProgress  BY <1>1, <1>8 DEF PiProgress
<1> QED  BY <1>1, <1>4, <1>5, <1>6, <1>7, <1>8, <1>9 DEF PiInv

\* The same of the three.
LEMMA PlannedStays ==
  ASSUME PlannedInv, UNCHANGED <<shared, plannedVars, runs>>
  PROVE  PlannedInv'
<1>1. UNCHANGED <<files, backups, manifest, run, clock, edits, owed, target, agentcfg, runs>>
  BY DEF shared, plannedVars
<1>2. PlannedTypes'  BY <1>1 DEF PlannedInv, PlannedTypes
<1>3. Planned!Upcoming("a")' = Planned!Upcoming("a")  BY <1>1 DEF Planned!Upcoming
<1>4. \A q : Due(q, run["a"])' <=> Due(q, run["a"])
  BY <1>1, PlannedUnmoved DEF Due
<1>5. PlannedWork'  BY <1>1, <1>3, <1>4 DEF PlannedInv, PlannedWork
<1>6. PlannedBackups'  BY <1>1 DEF PlannedInv, PlannedBackups
<1>7. Planned!OkIsInstalled'  BY <1>1 DEF PlannedInv, Planned!OkIsInstalled, Planned!ExitCode
<1> QED  BY <1>2, <1>5, <1>6, <1>7 DEF PlannedInv

\* The same of the pair.
LEMMA ReviewStays ==
  ASSUME UNCHANGED <<reviewVars, runs, faults>>
  PROVE  (ReviewInv => ReviewInv') /\ (ReviewRests => ReviewRests')
<1>1. UNCHANGED <<staging, releases, pointer, proc, damaged, runs, faults>>  BY DEF reviewVars
<1>2. ReviewInv => ReviewInv'  BY <1>1 DEF ReviewInv, Safe, Review!Coherent
<1> QED  BY <1>1, <1>2 DEF ReviewRests

\* The same of the document.
LEMMA DocumentStays ==
  ASSUME DocumentInv, UNCHANGED <<mergeVars, edits>>
  PROVE  DocumentInv'
<1>1. UNCHANGED <<file, saved, cfg, hosted, result, accepted, edits>>  BY DEF mergeVars
<1>2. Document!TypeOK' /\ Document!TokenStaysHome'
  BY <1>1 DEF DocumentInv, Document!TypeOK, Document!TokenStaysHome
<1>3. Document!Conflict' <=> Document!Conflict
  BY <1>1 DEF Document!Conflict, Document!Owned, Document!Native
<1>4. Document!Desired' = Document!Desired
  <2>1. ASSUME NEW b PROVE Document!MergedBlock(b)' = Document!MergedBlock(b)
    BY <1>1 DEF Document!MergedBlock, Document!Native, Document!RenderedBlock
  <2>2. Document!MergedBlock(file.block)' = Document!MergedBlock(file.block)
    BY <1>1, <2>1 DEF Document!MergedBlock, Document!Native, Document!RenderedBlock
  <2>3. /\ Document!Model' = Document!Model /\ Document!Plugin' = Document!Plugin
        /\ Document!PluginsLeft' = Document!PluginsLeft /\ Document!OldPaths' = Document!OldPaths
        /\ Document!RenderedBlock' = Document!RenderedBlock
    BY <1>1 DEF Document!Model, Document!Configured, Document!Plugin, Document!PluginsLeft,
      Document!OldPaths, Document!RenderedBlock
  <2> QED  BY <1>1, <2>2, <2>3 DEF Document!Desired
<1>5. Settled' <=> Settled
  BY <1>1, <1>3, <1>4 DEF Settled, Document!StartupSafe
<1> QED  BY <1>1, <1>2, <1>5 DEF DocumentInv

\* The invariant of the installer that runs, and that the pair rests when it is
\* not its own.
LEMMA LegacyInvariant == Spec => []LegacyInv
<1>1. Init => LegacyInv
  BY PiStarts, PlannedStarts, ReviewStarts, DocumentStarts DEF Init, LegacyInv, ReviewRests
<1>2. ASSUME LegacyInv, [Next]_vars
      PROVE  LegacyInv'
  <2>1. CASE UNCHANGED vars
    <3>1. /\ UNCHANGED installer /\ UNCHANGED <<shared, piVars>>
          /\ UNCHANGED <<shared, plannedVars, runs>> /\ UNCHANGED <<reviewVars, runs, faults>>
          /\ UNCHANGED <<mergeVars, edits>>
      BY <2>1 DEF vars, shared
    <3> QED
      BY <1>2, <3>1, PiStays, PlannedStays, ReviewStays, DocumentStays DEF LegacyInv, ReviewRests
  <2>2. CASE Next
    <3>1. installer' = installer  BY <2>2 DEF Next
    <3>2. CASE installer = "pi"
      <4>1. Pi!Next /\ UNCHANGED <<pointer, proc>>  BY <2>2, <3>2 DEF Next, reviewVars
      <4> QED  BY <1>2, <3>1, <3>2, <4>1, PiStep DEF LegacyInv
    <3>3. CASE installer = "planned"
      <4>1. Planned!Next /\ UNCHANGED <<pointer, proc>>  BY <2>2, <3>3 DEF Next, reviewVars
      <4> QED  BY <1>2, <3>1, <3>3, <4>1, PlannedStep DEF LegacyInv
    <3>4. CASE installer = "review"
      <4>1. Review!Next  BY <2>2, <3>4 DEF Next
      <4> QED  BY <1>2, <3>1, <3>4, <4>1, ReviewStep DEF LegacyInv
    <3>5. CASE installer = "merge"
      <4>1. Document!Next /\ UNCHANGED <<pointer, proc>>  BY <2>2, <3>5 DEF Next, reviewVars
      <4> QED  BY <1>2, <3>1, <3>5, <4>1, DocumentStep DEF LegacyInv
    <3> QED  BY <2>2, <3>2, <3>3, <3>4, <3>5 DEF Next
  <2> QED  BY <1>2, <2>1, <2>2
<1> QED  BY <1>1, <1>2, PTL DEF Spec

\* The type of the state: a step of Pi is under way only in a stage, and a file is
\* held only by an install that still has it to do.
THEOREM LegacyTypeCorrect == Spec => []TypeOK
<1>1. LegacyInv => TypeOK
  BY PiPromises, PlannedPromises, ReviewPromises DEF LegacyInv, DocumentInv, TypeOK
<1> QED  BY <1>1, LegacyInvariant, PTL

\* No installer loses what is the user's, and one that says ok has installed and
\* listed what it rendered (applyRenderedFile, applyManagedDelete,
\* applyCodexPlannedContent and its siblings).
THEOREM TextsAreKept == Spec => []InstalledAndKept
<1>1. LegacyInv => InstalledAndKept
  BY PiPromises, PlannedPromises DEF LegacyInv, InstalledAndKept
<1> QED  BY <1>1, LegacyInvariant, PTL

\* What the manifests do not list is neither touched nor listed, no install takes
\* out a server entry that its merge is to guard, Codex lists what it has written,
\* and a rerun finds its work in place (applyAgentOverlays, mergeCodexMCPConfig,
\* inspectOpenCodeMCPConfigOwnership, validateAntigravityContext7Ownership,
\* planCodexInstall, PlanPiInstall).
THEOREM OwnershipIsKept == Spec => OwnershipKept
<1>1. LegacyInv /\ [Next]_vars =>
        [/\ installer = "pi" => Pi!UserOverlaysKept /\ Pi!OwnsWhatItLists /\ Pi!RerunIsQuiet
         /\ installer = "planned" =>
              Planned!ForeignKept /\ Planned!UserLegacyKept /\ Planned!CodexManifestIsLast
        ]_<<shared, piVars>>
  <2> SUFFICES ASSUME LegacyInv, Next
               PROVE  /\ installer = "pi" =>
                           Pi!UserOverlaysKept /\ Pi!OwnsWhatItLists /\ Pi!RerunIsQuiet
                      /\ installer = "planned" =>
                           Planned!ForeignKept /\ Planned!UserLegacyKept
                             /\ Planned!CodexManifestIsLast
    BY DEF vars
  <2>1. CASE installer = "pi"
    <3>1. PiInv /\ Pi!Next  BY <2>1 DEF LegacyInv, Next
    <3> QED  BY <2>1, <3>1, PiOwns
  <2>2. CASE installer = "planned"
    <3>1. PlannedInv /\ Planned!Next  BY <2>2 DEF LegacyInv, Next
    <3> QED  BY <2>2, <3>1, PlannedOwns
  <2> QED  BY <2>1, <2>2
<1> QED  BY <1>1, LegacyInvariant, PTL DEF Spec, OwnershipKept

\* The pointer of the review pair names a whole pair, and an install that fails
\* leaves it where it was (applyBoundedReviewRelease).
THEOREM PointersAreSafe == Spec => []PointerIsSafe
<1>1. LegacyInv => PointerIsSafe
  BY ReviewPromises DEF LegacyInv, ReviewRests
<1> QED  BY <1>1, LegacyInvariant, PTL

\* However often opencode.json is installed, logged in for and edited, a token
\* stands with the server that issued it, an install keeps the user's model and
\* plugins, and a second install changes nothing (mergeOpenCodeConfigJSON,
\* openCodeAgentOverlay, mergeOpenCodePluginStrings).
THEOREM DocumentsAreMerged == Spec => OpenCodeIsMerged
<1>1. LegacyInv => (installer = "merge" => Document!TokenStaysHome)
  BY DEF LegacyInv, DocumentInv
<1>2. LegacyInv /\ [Next]_vars =>
        /\ [(result = "ok" /\ Document!Install) => file' = file]_(Document!vars)
        /\ [(file.model = "chosen" /\ file'.model # "chosen") => Document!EditAgent]_(Document!vars)
        /\ [("mine" \in Document!Registered(file) /\ Document!Install)
             => "mine" \in Document!Registered(file)']_(Document!vars)
  <2>1. ASSUME LegacyInv, [Next]_vars
        PROVE  /\ (result = "ok" /\ Document!Install) => file' = file
               /\ (file.model = "chosen" /\ file'.model # "chosen") => Document!EditAgent
               /\ ("mine" \in Document!Registered(file) /\ Document!Install) =>
                    "mine" \in Document!Registered(file)'
    <3>1. CASE file' = file
      BY <3>1 DEF Document!Registered
    <3>2. CASE file' # file
      <4>1. installer = "merge" /\ Document!Next  BY <2>1, <3>2 DEF Next, vars, mergeVars
      <4> QED  BY <2>1, <4>1, DocumentKeeps DEF LegacyInv
    <3> QED  BY <3>1, <3>2
  <2> QED  BY <2>1
<1> QED
  BY <1>1, <1>2, LegacyInvariant, PTL
    DEF Spec, OpenCodeIsMerged, Document!SecondInstallChangesNothing, Document!ChoiceSurvives,
      Document!PluginsKept
=============================================================================
