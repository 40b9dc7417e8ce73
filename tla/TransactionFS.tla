--------------------------- MODULE TransactionFS ----------------------------
(***************************************************************************)
(* The journaled filesystem transaction of internal/install:               *)
(* transaction_fs.go (apply, commit, rollback) over                        *)
(* transaction_fs_unix.go (prepare / journal / cleanup directories,        *)
(* markers, per-file temporaries).  One owner at a time runs it, which the *)
(* target authority guarantees (module TargetAuthority).                   *)
(*                                                                         *)
(* Every step that touches the disk may fail before it has an effect, or,  *)
(* when its operation is named in LateFaults, after it (the rename is done *)
(* and the directory fsync fails); the owner may die between any two       *)
(* steps; and while no owner runs, somebody else may edit the files.       *)
(***************************************************************************)
EXTENDS Integers, FiniteSets

CONSTANTS
  N,            \* resources 1..N, in compareTransactionResources order
  Content,      \* contents a file may have
  Absent,       \* no file
  Dirs,         \* directories of the target that resources live in
  DirOf,        \* [1..N -> Dirs], the parent of each resource
  LateFaults,   \* operations whose directory fsync may fail after the rename
  Editable      \* resources somebody else edits between two applies

Paths == 1..N
Value == Content \cup {Absent}
LateOps == {"seal", "write", "restore", "commit", "restored", "cleanup", "header"}

ASSUME NAssumption == N \in Nat \ {0}
ASSUME ValueAssumption == Absent \notin Content
ASSUME DirAssumption == DirOf \in [Paths -> Dirs]
ASSUME FaultAssumption == LateFaults \subseteq LateOps /\ Editable \subseteq Paths

VARIABLES
  file,         \* contents of the target's resources
  temps,        \* resources whose .lore-write-v1 temporary exists
  dirs,         \* directories that exist
  jnl,          \* the journal directory, see Journal
  residue,      \* the .cleanup directory exists
  pc,           \* the owner's next step, "idle" when there is no owner
  task,         \* the function the shared steps run for
  plan,         \* the ordered writes, Absent where the apply writes nothing
  todo,         \* resources the current loop has still to visit
  states,       \* transactionFSJournal.states
  bad,          \* a restoration step has failed (`residual')
  result,       \* what the last owner returned, "none" if it died
  healthy       \* no more I/O failures or deaths (environment)

disk == <<file, temps, dirs, jnl, residue>>
owner == <<pc, task, plan, todo, states, bad, result>>
vars == <<disk, owner, healthy>>

Marks == {"prepared", "committed", "restored"}
Journal == [at      : {"none", "prepare", "journal"},
            entries : SUBSET Paths,       \* durable header
            kept    : SUBSET Paths,       \* entries recorded as existing
            backup  : [Paths -> Value],   \* backups/%06d, Absent if missing
            planned : SUBSET Dirs,        \* created_dirs
            marks   : SUBSET Marks]
NoPlan == [p \in Paths |-> Absent]
NoJournal == [at |-> "none", entries |-> {}, kept |-> {}, backup |-> NoPlan,
              planned |-> {}, marks |-> {}]

Touched(w) == {p \in Paths : w[p] # Absent}
Plans == {w \in [Paths -> Value] : Touched(w) # {}}

\* A sealed journal that recovery would still roll back.
Unsettled == /\ jnl.at = "journal"
             /\ jnl.marks \cap {"committed", "restored"} = {}

\* recover() reads the header and its backups without an error of its own.
Admissible(j) == /\ "prepared" \in j.marks
                 /\ \A p \in j.kept : j.backup[p] # Absent

Pcs == {"idle", "residue", "inspect", "temps", "restore", "restoreRename", "rmdirs",
        "markRestored", "cleanup", "purge", "begin", "backup", "seal", "write",
        "writeRename", "held", "mark"}
Tasks == {"none", "recover", "apply", "finalize", "abandon", "abort", "rollback", "commit"}
Results == {"none", "failed", "residual", "aborted", "rolled_back", "rollback_error",
            "committed", "cleanup_failed", "commit_failed"}

\* Loops visit the ordered resources upwards, restoration downwards.
First(p) == p \in todo /\ \A q \in todo : p <= q
Last(p) == p \in todo /\ \A q \in todo : q <= p

\* Releases the target guard and hands the outcome to the caller.
Return(r) ==
  /\ pc' = "idle" /\ task' = "none" /\ result' = r
  /\ plan' = NoPlan /\ todo' = {} /\ states' = {} /\ bad' = FALSE

Goto(next) == pc' = next /\ UNCHANGED <<task, plan, todo, states, bad, result>>

CanFail == ~healthy
FailsLate(op) == CanFail /\ op \in LateFaults

-----------------------------------------------------------------------------
(* Shared steps: cleanup and restoration *)

\* cleanup() succeeded: recovery goes on to begin, the others return.
CleanupDone ==
  CASE task = "recover"  -> /\ pc' = "begin" /\ task' = "apply" /\ todo' = {} /\ states' = {}
                            /\ UNCHANGED <<plan, bad, result>>
    [] task = "abandon"  -> Return("failed")
    [] task = "abort"    -> Return("aborted")
    [] task = "rollback" -> Return("rolled_back")
    [] OTHER             -> Return("committed")

\* Seeded fault (TypeOK): the caller's name is returned for an outcome.
CleanupFailedUnnamed == Return(task)

\* cleanup() failed: abort() does not report it, the others do.
CleanupFailed ==
  CASE task = "recover"  -> Return("residual")
    [] task = "abandon"  -> Return("failed")
    [] task = "abort"    -> Return("aborted")
    [] task = "rollback" -> Return("rollback_error")
    [] OTHER             -> Return("cleanup_failed")

\* cleanup(): drop the prepare directory, move the journal out of the way.
CleanupPrepare ==
  /\ pc = "cleanup" /\ jnl.at # "journal"
  /\ \/ jnl' = NoJournal /\ Goto("purge")
     \/ CanFail /\ jnl' \in {jnl, NoJournal} /\ CleanupFailed
  /\ UNCHANGED <<file, temps, dirs, residue, healthy>>

CleanupJournal ==
  /\ pc = "cleanup" /\ jnl.at = "journal"
  /\ \/ ~residue /\ jnl' = NoJournal /\ residue' = TRUE /\ Goto("purge")
     \/ (CanFail \/ residue) /\ UNCHANGED <<jnl, residue>> /\ CleanupFailed
     \/ FailsLate("cleanup") /\ ~residue /\ jnl' = NoJournal /\ residue' = TRUE /\ CleanupFailed
  /\ UNCHANGED <<file, temps, dirs, healthy>>

\* removeResidue(cleanupRoot), the last step of cleanup().
Purge ==
  /\ pc = "purge"
  /\ \/ residue' = FALSE /\ CleanupDone
     \/ CanFail /\ residue' \in {residue, FALSE} /\ CleanupFailed
  /\ UNCHANGED <<file, temps, dirs, jnl, healthy>>

\* Seeded fault (NoOrphans): a temporary that could not be removed is ignored.
RemoveTempsQuietly ==
  /\ pc = "temps"
  /\ \E left \in SUBSET (temps \cap states) :
       /\ left # {} => CanFail
       /\ temps' = (temps \ states) \cup left
  /\ bad' = FALSE /\ pc' = "restore" /\ todo' = states
  /\ UNCHANGED <<file, dirs, jnl, residue, task, plan, states, result, healthy>>

\* removeTemps() visits every state and reports any failure.
RemoveTemps ==
  /\ pc = "temps"
  /\ \E left \in SUBSET (temps \cap states), failed \in BOOLEAN :
       /\ failed => CanFail
       /\ left # {} => failed
       /\ temps' = (temps \ states) \cup left
       /\ bad' = failed
  /\ pc' = "restore" /\ todo' = states
  /\ UNCHANGED <<file, dirs, jnl, residue, task, plan, states, result, healthy>>

\* Seeded fault (AllOrNothing): a failed restoration is forgotten.
VisitedForgetting(p, failed) ==
  /\ todo' = todo \ {p} /\ pc' = "restore"
  /\ UNCHANGED <<task, plan, states, bad, result>>

\* Leaves the loop body for the next resource of the restoration.
Visited(p, failed) ==
  /\ todo' = todo \ {p}
  /\ bad' = (bad \/ failed)
  /\ pc' = "restore"
  /\ UNCHANGED <<task, plan, states, result>>

\* restore() of a resource that did not exist.
RestoreAbsent(p) ==
  /\ pc = "restore" /\ Last(p) /\ p \notin jnl.kept
  /\ \/ file' = [file EXCEPT ![p] = Absent] /\ Visited(p, FALSE)
     \/ CanFail /\ UNCHANGED file /\ Visited(p, TRUE)
     \/ FailsLate("restore") /\ file' = [file EXCEPT ![p] = Absent] /\ Visited(p, TRUE)
  /\ UNCHANGED <<temps, dirs, jnl, residue, healthy>>

\* restore() of a resource with a backup: atomicWrite's exclusive temporary ...
RestoreTemp(p) ==
  /\ pc = "restore" /\ Last(p) /\ p \in jnl.kept
  /\ \/ /\ p \notin temps /\ jnl.backup[p] # Absent
        /\ temps' = temps \cup {p}
        /\ Goto("restoreRename")
     \/ /\ CanFail \/ p \in temps \/ jnl.backup[p] = Absent
        /\ UNCHANGED temps
        /\ Visited(p, TRUE)
  /\ UNCHANGED <<file, dirs, jnl, residue, healthy>>

\* ... and its rename.
RestoreRename(p) ==
  /\ pc = "restoreRename" /\ Last(p)
  /\ \/ /\ file' = [file EXCEPT ![p] = jnl.backup[p]] /\ temps' = temps \ {p}
        /\ \/ Visited(p, FALSE)
           \/ FailsLate("restore") /\ Visited(p, TRUE)
     \/ /\ CanFail /\ UNCHANGED file /\ temps' \in {temps, temps \ {p}}
        /\ Visited(p, TRUE)
  /\ UNCHANGED <<dirs, jnl, residue, healthy>>

RestoreDone ==
  /\ pc = "restore" /\ todo = {}
  /\ Goto("rmdirs")
  /\ UNCHANGED <<disk, healthy>>

Occupied(d) == \E p \in Paths : DirOf[p] = d /\ (file[p] # Absent \/ p \in temps)

\* Seeded fault (EventuallySettled): a planned directory that was never made
\* counts as a failure to remove it.
RemoveCreatedDirsStrictly ==
  /\ pc = "rmdirs"
  /\ \E left \in SUBSET (jnl.planned \cap dirs), failed \in BOOLEAN :
       /\ {d \in jnl.planned \cap dirs : Occupied(d)} \subseteq left
       /\ left # {} \/ ~(jnl.planned \subseteq dirs) => failed
       /\ failed => CanFail \/ left # {} \/ ~(jnl.planned \subseteq dirs)
       /\ dirs' = dirs \ (jnl.planned \ left)
       /\ IF bad \/ failed THEN Return("residual") ELSE Goto("markRestored")
  /\ UNCHANGED <<file, temps, jnl, residue, healthy>>

\* removeCreatedDirs(); any failure so far ends in residual risk.
RemoveCreatedDirs ==
  /\ pc = "rmdirs"
  /\ \E left \in SUBSET (jnl.planned \cap dirs), failed \in BOOLEAN :
       /\ {d \in jnl.planned \cap dirs : Occupied(d)} \subseteq left
       /\ left # {} => failed
       /\ failed => CanFail \/ \E d \in jnl.planned \cap dirs : Occupied(d)
       /\ dirs' = dirs \ (jnl.planned \ left)
       /\ IF bad \/ failed THEN Return("residual") ELSE Goto("markRestored")
  /\ UNCHANGED <<file, temps, jnl, residue, healthy>>

Mark(m) == jnl' = [jnl EXCEPT !.marks = @ \cup {m}]

MarkRestored ==
  /\ pc = "markRestored"
  /\ \/ Mark("restored") /\ Goto("cleanup")
     \/ CanFail /\ UNCHANGED jnl /\ Return("residual")
     \/ FailsLate("restored") /\ Mark("restored") /\ Return("residual")
  /\ UNCHANGED <<file, temps, dirs, residue, healthy>>

-----------------------------------------------------------------------------
(* applyTransactionFS: recover, begin, backup, seal, write *)

\* A process acquires the target guard to apply w.
StartApply(w) ==
  /\ pc = "idle"
  /\ pc' = "residue" /\ task' = "recover" /\ plan' = w /\ result' = "none"
  /\ UNCHANGED <<todo, states, bad, disk, healthy>>

\* recover(): leftovers of interrupted cleanups and of unsealed journals.
Unprepared == IF jnl.at = "prepare" THEN NoJournal ELSE jnl

RemoveResidue ==
  /\ pc = "residue"
  /\ \/ residue' = FALSE /\ jnl' = Unprepared /\ Goto("inspect")
     \/ CanFail /\ residue' \in {residue, FALSE} /\ UNCHANGED jnl /\ Return("residual")
     \/ CanFail /\ residue' = FALSE /\ jnl' = Unprepared /\ Return("residual")
  /\ UNCHANGED <<file, temps, dirs, healthy>>

\* recover(): the markers and the header decide what is left to do.
Inspect ==
  /\ pc = "inspect"
  /\ \/ /\ jnl.at = "none"
        /\ pc' = "begin" /\ task' = "apply" /\ UNCHANGED <<todo, states, bad, result, plan>>
     \/ /\ jnl.at = "journal" /\ ~Unsettled /\ ~({"committed", "restored"} \subseteq jnl.marks)
        /\ Goto("cleanup")
     \/ /\ Unsettled /\ Admissible(jnl)
        /\ pc' = "temps" /\ states' = jnl.entries
        /\ UNCHANGED <<task, plan, todo, bad, result>>
     \/ /\ jnl.at = "journal"
        /\ \/ CanFail
           \/ {"committed", "restored"} \subseteq jnl.marks
           \/ Unsettled /\ ~Admissible(jnl)
        /\ Return("residual")
  /\ UNCHANGED <<disk, healthy>>

BeginJournal ==
  /\ pc = "begin"
  /\ \/ /\ jnl.at = "none" /\ ~residue
        /\ jnl' = [NoJournal EXCEPT !.at = "prepare"]
        /\ pc' = "backup" /\ todo' = Touched(plan)
        /\ UNCHANGED <<task, plan, states, bad, result>>
     \/ /\ CanFail
        /\ jnl' \in {jnl, [NoJournal EXCEPT !.at = "prepare"]}
        /\ pc' = "cleanup" /\ task' = "abandon"
        /\ UNCHANGED <<plan, todo, states, bad, result>>
  /\ UNCHANGED <<file, temps, dirs, residue, healthy>>

\* abort() before the journal is sealed only cleans up.
AbortUnsealed ==
  /\ pc' = "cleanup" /\ task' = "abort" /\ todo' = {}
  /\ UNCHANGED <<plan, states, bad, result>>

\* backup(): whether the resource exists, and a copy of it if so.
Saved(p) == jnl' = [jnl EXCEPT !.entries = @ \cup {p},
                               !.kept = IF file[p] = Absent THEN @ ELSE @ \cup {p},
                               !.backup[p] = file[p]]

Backup(p) ==
  /\ pc = "backup" /\ First(p)
  /\ \/ /\ Saved(p)
        /\ states' = states \cup {p}
        /\ todo' = todo \ {p}
        /\ pc' = IF todo' = {} THEN "seal" ELSE "backup"
        /\ UNCHANGED <<task, plan, bad, result>>
     \/ CanFail /\ UNCHANGED jnl /\ AbortUnsealed
  /\ UNCHANGED <<file, temps, dirs, residue, healthy>>

\* Seeded fault (Recoverable): the journal is published before its marker.
SealedUnmarked == jnl' = [jnl EXCEPT !.at = "journal",
                                     !.planned = {DirOf[p] : p \in states} \ dirs]

\* seal(): refuse stale temporaries, write header and marker, publish by rename.
Sealed == jnl' = [jnl EXCEPT !.at = "journal", !.marks = {"prepared"},
                             !.planned = {DirOf[p] : p \in states} \ dirs]

Seal ==
  /\ pc = "seal"
  /\ \/ /\ temps \cap states = {} /\ Sealed
        /\ pc' = "write" /\ todo' = states
        /\ UNCHANGED <<task, plan, states, bad, result>>
     \/ (CanFail \/ temps \cap states # {}) /\ UNCHANGED jnl /\ AbortUnsealed
     \/ FailsLate("seal") /\ temps \cap states = {} /\ Sealed /\ AbortUnsealed
  /\ UNCHANGED <<file, temps, dirs, residue, healthy>>

\* abort() of a sealed journal, and Rollback().
RollBack(for) ==
  /\ pc' = "temps" /\ task' = for /\ todo' = {}
  /\ UNCHANGED <<plan, states, bad, result>>

\* A write failure aborts the apply, or makes the finalizer roll it back.
Undo == RollBack(IF task = "finalize" THEN "rollback" ELSE "abort")

\* write(): ensureParents makes the directories the journal lists,
\* then atomicWrite makes the exclusive temporary ...
WriteTemp(p) ==
  /\ pc = "write" /\ First(p)
  /\ \/ /\ p \notin temps /\ DirOf[p] \in dirs \cup jnl.planned
        /\ dirs' = dirs \cup {DirOf[p]} /\ temps' = temps \cup {p}
        /\ Goto("writeRename")
     \/ /\ CanFail \/ p \in temps \/ DirOf[p] \notin dirs \cup jnl.planned
        /\ dirs' \in {dirs, dirs \cup ({DirOf[p]} \cap jnl.planned)}
        /\ UNCHANGED temps /\ Undo
  /\ UNCHANGED <<file, jnl, residue, healthy>>

\* ... and its rename over the resource.
WriteRename(p) ==
  /\ pc = "writeRename" /\ First(p)
  /\ \/ /\ file' = [file EXCEPT ![p] = plan[p]] /\ temps' = temps \ {p}
        /\ \/ /\ todo' = todo \ {p}
              /\ pc' = IF todo' = {} THEN "held" ELSE "write"
              /\ UNCHANGED <<task, plan, states, bad, result>>
           \/ FailsLate("write") /\ Undo
     \/ CanFail /\ UNCHANGED file /\ temps' \in {temps, temps \ {p}} /\ Undo
  /\ UNCHANGED <<dirs, jnl, residue, healthy>>

-----------------------------------------------------------------------------
(* The journal is active: its caller rewrites one of its resources at most *)
(* once, then commits it or rolls it back                                  *)

\* The finalizer writes the rendered configuration over a backed resource.
CallRewrite(p, c) ==
  /\ pc = "held" /\ task = "apply" /\ p \in states
  /\ pc' = "write" /\ task' = "finalize" /\ todo' = {p} /\ plan' = [plan EXCEPT ![p] = c]
  /\ UNCHANGED <<states, bad, result, disk, healthy>>

CallRollback ==
  /\ pc = "held"
  /\ RollBack("rollback")
  /\ UNCHANGED <<disk, healthy>>

CallCommit ==
  /\ pc = "held"
  /\ pc' = "mark" /\ task' = "commit"
  /\ UNCHANGED <<plan, todo, states, bad, result, disk, healthy>>

\* Seeded fault (DecidedIsFinal): an unconfirmed marker rolls back.
MarkCommittedOrUndo ==
  /\ pc = "mark"
  /\ \/ Mark("committed") /\ Goto("cleanup")
     \/ CanFail /\ UNCHANGED jnl /\ RollBack("rollback")
     \/ FailsLate("commit") /\ Mark("committed") /\ RollBack("rollback")
  /\ UNCHANGED <<file, temps, dirs, residue, healthy>>

\* Commit(): without a confirmed marker it neither cleans up nor rolls back.
MarkCommitted ==
  /\ pc = "mark"
  /\ \/ Mark("committed") /\ Goto("cleanup")
     \/ CanFail /\ UNCHANGED jnl /\ Return("commit_failed")
     \/ FailsLate("commit") /\ Mark("committed") /\ Return("commit_failed")
  /\ UNCHANGED <<file, temps, dirs, residue, healthy>>

-----------------------------------------------------------------------------
(* Environment *)

\* The owner dies; the operating system drops its guard.
Crash ==
  /\ pc # "idle" /\ CanFail
  /\ Return("none")
  /\ UNCHANGED <<disk, healthy>>

\* Somebody else writes or deletes a file while no owner runs.
Edit(p, c) ==
  /\ pc = "idle" /\ ~healthy
  /\ c # Absent => DirOf[p] \in dirs
  /\ file' = [file EXCEPT ![p] = c]
  /\ UNCHANGED <<temps, dirs, jnl, residue, owner, healthy>>

Heal == ~healthy /\ healthy' = TRUE /\ UNCHANGED <<disk, owner>>

-----------------------------------------------------------------------------
Init ==
  /\ file \in [Paths -> Value]
  /\ dirs \in SUBSET Dirs
  /\ \A p \in Paths : file[p] # Absent => DirOf[p] \in dirs
  /\ temps = {} /\ jnl = NoJournal /\ residue = FALSE
  /\ pc = "idle" /\ task = "none" /\ plan = NoPlan /\ todo = {} /\ states = {}
  /\ bad = FALSE /\ result = "none" /\ healthy = FALSE

\* cleanup and restoration, whoever calls them
Settle ==
  \/ CleanupPrepare \/ CleanupJournal \/ Purge
  \/ RemoveTemps \/ RestoreDone \/ RemoveCreatedDirs \/ MarkRestored
  \/ \E p \in Paths : RestoreAbsent(p) \/ RestoreTemp(p) \/ RestoreRename(p)

Advance ==
  \/ RemoveResidue \/ Inspect \/ BeginJournal \/ Seal
  \/ \E p \in Paths : Backup(p) \/ WriteTemp(p) \/ WriteRename(p)

Rewrite == \E p \in Paths, c \in Content : CallRewrite(p, c)

Owner == Settle \/ Advance \/ Rewrite \/ CallRollback \/ CallCommit \/ MarkCommitted

Next ==
  \/ Owner
  \/ \E w \in Plans : StartApply(w)
  \/ Crash \/ Heal
  \/ \E p \in Editable, c \in Value : Edit(p, c)

Spec == Init /\ [][Next]_vars

\* The owner keeps running unless it dies, and the command is run again.
FairSpec == Spec /\ WF_vars(Owner) /\ WF_vars(\E w \in Plans : StartApply(w))

-----------------------------------------------------------------------------
\* The shape of the state.
TypeOK ==
  /\ file \in [Paths -> Value] /\ temps \in SUBSET Paths /\ dirs \in SUBSET Dirs
  /\ jnl \in Journal /\ residue \in BOOLEAN
  /\ pc \in Pcs /\ task \in Tasks /\ result \in Results
  /\ plan \in [Paths -> Value] /\ todo \in SUBSET Paths /\ states \in SUBSET Paths
  /\ bad \in BOOLEAN /\ healthy \in BOOLEAN

\* The target as it stands once the journal on disk is settled.
Logical == [p \in Paths |-> IF Unsettled /\ p \in jnl.entries THEN jnl.backup[p] ELSE file[p]]

Phase == CASE pc = "idle" -> "quiet"
           [] task = "commit" /\ pc \notin {"idle", "mark"} -> "installed"
           [] OTHER -> "pending"

Atomic == INSTANCE AtomicTarget
            WITH store <- Logical, phase <- Phase, report <- result

\* Whatever fails or dies, an apply installs its whole plan or nothing, and
\* reports which (applyTransactionFSWithWait, Commit, Rollback, recover).
AllOrNothing == Atomic!ASpec

\* No failure or death leaves a journal that recover() refuses: one marker at
\* most decides it, and an undecided one still has every backup it names.
Recoverable ==
  jnl.at = "journal" =>
    /\ ~({"committed", "restored"} \subseteq jnl.marks)
    /\ Unsettled => Admissible(jnl)

\* A durable marker decides the journal for good (Commit, abort, recover):
\* whoever owns the target afterwards only cleans up, so a death in between
\* cannot be half installed or half restored.
DecidedIsFinal ==
  [][pc # "idle" /\ jnl.marks \cap {"committed", "restored"} # {} => file' = file]_vars

\* Temporaries and created directories never outlive the journal that lists
\* them: a temporary left behind would make every later seal() refuse, and a
\* restored or vanished journal can no longer remove a directory.
NoOrphans ==
  /\ pc = "idle" /\ ~Unsettled => temps = {}
  /\ temps # {} => jnl.at = "journal" /\ temps \subseteq jnl.entries
  /\ "restored" \in jnl.marks /\ pc # "idle" => jnl.planned \cap dirs = {}

\* Once failures stop and the command is run again, the journal of a dead or
\* failed owner is settled: it never blocks the target for good.
EventuallySettled == (healthy /\ Unsettled) ~> ~Unsettled

\* Every apply ends: no outcome leaves the owner waiting on its own journal.
EveryApplyEnds == (pc # "idle") ~> (pc = "idle")

\* Nothing waits for ever: neither the caller of an apply nor the target
\* (applyTransactionFSWithWait, recover).
Settles == EventuallySettled /\ EveryApplyEnds
=============================================================================
