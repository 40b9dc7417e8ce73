-------------------------- MODULE ProfileAuthority --------------------------
(***************************************************************************)
(* The writer authority of the profile store on unix                       *)
(* (profile_store_unix.go, profile_store_authority.go).  The lock is a     *)
(* flock on the state file itself or, while there is no state file, on an  *)
(* empty sidecar beside it.  Every commit replaces the state file by a new *)
(* inode, so that the lock moves from inode to inode while others have     *)
(* the old ones open; a first commit also removes the sidecar.             *)
(*                                                                         *)
(* Each action is one system call.  The contents of the state file are a   *)
(* member of Docs; what a completion makes of the contents it read is the  *)
(* business of ProfileStore, here it is any other document.                *)
(***************************************************************************)
EXTENDS Naturals, FiniteSets

CONSTANTS
  Procs,        \* processes with a completion to perform
  Inodes,       \* inodes of the store's directory
  Docs,         \* contents of the state file
  Absent,       \* there is no state file
  None,         \* no inode
  Nobody,       \* no process
  Faults        \* the steps at which the operating system may fail

ASSUME AbsentAssumption == Absent \notin Docs
ASSUME NoneAssumption == None \notin Inodes
ASSUME NobodyAssumption == Nobody \notin Procs
ASSUME InodesAssumption == \E i, j \in Inodes : i # j

VARIABLES
  stateLeaf,    \* the inode under the state file's name
  lockLeaf,     \* the inode under the sidecar's name
  doc,          \* the contents of the state file
  flock,        \* who has locked each inode
  pc,           \* where each process is
  budget,       \* its wait budget: "zero", "left" or "spent"
  st, sc,       \* the state file and the sidecar it has open
  owns,         \* it has created its sidecar (ownsSidecar)
  tmp,          \* its temporary file
  prior, next,  \* the contents it has read, and those it publishes
  outcome       \* what it was told last

disk == <<stateLeaf, lockLeaf, doc>>
mine == <<budget, st, sc, owns, tmp, prior, next>>
pvars == <<disk, flock, pc, outcome, mine>>

Value == Docs \cup {Absent}
Acquiring == {"state", "lockState", "checkState", "create", "open", "recreate", "reopen",
              "lockSidecar", "checkSidecar", "again", "lockBoth", "checkBoth"}
\* Where the owner may still change the state file.
Writing == {"read", "write", "replace", "sync", "unlink", "undo", "undoTemp", "undoReplace",
            "hold", "heldRestore", "heldLock", "heldUnlink", "heldTemp", "heldReplace"}
Pcs == {"idle", "undone", "release", "unlock"} \cup Acquiring \cup Writing
Outcomes == {"none", "ok", "restored", "busy", "timeout", "conflict", "invalid", "io", "residual"}

InUse(i) ==
  \/ i \in {stateLeaf, lockLeaf} \/ flock[i] # Nobody
  \/ \E p \in Procs : i \in {st[p], sc[p], tmp[p]}
Fresh == CHOOSE i \in Inodes : ~InUse(i)
CanCreate == \E i \in Inodes : ~InUse(i)

Held(p) == {i \in Inodes : flock[i] = p}
MayFail(step) == step \in Faults
Goto(p, s) == pc' = [pc EXCEPT ![p] = s]
Tell(p, o) == outcome' = [outcome EXCEPT ![p] = o]
Unlock(S) == flock' = [i \in Inodes |-> IF i \in S THEN Nobody ELSE flock[i]]
TakeLock(p, i) == flock[i] = Nobody /\ flock' = [flock EXCEPT ![i] = p]

\* An acquisition gives up: what it had open is closed, nothing is unlinked.
Abandon(p) ==
  /\ Unlock(Held(p))
  /\ st' = [st EXCEPT ![p] = None] /\ sc' = [sc EXCEPT ![p] = None]
  /\ tmp' = [tmp EXCEPT ![p] = None] /\ owns' = [owns EXCEPT ![p] = FALSE]
  /\ prior' = [prior EXCEPT ![p] = Absent] /\ next' = [next EXCEPT ![p] = Absent]
  /\ UNCHANGED disk

Leave(p) == Abandon(p) /\ Goto(p, "idle") /\ budget' = [budget EXCEPT ![p] = "left"]
Refuse(p, o) == Leave(p) /\ Tell(p, o)

\* Seeded fault (TypeOK): contention is an outcome of its own.
ContendedUncoded(p) ==
  \/ budget[p] # "left" /\ Refuse(p, "contended")
  \/ budget[p] = "left" /\ Abandon(p) /\ Goto(p, "state") /\ UNCHANGED <<budget, outcome>>

\* Seeded fault (EveryCompletionEnds): the deadline is not looked at.
ContendedPatiently(p) ==
  \/ budget[p] = "zero" /\ Refuse(p, "busy")
  \/ budget[p] # "zero" /\ Abandon(p) /\ Goto(p, "state") /\ UNCHANGED <<budget, outcome>>

\* Contention: busy, timed out, or polled for again.
Contended(p) ==
  \/ budget[p] = "zero" /\ Refuse(p, "busy")
  \/ budget[p] = "spent" /\ Refuse(p, "timeout")
  \/ budget[p] = "left" /\ Abandon(p) /\ Goto(p, "state") /\ UNCHANGED <<budget, outcome>>

-----------------------------------------------------------------------------
(* Acquire, tryUnixAuthority *)

Start(p, b) ==
  /\ pc[p] = "idle"
  /\ Goto(p, "state") /\ Tell(p, "none")
  /\ budget' = [budget EXCEPT ![p] = b]
  /\ UNCHANGED <<disk, flock, st, sc, owns, tmp, prior, next>>

\* Canonical and revalidate: the directory or a leaf is not a safe one.
PathRefused(p) == pc[p] = "state" /\ MayFail("path") /\ Refuse(p, "invalid")

Expire(p) ==
  /\ pc[p] \in Acquiring /\ budget[p] = "left"
  /\ budget' = [budget EXCEPT ![p] = "spent"]
  /\ UNCHANGED <<disk, flock, pc, outcome, st, sc, owns, tmp, prior, next>>

\* The state file, if there is one ...
OpenState(p) ==
  /\ pc[p] = "state"
  /\ st' = [st EXCEPT ![p] = stateLeaf]
  /\ Goto(p, IF stateLeaf = None THEN "create" ELSE "lockState")
  /\ UNCHANGED <<disk, flock, outcome, budget, sc, owns, tmp, prior, next>>

LockState(p) ==
  /\ pc[p] = "lockState"
  /\ \/ /\ TakeLock(p, st[p]) /\ Goto(p, "checkState")
        /\ UNCHANGED <<disk, outcome, mine>>
     \/ flock[st[p]] # Nobody /\ Contended(p)

CheckState(p) ==
  /\ pc[p] = "checkState"
  /\ \/ st[p] = stateLeaf /\ Goto(p, "read") /\ UNCHANGED <<disk, flock, outcome, mine>>
     \/ st[p] # stateLeaf /\ Refuse(p, "invalid")

\* ... or else the sidecar: openUnixAuthorityLeaf creates it exclusively, opens
\* an existing one, and tries that twice.
CreateSidecar(p, here, there) ==
  /\ pc[p] = here
  /\ IF lockLeaf = None
     THEN /\ CanCreate
          /\ lockLeaf' = Fresh /\ sc' = [sc EXCEPT ![p] = Fresh]
          /\ owns' = [owns EXCEPT ![p] = TRUE]
          /\ Goto(p, "lockSidecar")
     ELSE Goto(p, there) /\ UNCHANGED <<lockLeaf, sc, owns>>
  /\ UNCHANGED <<stateLeaf, doc, flock, outcome, budget, st, tmp, prior, next>>

OpenSidecar(p) ==
  /\ pc[p] \in {"open", "reopen"}
  /\ IF lockLeaf # None
     THEN /\ sc' = [sc EXCEPT ![p] = lockLeaf] /\ Goto(p, "lockSidecar")
          /\ UNCHANGED <<disk, flock, outcome, budget, st, owns, tmp, prior, next>>
     ELSE IF pc[p] = "open" THEN Goto(p, "recreate") /\ UNCHANGED <<disk, flock, outcome, mine>>
     ELSE Refuse(p, "invalid")

LockSidecar(p) ==
  /\ pc[p] = "lockSidecar"
  /\ \/ /\ TakeLock(p, sc[p]) /\ Goto(p, "checkSidecar")
        /\ UNCHANGED <<disk, outcome, mine>>
     \/ flock[sc[p]] # Nobody /\ Contended(p)

CheckSidecar(p) ==
  /\ pc[p] = "checkSidecar"
  /\ \/ sc[p] = lockLeaf /\ Goto(p, "again") /\ UNCHANGED <<disk, flock, outcome, mine>>
     \/ sc[p] # lockLeaf /\ Refuse(p, "invalid")

\* Under the sidecar the state file is looked for again, and locked as well.
OpenAgain(p) ==
  /\ pc[p] = "again"
  /\ st' = [st EXCEPT ![p] = stateLeaf]
  /\ Goto(p, IF stateLeaf = None THEN "read" ELSE "lockBoth")
  /\ UNCHANGED <<disk, flock, outcome, budget, sc, owns, tmp, prior, next>>

LockBoth(p) ==
  /\ pc[p] = "lockBoth"
  /\ \/ /\ TakeLock(p, st[p]) /\ Goto(p, "checkBoth")
        /\ UNCHANGED <<disk, outcome, mine>>
     \/ flock[st[p]] # Nobody /\ Contended(p)

CheckBoth(p) ==
  /\ pc[p] = "checkBoth"
  /\ \/ st[p] = stateLeaf /\ Goto(p, "read") /\ UNCHANGED <<disk, flock, outcome, mine>>
     \/ st[p] # stateLeaf /\ Refuse(p, "invalid")

AcquireFails(p) == pc[p] \in Acquiring /\ MayFail("acquire") /\ Refuse(p, "io")

Acquire(p) ==
  \/ OpenState(p) \/ LockState(p) \/ CheckState(p)
  \/ CreateSidecar(p, "create", "open") \/ CreateSidecar(p, "recreate", "reopen")
  \/ OpenSidecar(p) \/ LockSidecar(p) \/ CheckSidecar(p)
  \/ OpenAgain(p) \/ LockBoth(p) \/ CheckBoth(p)

-----------------------------------------------------------------------------
(* Read and Commit *)

Finish(p, o) == Goto(p, "release") /\ Tell(p, o)
\* Complete() releases at once; beginHeldProfileCompletion leaves a lease open
\* for its caller's decision.
Committed(p) == Finish(p, "ok") \/ (Goto(p, "hold") /\ UNCHANGED outcome)

\* The state is read under the authority; the completion conflicts with it, is
\* already there, or has something to publish.
Read(p) ==
  /\ pc[p] = "read"
  /\ \/ /\ MayFail("path") \/ st[p] \notin {None, stateLeaf}
        /\ Finish(p, "invalid") /\ UNCHANGED <<prior, next>>
     \/ /\ st[p] \in {None, stateLeaf}
        /\ LET seen == IF st[p] = None THEN Absent ELSE doc IN
           /\ prior' = [prior EXCEPT ![p] = seen]
           /\ \/ Finish(p, "conflict") /\ UNCHANGED next
              \/ /\ seen # Absent /\ next' = [next EXCEPT ![p] = seen]
                 /\ Committed(p)
              \/ \E d \in Docs \ {seen} :
                   next' = [next EXCEPT ![p] = d] /\ Goto(p, "write") /\ UNCHANGED outcome
  /\ UNCHANGED <<disk, flock, budget, st, sc, owns, tmp>>

\* Seeded fault (OneWriter): the temporary is not locked before it is renamed.
WriteTempUnlocked(p, here, there, o) ==
  /\ pc[p] = here /\ CanCreate
  /\ tmp' = [tmp EXCEPT ![p] = Fresh]
  /\ Goto(p, there) /\ UNCHANGED <<outcome, flock>>
  /\ UNCHANGED <<disk, budget, st, sc, owns, prior, next>>

\* writeTemp: an exclusive temporary, written, synced and locked.
WriteTemp(p, here, there, o) ==
  /\ pc[p] = here
  /\ \/ /\ CanCreate
        /\ tmp' = [tmp EXCEPT ![p] = Fresh] /\ flock' = [flock EXCEPT ![Fresh] = p]
        /\ Goto(p, there) /\ UNCHANGED outcome
     \/ MayFail("temp") /\ Finish(p, o) /\ UNCHANGED <<tmp, flock>>
  /\ UNCHANGED <<disk, budget, st, sc, owns, prior, next>>

\* The temporary takes the state file's name, or is dropped.
Publish(p, d) ==
  /\ stateLeaf' = tmp[p] /\ doc' = d
  /\ st' = [st EXCEPT ![p] = tmp[p]] /\ tmp' = [tmp EXCEPT ![p] = None]
  /\ UNCHANGED <<lockLeaf, flock>>
Drop(p) ==
  /\ tmp' = [tmp EXCEPT ![p] = None] /\ Unlock({tmp[p]})
  /\ UNCHANGED <<disk, st>>

Replace(p) ==
  /\ pc[p] = "replace"
  /\ \/ Publish(p, next[p]) /\ Goto(p, "sync") /\ UNCHANGED outcome
     \/ MayFail("replace") /\ Drop(p) /\ Finish(p, "io")
  /\ UNCHANGED <<budget, sc, owns, prior, next>>

Undo(p) == Goto(p, IF prior[p] = Absent THEN "undo" ELSE "undoTemp") /\ UNCHANGED outcome

\* A first commit removes the sidecar once the rename is durable.
Sync(p) ==
  /\ pc[p] = "sync"
  /\ \/ prior[p] = Absent /\ Goto(p, "unlink") /\ UNCHANGED outcome
     \/ prior[p] # Absent /\ Committed(p)
     \/ MayFail("sync") /\ Undo(p)
  /\ UNCHANGED <<disk, flock, mine>>

\* Seeded fault (OwnSidecarOnly): whatever has the sidecar's name is unlinked,
\* and again on release.
RemoveSidecarByName(p) == lockLeaf' = None /\ UNCHANGED <<stateLeaf, doc, owns>>

\* removeSidecar unlinks the name only while it is this owner's locked inode.
RemoveSidecar(p) ==
  /\ IF sc[p] # None /\ sc[p] = lockLeaf
     THEN lockLeaf' = None /\ owns' = [owns EXCEPT ![p] = FALSE]
     ELSE UNCHANGED <<lockLeaf, owns>>
  /\ UNCHANGED <<stateLeaf, doc>>

Unlink(p) ==
  /\ pc[p] = "unlink"
  /\ \/ RemoveSidecar(p) /\ Committed(p)
     \/ MayFail("sidecar") /\ UNCHANGED <<disk, owns>> /\ Undo(p)
     \/ MayFail("sidecarSync") /\ RemoveSidecar(p) /\ Undo(p)
  /\ UNCHANGED <<flock, budget, st, sc, tmp, prior, next>>

\* restore(): the file is unlinked if there was none, replaced otherwise.
UndoUnlink(p) ==
  /\ pc[p] = "undo"
  /\ \/ stateLeaf' = None /\ doc' = Absent /\ Goto(p, "undone") /\ UNCHANGED outcome
     \/ MayFail("undo") /\ UNCHANGED <<stateLeaf, doc>> /\ Finish(p, "residual")
  /\ UNCHANGED <<lockLeaf, flock, mine>>

UndoReplace(p) ==
  /\ pc[p] = "undoReplace"
  /\ \/ Publish(p, prior[p]) /\ Goto(p, "undone") /\ UNCHANGED outcome
     \/ MayFail("undo") /\ Drop(p) /\ Finish(p, "residual")
  /\ UNCHANGED <<budget, sc, owns, prior, next>>

Undone(p) ==
  /\ pc[p] = "undone"
  /\ Finish(p, "io") \/ (MayFail("undo") /\ Finish(p, "residual"))
  /\ UNCHANGED <<disk, flock, mine>>

-----------------------------------------------------------------------------
(* The lease: commit, restoreHeld *)

KeepHeld(p) ==
  /\ pc[p] = "hold"
  /\ Finish(p, "ok") /\ UNCHANGED <<disk, flock, mine>>

\* Seeded fault (Serialized): a lease is given back and its publication stays.
GiveBackNothing(p) ==
  /\ pc[p] = "hold"
  /\ Finish(p, "restored") /\ UNCHANGED <<disk, flock, mine>>

GiveBack(p) ==
  /\ pc[p] = "hold"
  /\ \/ prior[p] = next[p] /\ Finish(p, "restored")
     \/ prior[p] # next[p] /\ Goto(p, "heldRestore") /\ UNCHANGED outcome
  /\ UNCHANGED <<disk, flock, mine>>

\* The absence of the state file can only be restored under a sidecar; the one
\* removed by the commit is created again, and must not be there already.
HeldRestore(p) ==
  /\ pc[p] = "heldRestore"
  /\ \/ /\ MayFail("held") /\ Finish(p, "residual") /\ UNCHANGED <<disk, sc, owns>>
     \/ /\ prior[p] # Absent /\ Goto(p, "heldTemp")
        /\ UNCHANGED <<disk, outcome, sc, owns>>
     \/ /\ prior[p] = Absent /\ sc[p] # None /\ sc[p] = lockLeaf
        /\ Goto(p, "heldUnlink") /\ UNCHANGED <<disk, outcome, sc, owns>>
     \/ /\ prior[p] = Absent /\ lockLeaf = None /\ CanCreate
        /\ lockLeaf' = Fresh /\ sc' = [sc EXCEPT ![p] = Fresh]
        /\ owns' = [owns EXCEPT ![p] = TRUE]
        /\ Goto(p, "heldLock") /\ UNCHANGED <<stateLeaf, doc, outcome>>
     \/ /\ prior[p] = Absent /\ lockLeaf \notin {None, sc[p]}
        /\ Finish(p, "residual") /\ UNCHANGED <<disk, sc, owns>>
  /\ UNCHANGED <<flock, budget, st, tmp, prior, next>>

\* The sidecar is recorded as the lease's own only once it is locked.
HeldLock(p) ==
  /\ pc[p] = "heldLock"
  /\ \/ /\ TakeLock(p, sc[p]) /\ Goto(p, "heldUnlink")
        /\ UNCHANGED <<outcome, sc, owns>>
     \/ /\ flock[sc[p]] # Nobody /\ Finish(p, "residual") /\ UNCHANGED flock
        /\ sc' = [sc EXCEPT ![p] = None] /\ owns' = [owns EXCEPT ![p] = FALSE]
  /\ UNCHANGED <<disk, budget, st, tmp, prior, next>>

HeldUnlink(p) ==
  /\ pc[p] = "heldUnlink"
  /\ \/ /\ st[p] \in {None, stateLeaf}
        /\ stateLeaf' = None /\ doc' = Absent /\ st' = [st EXCEPT ![p] = None]
        /\ Finish(p, "restored") \/ (MayFail("held") /\ Finish(p, "residual"))
     \/ /\ MayFail("held") \/ st[p] \notin {None, stateLeaf}
        /\ Finish(p, "residual") /\ UNCHANGED <<stateLeaf, doc, st>>
  /\ UNCHANGED <<lockLeaf, flock, budget, sc, owns, tmp, prior, next>>

HeldReplace(p) ==
  /\ pc[p] = "heldReplace"
  /\ \/ /\ Publish(p, prior[p])
        /\ Finish(p, "restored") \/ (MayFail("held") /\ Finish(p, "residual"))
     \/ MayFail("held") /\ Drop(p) /\ Finish(p, "residual")
  /\ UNCHANGED <<budget, sc, owns, prior, next>>

-----------------------------------------------------------------------------
(* Release: the sidecar this owner created goes first, then the locks. *)

Release(p) ==
  /\ pc[p] = "release"
  /\ \/ owns[p] /\ RemoveSidecar(p) /\ UNCHANGED outcome
     \/ ~owns[p] /\ UNCHANGED <<disk, owns, outcome>>
     \/ /\ MayFail("release") /\ owns[p] /\ UNCHANGED <<disk, owns>>
        /\ Tell(p, IF outcome[p] \in {"restored", "residual"} THEN "residual" ELSE "io")
  /\ Goto(p, "unlock")
  /\ UNCHANGED <<flock, budget, st, sc, tmp, prior, next>>

Close(p) ==
  /\ pc[p] = "unlock"
  /\ Leave(p) /\ UNCHANGED outcome

\* The process is killed: its locks go, its files stay.
Die(p) ==
  /\ pc[p] # "idle" /\ MayFail("death")
  /\ Refuse(p, "none")

-----------------------------------------------------------------------------
First == CHOOSE i \in Inodes : TRUE
Second == CHOOSE i \in Inodes \ {First} : TRUE

\* A store that exists or not, with the sidecar of a dead process or not.
Init ==
  /\ stateLeaf \in {None, First} /\ doc \in Value
  /\ (stateLeaf = None) <=> (doc = Absent)
  /\ lockLeaf \in {None} \cup (IF MayFail("death") THEN {Second} ELSE {})
  /\ flock = [i \in Inodes |-> Nobody]
  /\ pc = [p \in Procs |-> "idle"] /\ outcome = [p \in Procs |-> "none"]
  /\ budget = [p \in Procs |-> "left"]
  /\ st = [p \in Procs |-> None] /\ sc = [p \in Procs |-> None]
  /\ tmp = [p \in Procs |-> None] /\ owns = [p \in Procs |-> FALSE]
  /\ prior = [p \in Procs |-> Absent] /\ next = [p \in Procs |-> Absent]

Commit(p) ==
  \/ Read(p) \/ WriteTemp(p, "write", "replace", "io") \/ Replace(p) \/ Sync(p) \/ Unlink(p)
  \/ UndoUnlink(p) \/ WriteTemp(p, "undoTemp", "undoReplace", "residual")
  \/ UndoReplace(p) \/ Undone(p)

Decide(p) == KeepHeld(p) \/ GiveBack(p)
GiveUp(p) ==
  \/ HeldRestore(p) \/ HeldLock(p) \/ HeldUnlink(p)
  \/ WriteTemp(p, "heldTemp", "heldReplace", "residual") \/ HeldReplace(p)

Step(p) == Acquire(p) \/ Commit(p) \/ Decide(p) \/ GiveUp(p) \/ Release(p) \/ Close(p)

Next ==
  \E p \in Procs :
    \/ \E b \in {"zero", "left"} : Start(p, b)
    \/ Step(p) \/ Expire(p) \/ PathRefused(p) \/ AcquireFails(p) \/ Die(p)

Spec == Init /\ [][Next]_pvars

\* A completion is a sequential program that never blocks: it polls, and the
\* monotonic clock reaches its deadline.  Nothing is assumed of failures.
FairSpec == Spec /\ \A p \in Procs : WF_pvars(Step(p)) /\ WF_pvars(Expire(p))

-----------------------------------------------------------------------------
\* The shape of the state.
TypeOK ==
  /\ stateLeaf \in Inodes \cup {None} /\ lockLeaf \in Inodes \cup {None} /\ doc \in Value
  /\ flock \in [Inodes -> Procs \cup {Nobody}]
  /\ pc \in [Procs -> Pcs] /\ outcome \in [Procs -> Outcomes]
  /\ owns \in [Procs -> BOOLEAN]
  /\ budget \in [Procs -> {"zero", "left", "spent"}]
  /\ st \in [Procs -> Inodes \cup {None}] /\ sc \in [Procs -> Inodes \cup {None}]
  /\ tmp \in [Procs -> Inodes \cup {None}]
  /\ prior \in [Procs -> Value] /\ next \in [Procs -> Value]

\* Although the lock moves between inodes, at most one process is where it may
\* still change the state file (tryUnixAuthority, Commit, restoreHeld).
OneWriter == \A p, q \in Procs : pc[p] \in Writing /\ pc[q] \in Writing => p = q

\* A commit replaces exactly the contents it has read, and a restoration takes
\* back exactly the contents that its own commit has published: no writer ever
\* overwrites another's work (Commit, restore, restoreHeld).  Serialized, below,
\* says more.
ActsOnWhatItRead ==
  [][\A p \in Procs : doc' # doc /\ pc'[p] # pc[p] =>
       IF pc[p] = "replace" THEN doc = prior[p] ELSE doc = next[p]]_pvars

\* The name of the sidecar is only taken from an inode that the process doing
\* so has locked (removeSidecar): nobody removes a live owner's authority.
OwnSidecarOnly ==
  [][lockLeaf # None /\ lockLeaf' # lockLeaf =>
       \E p \in Procs : flock[lockLeaf] = p /\ pc'[p] # pc[p]]_pvars

\* Who has the store, and what it has found there.
Writers == {p \in Procs : pc[p] \in Writing}
Owner == IF Writers = {} THEN Nobody ELSE CHOOSE p \in Writers : TRUE
Base == IF Writers = {} THEN Absent
        ELSE IF pc[Owner] = "read" THEN doc ELSE prior[Owner]

Exclusive == INSTANCE ExclusiveStore WITH owner <- Owner, base <- Base, told <- outcome

\* Whatever locks, inodes and names do, a completion has the store for itself:
\* it publishes over what it has read, takes back its own publication only,
\* and is told "ok" when its contents stand and otherwise, short of a residual
\* risk, when they are as they were (tryUnixAuthority, Commit, restoreHeld).
Serialized == Exclusive!ESpec

\* Whatever the others do, every completion gets its answer (Acquire polls to
\* a deadline and holds no lock while it sleeps).
EveryCompletionEnds == \A p \in Procs : pc[p] # "idle" ~> pc[p] = "idle"

\* When nobody is at work, no sidecar is left behind (specification, B13).
NoAuthorityResidue == (\A p \in Procs : pc[p] = "idle") => lockLeaf = None

\* A contender is told busy, timeout or its turn, not that the path is unsafe.
ContentionIsNotUnsafe == \A p \in Procs : outcome[p] # "invalid"

\* A lease that meets no failure can be given back (restoreHeld).
LeaseCanBeGivenBack == \A p \in Procs : outcome[p] # "residual"

\* The authority lasts until the rollback of a failed commit is durable.
AuthorityCoversRollback ==
  \A p, q \in Procs : pc[p] = "undone" /\ pc[q] \in Writing => p = q
=============================================================================
