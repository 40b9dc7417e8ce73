----------------------- MODULE ProfileAuthorityProofs -----------------------
(***************************************************************************)
(* The writer authority of the profile store for every number of processes *)
(* and inodes: although its lock moves from the sidecar to the state file  *)
(* and from inode to inode, one process at most is where it may write.     *)
(***************************************************************************)
EXTENDS ProfileAuthority, TLAPS

USE DEF Acquiring, Writing, Pcs, Outcomes, Value

\* It has not yet opened a sidecar; it has one open; it has locked it, if any.
Early == {"idle", "state", "lockState", "checkState", "create", "open", "recreate", "reopen"}
Opened == {"lockSidecar", "checkSidecar", "again", "lockBoth", "checkBoth", "heldLock"}
Locked == Pcs \ {"lockSidecar", "heldLock"}

\* What it has read is replaced, what it publishes is in place.
Published == {"sync", "unlink", "undo", "undoTemp", "undoReplace", "hold", "heldRestore",
              "heldLock", "heldUnlink", "heldTemp", "heldReplace"}

SidecarOK(p) ==
  /\ pc[p] \in Early => sc[p] = None
  /\ pc[p] \in Opened => sc[p] # None
  /\ pc[p] \in Locked /\ sc[p] # None => flock[sc[p]] = p
  /\ pc[p] \in {"again", "lockBoth", "checkBoth"} => sc[p] = lockLeaf

StateOK(p) ==
  /\ pc[p] \in {"lockState", "checkState", "lockBoth", "checkBoth"} => st[p] # None
  /\ pc[p] \in {"checkState", "checkBoth"} => flock[st[p]] = p

TempOK(p) ==
  /\ tmp[p] # None => /\ flock[tmp[p]] = p /\ tmp[p] # sc[p]
                      /\ pc[p] \notin Acquiring \cup {"idle"}
  /\ pc[p] \in {"replace", "undoReplace", "heldReplace"} => tmp[p] # None

\* The authority of a writer: the lock on the state file that has the name or,
\* while there is none, on the sidecar that has its name.
HasAuthority(p) ==
  \/ st[p] # None /\ st[p] = stateLeaf /\ flock[st[p]] = p
  \/ /\ st[p] = None /\ stateLeaf = None /\ pc[p] \notin Published
     /\ sc[p] # None /\ sc[p] = lockLeaf

ContentOK(p) ==
  /\ pc[p] \in {"write", "replace"} => doc = prior[p] /\ next[p] \in Docs
  /\ pc[p] \in Published => doc = next[p]
  /\ pc[p] \in {"undoTemp", "undoReplace", "heldTemp", "heldReplace"} => prior[p] # Absent

\* What is true of a process wherever it is, and what is of a writer besides.
Steady(p) == SidecarOK(p) /\ StateOK(p) /\ TempOK(p)
WriterOK(p) == (pc[p] \in Writing => HasAuthority(p)) /\ ContentOK(p)

WInv ==
  /\ TypeOK
  /\ stateLeaf = None <=> doc = Absent
  /\ \A p \in Procs : Steady(p) /\ WriterOK(p)

-----------------------------------------------------------------------------
\* A new inode is one that nobody has open, locked or under a name.
LEMMA FreshIsFree ==
  ASSUME CanCreate
  PROVE  Fresh \in Inodes /\ ~InUse(Fresh)
BY DEF CanCreate, Fresh

\* Two writers would both have the lock of the one inode that is the authority.
LEMMA AuthorityIsOne == WInv => OneWriter
<1> SUFFICES ASSUME WInv, NEW p \in Procs, NEW q \in Procs, pc[p] \in Writing, pc[q] \in Writing
             PROVE  p = q
  BY DEF OneWriter
<1>1. HasAuthority(p) /\ HasAuthority(q)  BY DEF WInv, WriterOK
<1>2. CASE st[p] # None /\ st[q] # None  BY <1>1, <1>2 DEF HasAuthority
<1>3. CASE st[p] = None \/ st[q] = None
  <2>1. st[p] = None /\ st[q] = None /\ sc[p] = lockLeaf /\ sc[q] = lockLeaf /\ lockLeaf # None
        /\ pc[p] \notin Published /\ pc[q] \notin Published
    BY <1>1, <1>3 DEF HasAuthority
  <2>2. pc[p] \in Locked /\ pc[q] \in Locked  BY <2>1 DEF Locked, Published
  <2> QED  BY <2>1, <2>2 DEF WInv, Steady, SidecarOK
<1> QED  BY <1>2, <1>3

\* What a step of q leaves to the others: their own state and locks, the name
\* of a sidecar they have locked and, unless q writes, the state file.
Spares(q) ==
  /\ \A p \in Procs \ {q} :
       /\ pc'[p] = pc[p] /\ st'[p] = st[p] /\ sc'[p] = sc[p] /\ tmp'[p] = tmp[p]
       /\ prior'[p] = prior[p] /\ next'[p] = next[p]
       /\ \A i \in Inodes : flock[i] = p => flock'[i] = p
  /\ lockLeaf # None /\ lockLeaf' # lockLeaf => flock[lockLeaf] = q
  /\ pc[q] \notin Writing => UNCHANGED <<stateLeaf, doc>>

\* Whoever is spared keeps its part of the invariant.
LEMMA OthersSpared ==
  ASSUME WInv, NEW q \in Procs, Spares(q), NEW p \in Procs, p # q
  PROVE  Steady(p)' /\ WriterOK(p)'
<1> USE DEF WInv, Steady, WriterOK, TypeOK
<1>1. /\ pc'[p] = pc[p] /\ st'[p] = st[p] /\ sc'[p] = sc[p] /\ tmp'[p] = tmp[p]
      /\ prior'[p] = prior[p] /\ next'[p] = next[p]
      /\ \A i \in Inodes : flock[i] = p => flock'[i] = p
  BY DEF Spares
<1>2. sc[p] # None /\ sc[p] = lockLeaf /\ pc[p] \in Locked => lockLeaf' = lockLeaf
  BY DEF Spares, SidecarOK
<1>3. SidecarOK(p)'  BY <1>1, <1>2 DEF SidecarOK, Locked, Opened
<1>4. StateOK(p)'  BY <1>1 DEF StateOK
<1>5. TempOK(p)'  BY <1>1 DEF TempOK
<1>6. CASE pc[p] \notin Writing
  BY <1>1, <1>3, <1>4, <1>5, <1>6 DEF ContentOK, Published
<1>7. CASE pc[p] \in Writing
  <2>1. pc[q] \notin Writing  BY <1>7, AuthorityIsOne DEF OneWriter
  <2>2. UNCHANGED <<stateLeaf, doc>>  BY <2>1 DEF Spares
  <2>3. HasAuthority(p)'
    <3>1. CASE st[p] # None  BY <1>1, <1>7, <2>2, <3>1 DEF HasAuthority
    <3>2. CASE st[p] = None
      <4>1. pc[p] \in Locked  BY <1>7, <3>2 DEF HasAuthority, Locked, Published
      <4> QED  BY <1>1, <1>2, <1>7, <2>2, <3>2, <4>1 DEF HasAuthority
    <3> QED  BY <3>1, <3>2
  <2>4. ContentOK(p)'  BY <1>1, <2>2 DEF ContentOK
  <2> QED  BY <1>3, <1>4, <1>5, <2>3, <2>4
<1> QED  BY <1>6, <1>7

\* So a step has to be looked at for the process that takes it.
LEMMA StepOfOne ==
  ASSUME WInv, NEW q \in Procs, Spares(q), TypeOK', (stateLeaf = None <=> doc = Absent)',
         Steady(q)', WriterOK(q)'
  PROVE  WInv'
BY OthersSpared DEF WInv

-----------------------------------------------------------------------------
(* Types *)

\* Giving up an acquisition, or its poll, keeps the types.
LEMMA LeaveType ==
  ASSUME TypeOK, NEW p \in Procs, Abandon(p)
  PROVE  /\ flock' \in [Inodes -> Procs \cup {Nobody}] /\ owns' \in [Procs -> BOOLEAN]
         /\ st' \in [Procs -> Inodes \cup {None}] /\ sc' \in [Procs -> Inodes \cup {None}]
         /\ tmp' \in [Procs -> Inodes \cup {None}]
         /\ prior' \in [Procs -> Value] /\ next' \in [Procs -> Value]
         /\ UNCHANGED <<stateLeaf, lockLeaf, doc>>
BY DEF TypeOK, Abandon, Unlock, disk

\* So does being refused.
LEMMA RefuseType == ASSUME TypeOK, NEW p \in Procs, NEW o \in Outcomes, Refuse(p, o)  PROVE TypeOK'
BY LeaveType DEF Refuse, Leave, TypeOK, Goto, Tell

\* And meeting a lock.
LEMMA ContendedType == ASSUME TypeOK, NEW p \in Procs, Contended(p)  PROVE TypeOK'
<1>1. CASE Refuse(p, "busy") \/ Refuse(p, "timeout")  BY <1>1, RefuseType
<1>2. CASE Abandon(p) /\ Goto(p, "state") /\ UNCHANGED <<budget, outcome>>
  BY <1>2, LeaveType DEF TypeOK, Goto
<1> QED  BY <1>1, <1>2 DEF Contended

\* The steps of an acquisition keep the types.
LEMMA AcquireType == ASSUME TypeOK, NEW p \in Procs, Acquire(p)  PROVE TypeOK'
<1> USE DEF TypeOK, Goto, disk, mine
<1>1. CASE OpenState(p)  BY <1>1 DEF OpenState
<1>2. CASE LockState(p) \/ LockSidecar(p) \/ LockBoth(p)
  BY <1>2, ContendedType DEF LockState, LockSidecar, LockBoth, TakeLock
<1>3. CASE CheckState(p) \/ CheckSidecar(p) \/ CheckBoth(p)
  BY <1>3, RefuseType DEF CheckState, CheckSidecar, CheckBoth
<1>4. ASSUME NEW here, NEW there \in Pcs, CreateSidecar(p, here, there)  PROVE TypeOK'
  BY <1>4, FreshIsFree DEF CreateSidecar
<1>5. CASE OpenSidecar(p)  BY <1>5, RefuseType DEF OpenSidecar
<1>6. CASE OpenAgain(p)  BY <1>6 DEF OpenAgain
<1> QED  BY <1>1, <1>2, <1>3, <1>4, <1>5, <1>6 DEF Acquire

\* A temporary is an inode like the others.
LEMMA WriteTempType ==
  ASSUME TypeOK, NEW p \in Procs, NEW here, NEW there \in Pcs, NEW o \in Outcomes,
         WriteTemp(p, here, there, o)
  PROVE  TypeOK'
BY FreshIsFree DEF WriteTemp, TypeOK, Goto, Finish, Tell, disk

\* So do those of a commit and of a lease.
LEMMA CommitType == ASSUME TypeOK, NEW p \in Procs, Commit(p) \/ Decide(p) \/ GiveUp(p)  PROVE TypeOK'
<1>0. \A here : \A there \in Pcs : \A o \in Outcomes : WriteTemp(p, here, there, o) => TypeOK'
  BY WriteTempType
<1> USE DEF TypeOK, Goto, Tell, Finish, disk, mine
<1>1. CASE Read(p)
  <2>1. (IF st[p] = None THEN Absent ELSE doc) \in Value  OBVIOUS
  <2>2. next' \in [Procs -> Value] /\ prior' \in [Procs -> Value]  BY <1>1, <2>1 DEF Read
  <2>3. pc' \in [Procs -> Pcs] /\ outcome' \in [Procs -> Outcomes]  BY <1>1 DEF Read, Committed
  <2> QED  BY <1>1, <2>2, <2>3 DEF Read
<1>2. CASE Replace(p) \/ UndoReplace(p) \/ HeldReplace(p)
  BY <1>2 DEF Replace, UndoReplace, HeldReplace, Publish, Drop, Unlock
<1>3. CASE Sync(p) \/ Undone(p) \/ UndoUnlink(p)
  BY <1>3 DEF Sync, Undone, UndoUnlink, Committed, Undo
<1>4. CASE Unlink(p)  BY <1>4 DEF Unlink, RemoveSidecar, Committed, Undo
<1>5. CASE KeepHeld(p) \/ GiveBack(p)  BY <1>5 DEF KeepHeld, GiveBack
<1>6. CASE HeldRestore(p)
  <2>1. /\ lockLeaf' \in Inodes \cup {None} /\ sc' \in [Procs -> Inodes \cup {None}]
        /\ owns' \in [Procs -> BOOLEAN]
    <3>1. \/ UNCHANGED <<lockLeaf, sc, owns>>
          \/ /\ CanCreate /\ lockLeaf' = Fresh
             /\ sc' = [sc EXCEPT ![p] = Fresh] /\ owns' = [owns EXCEPT ![p] = TRUE]
      BY <1>6 DEF HeldRestore
    <3> QED  BY <3>1, FreshIsFree
  <2>2. pc' \in [Procs -> Pcs] /\ outcome' \in [Procs -> Outcomes]  BY <1>6 DEF HeldRestore
  <2>3. UNCHANGED <<stateLeaf, doc, flock, budget, st, tmp, prior, next>>
    BY <1>6 DEF HeldRestore
  <2> QED  BY <2>1, <2>2, <2>3
<1>7. CASE HeldLock(p) \/ HeldUnlink(p)  BY <1>7 DEF HeldLock, HeldUnlink, TakeLock
<1> QED
  BY <1>0, <1>1, <1>2, <1>3, <1>4, <1>5, <1>6, <1>7 DEF Commit, Decide, GiveUp

\* Every step keeps the types.
LEMMA TypeStep == TypeOK /\ [Next]_pvars => TypeOK'
<1> SUFFICES ASSUME TypeOK, [Next]_pvars PROVE TypeOK'  OBVIOUS
<1>1. ASSUME NEW p \in Procs, Step(p)  PROVE TypeOK'
  <2>1. CASE Release(p)
    BY <2>1 DEF Release, RemoveSidecar, TypeOK, Goto, Tell, disk
  <2>2. CASE Close(p)  BY <2>2, LeaveType DEF Close, Leave, TypeOK, Goto
  <2> QED  BY <1>1, <2>1, <2>2, AcquireType, CommitType DEF Step
<1>2. ASSUME NEW p \in Procs, NEW b \in {"zero", "left"}, Start(p, b)  PROVE TypeOK'
  BY <1>2 DEF Start, TypeOK, Goto, Tell, disk
<1>3. ASSUME NEW p \in Procs, Expire(p)  PROVE TypeOK'
  BY <1>3 DEF Expire, TypeOK, disk
<1>4. ASSUME NEW p \in Procs, PathRefused(p) \/ AcquireFails(p) \/ Die(p)  PROVE TypeOK'
  BY <1>4, RefuseType DEF PathRefused, AcquireFails, Die
<1>5. CASE UNCHANGED pvars  BY <1>5 DEF pvars, disk, mine, TypeOK
<1> QED  BY <1>1, <1>2, <1>3, <1>4, <1>5 DEF Next
-----------------------------------------------------------------------------
(* The invariant *)

\* What a step of p has to keep.
Kept(p) == Spares(p) /\ (stateLeaf = None <=> doc = Absent)' /\ Steady(p)' /\ WriterOK(p)'

\* At first nobody has anything.
LEMMA InitWInv == Init => WInv
<1> SUFFICES ASSUME Init PROVE WInv  OBVIOUS
<1>1. TypeOK
  <2>1. stateLeaf \in Inodes \cup {None} /\ lockLeaf \in Inodes \cup {None}
    BY InodesAssumption DEF Init, First, Second
  <2> QED  BY <2>1 DEF Init, TypeOK
<1>2. \A p \in Procs : Steady(p) /\ WriterOK(p)
  BY DEF Init, Steady, SidecarOK, StateOK, TempOK, WriterOK, ContentOK, Published, Opened
<1> QED  BY <1>1, <1>2 DEF Init, WInv

\* Who gives up has nothing any more.
LEMMA AbandonKept ==
  ASSUME WInv, NEW p \in Procs, Abandon(p), NEW s \in {"idle", "state"}, Goto(p, s)
  PROVE  Kept(p)
<1> USE DEF WInv, TypeOK, Abandon, Goto, disk
<1>1. Spares(p)  BY DEF Spares, Unlock, Held
<1>2. Steady(p)'  BY DEF Steady, SidecarOK, StateOK, TempOK, Opened
<1>3. WriterOK(p)'  BY DEF WriterOK, ContentOK, Published
<1> QED  BY <1>1, <1>2, <1>3 DEF Kept

\* Whoever is refused, or killed, has given up.
LEMMA RefuseKept == ASSUME WInv, NEW p \in Procs, NEW o, Refuse(p, o)  PROVE Kept(p)
BY AbandonKept DEF Refuse, Leave

\* So has who meets a lock, whether or not it tries again.
LEMMA ContendedKept == ASSUME WInv, NEW p \in Procs, Contended(p)  PROVE Kept(p)
BY AbandonKept, RefuseKept DEF Contended

\* The steps of an acquisition: at its end the lock is on what has the name.
LEMMA AcquireKept == ASSUME WInv, NEW p \in Procs, Acquire(p)  PROVE Kept(p)
<1>0. TypeOK /\ (stateLeaf = None <=> doc = Absent) /\ Steady(p) /\ WriterOK(p)
      /\ SidecarOK(p) /\ StateOK(p) /\ TempOK(p)
  BY DEF WInv, Steady
<1>1. CASE OpenState(p)
  <2> USE <1>1 DEF OpenState, Goto, disk
  <2>1. Spares(p)  BY <1>0 DEF TypeOK, Spares
  <2>2. SidecarOK(p)' /\ StateOK(p)' /\ TempOK(p)'
    <3>1. SidecarOK(p)'  BY <1>0 DEF TypeOK, SidecarOK, Early, Opened, Locked
    <3>2. StateOK(p)'  BY <1>0 DEF TypeOK, StateOK
    <3>3. TempOK(p)'  BY <1>0 DEF TypeOK, TempOK
    <3> QED  BY <3>1, <3>2, <3>3
  <2>3. WriterOK(p)'  BY <1>0 DEF TypeOK, WriterOK, ContentOK, Published
  <2> QED  BY <1>0, <2>1, <2>2, <2>3 DEF Kept, Steady
<1>2. CASE LockState(p) \/ LockSidecar(p) \/ LockBoth(p)
  <2>1. CASE Contended(p)  BY <2>1, ContendedKept
  <2>2. CASE ~Contended(p)
    <3>2. UNCHANGED <<stateLeaf, lockLeaf, doc>> /\ UNCHANGED mine
          /\ \/ /\ pc[p] = "lockState" /\ pc' = [pc EXCEPT ![p] = "checkState"]
                /\ TakeLock(p, st[p])
             \/ /\ pc[p] = "lockSidecar" /\ pc' = [pc EXCEPT ![p] = "checkSidecar"]
                /\ TakeLock(p, sc[p])
             \/ /\ pc[p] = "lockBoth" /\ pc' = [pc EXCEPT ![p] = "checkBoth"]
                /\ TakeLock(p, st[p])
      BY <1>2, <2>2 DEF LockState, LockSidecar, LockBoth, Goto, disk
    <3>1. /\ pc[p] = "lockSidecar" => sc[p] \in Inodes
          /\ pc[p] \in {"lockState", "lockBoth"} => st[p] \in Inodes
      BY <1>0 DEF TypeOK, SidecarOK, StateOK, Opened
    <3>3. Spares(p)  BY <1>0, <3>1, <3>2, NobodyAssumption DEF TypeOK, Spares, TakeLock, mine
    <3>4. SidecarOK(p)' /\ StateOK(p)' /\ TempOK(p)'
      <4>1. SidecarOK(p)'  BY <1>0, <3>1, <3>2 DEF TypeOK, SidecarOK, Early, Opened, Locked, TakeLock, mine
      <4>2. StateOK(p)'  BY <1>0, <3>1, <3>2 DEF TypeOK, StateOK, TakeLock, mine
      <4>3. TempOK(p)'  BY <1>0, <3>1, <3>2 DEF TypeOK, TempOK, TakeLock, mine
      <4> QED  BY <4>1, <4>2, <4>3
    <3>5. WriterOK(p)'  BY <1>0, <3>2 DEF TypeOK, WriterOK, ContentOK, Published
    <3> QED  BY <1>0, <3>2, <3>3, <3>4, <3>5 DEF Kept, Steady
  <2> QED  BY <2>1, <2>2
<1>3. CASE CheckState(p) \/ CheckSidecar(p) \/ CheckBoth(p)
  <2>1. CASE Refuse(p, "invalid")  BY <2>1, RefuseKept
  <2>2. CASE ~Refuse(p, "invalid")
    <3>1. UNCHANGED <<stateLeaf, lockLeaf, doc, flock, mine>>
          /\ \/ pc[p] \in {"checkState", "checkBoth"} /\ st[p] = stateLeaf
                /\ pc' = [pc EXCEPT ![p] = "read"]
             \/ pc[p] = "checkSidecar" /\ sc[p] = lockLeaf /\ pc' = [pc EXCEPT ![p] = "again"]
      BY <1>3, <2>2 DEF CheckState, CheckSidecar, CheckBoth, Goto, disk
    <3>2. Spares(p)  BY <1>0, <3>1 DEF TypeOK, Spares, mine
    <3>3. SidecarOK(p)' /\ StateOK(p)' /\ TempOK(p)'
      <4>1. SidecarOK(p)'  BY <1>0, <3>1 DEF TypeOK, SidecarOK, Early, Opened, Locked, mine
      <4>2. StateOK(p)'  BY <1>0, <3>1 DEF TypeOK, StateOK, mine
      <4>3. TempOK(p)'  BY <1>0, <3>1 DEF TypeOK, TempOK, mine
      <4> QED  BY <4>1, <4>2, <4>3
    <3>4. WriterOK(p)'
      BY <1>0, <3>1 DEF TypeOK, WriterOK, ContentOK, Published, HasAuthority, StateOK, mine
    <3> QED  BY <1>0, <3>1, <3>2, <3>3, <3>4 DEF Kept, Steady
  <2> QED  BY <2>1, <2>2
<1>4. ASSUME NEW here \in {"create", "recreate"}, NEW there \in {"open", "reopen"},
             CreateSidecar(p, here, there)
      PROVE  Kept(p)
  <2> USE <1>4 DEF CreateSidecar, Goto
  <2>1. Spares(p)  BY <1>0 DEF TypeOK, Spares
  <2>2. SidecarOK(p)' /\ StateOK(p)' /\ TempOK(p)'
    <3>1. SidecarOK(p)'
      BY <1>0, FreshIsFree, NoneAssumption DEF TypeOK, SidecarOK, Early, Opened, Locked
    <3>2. StateOK(p)'  BY <1>0, FreshIsFree DEF TypeOK, StateOK
    <3>3. TempOK(p)'  BY <1>0, FreshIsFree DEF TypeOK, TempOK
    <3> QED  BY <3>1, <3>2, <3>3
  <2>3. WriterOK(p)'  BY <1>0 DEF TypeOK, WriterOK, ContentOK, Published
  <2> QED  BY <1>0, <2>1, <2>2, <2>3 DEF Kept, Steady
<1>5. CASE OpenSidecar(p)
  <2>1. CASE Refuse(p, "invalid")  BY <2>1, RefuseKept
  <2>2. CASE ~Refuse(p, "invalid")
    <3>1. /\ UNCHANGED <<stateLeaf, lockLeaf, doc, flock, st, tmp, prior, next>>
          /\ pc[p] \in {"open", "reopen"}
          /\ \/ /\ lockLeaf # None /\ sc' = [sc EXCEPT ![p] = lockLeaf]
                /\ pc' = [pc EXCEPT ![p] = "lockSidecar"]
             \/ sc' = sc /\ pc' = [pc EXCEPT ![p] = "recreate"]
      BY <1>5, <2>2 DEF OpenSidecar, Goto, disk, mine
    <3>2. Spares(p)  BY <1>0, <3>1 DEF TypeOK, Spares
    <3>3. SidecarOK(p)' /\ StateOK(p)' /\ TempOK(p)'
      <4>1. SidecarOK(p)'  BY <1>0, <3>1 DEF TypeOK, SidecarOK, Early, Opened, Locked
      <4>2. StateOK(p)'  BY <1>0, <3>1 DEF TypeOK, StateOK
      <4>3. TempOK(p)'  BY <1>0, <3>1 DEF TypeOK, TempOK
      <4> QED  BY <4>1, <4>2, <4>3
    <3>4. WriterOK(p)'  BY <1>0, <3>1 DEF TypeOK, WriterOK, ContentOK, Published
    <3> QED  BY <1>0, <3>1, <3>2, <3>3, <3>4 DEF Kept, Steady
  <2> QED  BY <2>1, <2>2
<1>6. CASE OpenAgain(p)
  <2> USE <1>6 DEF OpenAgain, Goto, disk
  <2>1. Spares(p)  BY <1>0 DEF TypeOK, Spares
  <2>2. SidecarOK(p)' /\ StateOK(p)' /\ TempOK(p)'
    <3>1. SidecarOK(p)'  BY <1>0 DEF TypeOK, SidecarOK, Early, Opened, Locked
    <3>2. StateOK(p)'  BY <1>0 DEF TypeOK, StateOK
    <3>3. TempOK(p)'  BY <1>0 DEF TypeOK, TempOK
    <3> QED  BY <3>1, <3>2, <3>3
  <2>3. WriterOK(p)'
    BY <1>0 DEF TypeOK, WriterOK, ContentOK, Published, HasAuthority, SidecarOK, Opened
  <2> QED  BY <1>0, <2>1, <2>2, <2>3 DEF Kept, Steady
<1> QED  BY <1>1, <1>2, <1>3, <1>4, <1>5, <1>6 DEF Acquire

\* A temporary is an inode of its own, locked by who has created it.
LEMMA WriteTempKept ==
  ASSUME WInv, NEW p \in Procs, NEW o,
         \/ WriteTemp(p, "write", "replace", o)
         \/ WriteTemp(p, "undoTemp", "undoReplace", o)
         \/ WriteTemp(p, "heldTemp", "heldReplace", o)
  PROVE  Kept(p)
<1>0. TypeOK /\ (stateLeaf = None <=> doc = Absent) /\ WriterOK(p)
      /\ SidecarOK(p) /\ StateOK(p) /\ TempOK(p)
  BY DEF WInv, Steady
<1>1. /\ UNCHANGED <<stateLeaf, lockLeaf, doc, st, sc, prior, next>>
      /\ pc[p] \in {"write", "undoTemp", "heldTemp"}
      /\ \/ pc[p] = "write" /\ pc' = [pc EXCEPT ![p] = "replace"]
         \/ pc[p] = "undoTemp" /\ pc' = [pc EXCEPT ![p] = "undoReplace"]
         \/ pc[p] = "heldTemp" /\ pc' = [pc EXCEPT ![p] = "heldReplace"]
         \/ pc' = [pc EXCEPT ![p] = "release"]
      /\ \/ UNCHANGED <<tmp, flock>> /\ pc'[p] = "release"
         \/ /\ CanCreate /\ tmp' = [tmp EXCEPT ![p] = Fresh]
            /\ flock' = [flock EXCEPT ![Fresh] = p]
  BY <1>0 DEF WriteTemp, Goto, Finish, disk, TypeOK
<1>2. CanCreate => /\ Fresh \in Inodes /\ Fresh # None /\ flock[Fresh] = Nobody
                   /\ Fresh \notin {st[p], sc[p], tmp[p]}
  BY FreshIsFree, NoneAssumption DEF InUse
<1>3. Spares(p)  BY <1>0, <1>1, <1>2, NobodyAssumption DEF TypeOK, Spares
<1>4. SidecarOK(p)'
  <2>1. sc[p] # None => sc'[p] = sc[p] /\ flock'[sc[p]] = p
    BY <1>0, <1>1, <1>2 DEF TypeOK, SidecarOK, Locked
  <2> QED  BY <1>0, <1>1, <2>1 DEF TypeOK, SidecarOK, Early, Opened
<1>5. StateOK(p)'  BY <1>0, <1>1 DEF TypeOK, StateOK
<1>6. TempOK(p)'  BY <1>0, <1>1, <1>2 DEF TypeOK, TempOK
<1>7. WriterOK(p)'
  BY <1>0, <1>1, <1>2 DEF TypeOK, WriterOK, ContentOK, Published, HasAuthority
<1> QED  BY <1>0, <1>1, <1>3, <1>4, <1>5, <1>6, <1>7 DEF Kept, Steady

\* A temporary that takes the name of the state file takes the authority along.
LEMMA PublishKept ==
  ASSUME WInv, NEW p \in Procs, pc[p] \in {"replace", "undoReplace", "heldReplace"},
         \/ /\ Publish(p, IF pc[p] = "replace" THEN next[p] ELSE prior[p])
            /\ \/ pc[p] = "replace" /\ Goto(p, "sync")
               \/ pc[p] # "replace" /\ \E s \in {"undone", "release"} : Goto(p, s)
         \/ Drop(p) /\ Goto(p, "release"),
         UNCHANGED <<sc, prior, next>>
  PROVE  Kept(p)
<1>0. TypeOK /\ (stateLeaf = None <=> doc = Absent) /\ WriterOK(p)
      /\ SidecarOK(p) /\ StateOK(p) /\ TempOK(p)
  BY DEF WInv, Steady
<1>1. tmp[p] \in Inodes /\ flock[tmp[p]] = p /\ tmp[p] # sc[p]
  BY <1>0 DEF TypeOK, TempOK
<1>2. Spares(p)  BY <1>0, <1>1 DEF TypeOK, Spares, Publish, Drop, Unlock, disk, Goto
<1>3. SidecarOK(p)'
  BY <1>0, <1>1 DEF TypeOK, SidecarOK, Early, Opened, Locked, Publish, Drop, Unlock, disk, Goto
<1>4. StateOK(p)'  BY <1>0 DEF TypeOK, StateOK, Goto
<1>5. TempOK(p)'  BY <1>0 DEF TypeOK, TempOK, Goto, Publish, Drop
<1>6. WriterOK(p)'
  BY <1>0, <1>1, NoneAssumption
  DEF TypeOK, WriterOK, ContentOK, Published, HasAuthority, Publish, Drop, Goto
<1>7. (stateLeaf = None <=> doc = Absent)'
  BY <1>0, <1>1, NoneAssumption, AbsentAssumption DEF WriterOK, ContentOK, Publish, Drop, disk
<1> QED  BY <1>2, <1>3, <1>4, <1>5, <1>6, <1>7 DEF Kept, Steady

\* What a process takes away is its own sidecar.
LEMMA SidecarKept ==
  ASSUME WInv, NEW p \in Procs, pc[p] \in {"unlink", "release"},
         RemoveSidecar(p) \/ UNCHANGED disk,
         \/ pc' = [pc EXCEPT ![p] = "release"]
         \/ pc' = [pc EXCEPT ![p] = "unlock"]
         \/ pc[p] = "unlink" /\ (Goto(p, "hold") \/ Undo(p)),
         UNCHANGED <<flock, st, sc, tmp, prior, next>>
  PROVE  Kept(p)
<1>0. TypeOK /\ (stateLeaf = None <=> doc = Absent) /\ WriterOK(p)
      /\ SidecarOK(p) /\ StateOK(p) /\ TempOK(p)
  BY DEF WInv, Steady
<1>1. /\ UNCHANGED <<stateLeaf, doc>>
      /\ \/ lockLeaf' = lockLeaf
         \/ sc[p] # None /\ sc[p] = lockLeaf /\ lockLeaf' = None
  BY DEF RemoveSidecar, disk
<1>2. \/ pc' = [pc EXCEPT ![p] = "release"] \/ pc' = [pc EXCEPT ![p] = "unlock"]
      \/ pc[p] = "unlink" /\ pc' = [pc EXCEPT ![p] = "hold"]
      \/ pc[p] = "unlink" /\ pc' = [pc EXCEPT ![p] = "undo"]
      \/ pc[p] = "unlink" /\ prior[p] # Absent /\ pc' = [pc EXCEPT ![p] = "undoTemp"]
  BY DEF Goto, Undo
<1>3. Spares(p)  BY <1>0, <1>1, <1>2 DEF TypeOK, Spares, SidecarOK, Locked
<1>4. SidecarOK(p)'  BY <1>0, <1>1, <1>2 DEF TypeOK, SidecarOK, Early, Opened, Locked
<1>5. StateOK(p)' /\ TempOK(p)'  BY <1>0, <1>2 DEF TypeOK, StateOK, TempOK
<1>6. WriterOK(p)'
  BY <1>0, <1>1, <1>2 DEF TypeOK, WriterOK, ContentOK, Published, HasAuthority
<1> QED  BY <1>0, <1>1, <1>3, <1>4, <1>5, <1>6 DEF Kept, Steady

\* A step that only moves its process along, or to its release.
LEMMA MoveKept ==
  ASSUME WInv, NEW p \in Procs,
         UNCHANGED <<stateLeaf, lockLeaf, doc, flock, st, sc, tmp, prior, next>>,
         pc[p] \in {"read", "sync", "unlink", "undo", "hold", "heldRestore", "heldUnlink", "undone"},
         NEW s \in {"release", "hold", "unlink", "undo", "undoTemp", "heldRestore", "heldTemp", "heldUnlink"},
         pc' = [pc EXCEPT ![p] = s],
         s # "release" => pc[p] \in Published,
         s \in {"undoTemp", "heldTemp"} => prior[p] # Absent
  PROVE  Kept(p)
<1>0. TypeOK /\ (stateLeaf = None <=> doc = Absent) /\ WriterOK(p)
      /\ SidecarOK(p) /\ StateOK(p) /\ TempOK(p)
  BY DEF WInv, Steady
<1>1. Spares(p)  BY <1>0 DEF TypeOK, Spares
<1>2. SidecarOK(p)'
  <2>1. sc[p] # None => flock[sc[p]] = p  BY <1>0 DEF TypeOK, SidecarOK, Locked
  <2> QED  BY <1>0, <2>1 DEF TypeOK, SidecarOK, Early, Opened
<1>3. StateOK(p)'  BY <1>0 DEF TypeOK, StateOK
<1>4. TempOK(p)'  BY <1>0 DEF TypeOK, TempOK
<1>5. (pc[p] \in Writing => HasAuthority(p))'
  BY <1>0 DEF TypeOK, WriterOK, Published, HasAuthority
<1>6. ContentOK(p)'  BY <1>0 DEF TypeOK, WriterOK, ContentOK, Published
<1> QED  BY <1>0, <1>1, <1>2, <1>3, <1>4, <1>5, <1>6 DEF Kept, Steady, WriterOK

\* What a writer reads is what the state file holds.
LEMMA ReadKept == ASSUME WInv, NEW p \in Procs, Read(p)  PROVE Kept(p)
<1>0. TypeOK /\ (stateLeaf = None <=> doc = Absent) /\ WriterOK(p)
      /\ SidecarOK(p) /\ StateOK(p) /\ TempOK(p)
  BY DEF WInv, Steady
<1>1. /\ UNCHANGED <<stateLeaf, lockLeaf, doc, flock, st, sc, tmp>> /\ pc[p] = "read"
      /\ \A q \in Procs \ {p} : prior'[q] = prior[q] /\ next'[q] = next[q]
      /\ \E s \in {"release", "hold", "write"} : pc' = [pc EXCEPT ![p] = s]
  BY <1>0 DEF Read, TypeOK, disk, Finish, Committed, Goto
<1>2. HasAuthority(p)  BY <1>0, <1>1 DEF WriterOK
<1>3. pc'[p] # "release" => /\ prior'[p] = doc
                            /\ pc'[p] = "write" => next'[p] \in Docs
                            /\ pc'[p] = "hold" => next'[p] = doc /\ doc # Absent
  <2> DEFINE seen == IF st[p] = None THEN Absent ELSE doc
  <2>1. seen = doc  BY <1>0, <1>1, <1>2 DEF HasAuthority
  <2>2. CASE pc'[p] # "release"
    <3>1. prior' = [prior EXCEPT ![p] = seen]
          /\ \/ seen # Absent /\ next' = [next EXCEPT ![p] = seen] /\ pc'[p] = "hold"
             \/ \E d \in Docs \ {seen} : next' = [next EXCEPT ![p] = d] /\ pc'[p] = "write"
      BY <1>0, <2>2 DEF Read, TypeOK, Finish, Committed, Goto
    <3> QED  BY <1>0, <2>1, <3>1 DEF TypeOK
  <2> QED  BY <2>2
<1>4. Spares(p)  BY <1>0, <1>1 DEF TypeOK, Spares
<1>5. SidecarOK(p)'
  <2>1. sc[p] # None => flock[sc[p]] = p  BY <1>0, <1>1 DEF TypeOK, SidecarOK, Locked
  <2> QED  BY <1>0, <1>1, <2>1 DEF TypeOK, SidecarOK, Early, Opened
<1>6. StateOK(p)' /\ TempOK(p)'  BY <1>0, <1>1 DEF TypeOK, StateOK, TempOK
<1>7. (pc[p] \in Writing => HasAuthority(p))'
  BY <1>0, <1>1, <1>2, <1>3 DEF TypeOK, Published, HasAuthority
<1>8. ContentOK(p)'  BY <1>0, <1>1, <1>3 DEF TypeOK, ContentOK, Published
<1> QED  BY <1>0, <1>1, <1>4, <1>5, <1>6, <1>7, <1>8 DEF Kept, Steady, WriterOK

\* A state file that was not there is unlinked again, with its authority.
LEMMA UnlinkedKept ==
  ASSUME WInv, NEW p \in Procs, pc[p] \in {"undo", "heldUnlink"},
         stateLeaf' = None, doc' = Absent, UNCHANGED <<lockLeaf, flock, sc, tmp, prior, next>>,
         NEW i \in {None, st[p]}, st' = [st EXCEPT ![p] = i],
         NEW s \in {"undone", "release"}, pc' = [pc EXCEPT ![p] = s]
  PROVE  Kept(p)
<1>0. TypeOK /\ (stateLeaf = None <=> doc = Absent) /\ WriterOK(p)
      /\ SidecarOK(p) /\ StateOK(p) /\ TempOK(p)
  BY DEF WInv, Steady
<1>1. Spares(p)  BY <1>0 DEF TypeOK, Spares
<1>2. SidecarOK(p)'
  <2>1. sc[p] # None => flock[sc[p]] = p  BY <1>0 DEF TypeOK, SidecarOK, Locked
  <2> QED  BY <1>0, <2>1 DEF TypeOK, SidecarOK, Early, Opened
<1>3. StateOK(p)' /\ TempOK(p)'  BY <1>0 DEF TypeOK, StateOK, TempOK
<1>4. WriterOK(p)'  BY <1>0 DEF TypeOK, WriterOK, ContentOK, Published
<1> QED  BY <1>0, <1>1, <1>2, <1>3, <1>4 DEF Kept, Steady

\* The sidecar under which a lease is given back.
LEMMA HeldSidecarKept == ASSUME WInv, NEW p \in Procs, HeldRestore(p) \/ HeldLock(p)  PROVE Kept(p)
<1>0. TypeOK /\ (stateLeaf = None <=> doc = Absent) /\ WriterOK(p)
      /\ SidecarOK(p) /\ StateOK(p) /\ TempOK(p)
  BY DEF WInv, Steady
<1>1. CASE HeldRestore(p) /\ UNCHANGED disk
  <2>1. /\ UNCHANGED <<stateLeaf, lockLeaf, doc, flock, st, sc, tmp, prior, next>>
        /\ pc[p] = "heldRestore"
        /\ \/ pc' = [pc EXCEPT ![p] = "release"] \/ pc' = [pc EXCEPT ![p] = "heldUnlink"]
           \/ prior[p] # Absent /\ pc' = [pc EXCEPT ![p] = "heldTemp"]
    BY <1>1, FreshIsFree, NoneAssumption DEF HeldRestore, Goto, Finish, disk
  <2> QED  BY <2>1, MoveKept DEF Published
<1>2. CASE HeldRestore(p) /\ ~UNCHANGED disk
  <2>1. /\ pc[p] = "heldRestore" /\ lockLeaf = None /\ CanCreate
        /\ lockLeaf' = Fresh /\ sc' = [sc EXCEPT ![p] = Fresh]
        /\ pc' = [pc EXCEPT ![p] = "heldLock"]
        /\ UNCHANGED <<stateLeaf, doc, flock, st, tmp, prior, next>>
    BY <1>2 DEF HeldRestore, Goto, Finish, disk
  <2>2. Fresh \in Inodes /\ Fresh # None /\ Fresh # tmp[p]
    BY <2>1, FreshIsFree, NoneAssumption DEF InUse
  <2>3. Spares(p)  BY <1>0, <2>1 DEF TypeOK, Spares
  <2>4. SidecarOK(p)'  BY <1>0, <2>1, <2>2 DEF TypeOK, SidecarOK, Early, Locked
  <2>5. StateOK(p)' /\ TempOK(p)'  BY <1>0, <2>1, <2>2 DEF TypeOK, StateOK, TempOK
  <2>6. WriterOK(p)'
    BY <1>0, <2>1 DEF TypeOK, WriterOK, ContentOK, Published, HasAuthority
  <2> QED  BY <1>0, <2>1, <2>3, <2>4, <2>5, <2>6 DEF Kept, Steady
<1>3. CASE HeldLock(p)
  <2>1. /\ UNCHANGED <<stateLeaf, lockLeaf, doc, st, tmp, prior, next>> /\ pc[p] = "heldLock"
        /\ \/ /\ TakeLock(p, sc[p]) /\ pc' = [pc EXCEPT ![p] = "heldUnlink"] /\ UNCHANGED sc
           \/ /\ pc' = [pc EXCEPT ![p] = "release"] /\ UNCHANGED flock
              /\ sc' = [sc EXCEPT ![p] = None]
    BY <1>3 DEF HeldLock, Goto, Finish, disk
  <2>2. sc[p] \in Inodes  BY <1>0, <2>1 DEF TypeOK, SidecarOK, Opened
  <2>3. Spares(p)  BY <1>0, <2>1, <2>2, NobodyAssumption DEF TypeOK, Spares, TakeLock
  <2>4. SidecarOK(p)'
    BY <1>0, <2>1, <2>2 DEF TypeOK, SidecarOK, Early, Opened, Locked, TakeLock
  <2>5. StateOK(p)' /\ TempOK(p)'  BY <1>0, <2>1, <2>2, NoneAssumption DEF TypeOK, StateOK, TempOK, TakeLock
  <2>6. WriterOK(p)'
    BY <1>0, <2>1, <2>2 DEF TypeOK, WriterOK, ContentOK, Published, HasAuthority, TakeLock
  <2> QED  BY <1>0, <2>1, <2>3, <2>4, <2>5, <2>6 DEF Kept, Steady
<1> QED  BY <1>1, <1>2, <1>3

\* The steps of a commit, and of what becomes of a lease.
LEMMA CommitKept == ASSUME WInv, NEW p \in Procs, Commit(p) \/ Decide(p) \/ GiveUp(p)  PROVE Kept(p)
<1>0. WriterOK(p) /\ TypeOK  BY DEF WInv
<1>1. CASE Read(p)  BY <1>1, ReadKept
<1>2. CASE \/ WriteTemp(p, "write", "replace", "io")
           \/ WriteTemp(p, "undoTemp", "undoReplace", "residual")
           \/ WriteTemp(p, "heldTemp", "heldReplace", "residual")
  BY <1>2, WriteTempKept
<1>3. CASE Replace(p) \/ UndoReplace(p) \/ HeldReplace(p)
  <2>1. pc[p] \in {"replace", "undoReplace", "heldReplace"} /\ UNCHANGED <<sc, prior, next>>
    BY <1>3 DEF Replace, UndoReplace, HeldReplace
  <2>2. \/ /\ Publish(p, IF pc[p] = "replace" THEN next[p] ELSE prior[p])
           /\ \/ pc[p] = "replace" /\ Goto(p, "sync")
              \/ pc[p] # "replace" /\ \E s \in {"undone", "release"} : Goto(p, s)
        \/ Drop(p) /\ Goto(p, "release")
    BY <1>3 DEF Replace, UndoReplace, HeldReplace, Finish
  <2> QED  BY <2>1, <2>2, PublishKept
<1>4. CASE Sync(p) \/ Undone(p) \/ KeepHeld(p) \/ GiveBack(p)
  <2>1. UNCHANGED <<stateLeaf, lockLeaf, doc, flock, st, sc, tmp, prior, next>>
    BY <1>4 DEF Sync, Undone, KeepHeld, GiveBack, disk, mine
  <2>2. \/ pc[p] = "sync" /\ \E s \in {"unlink", "release", "hold", "undo"} : pc' = [pc EXCEPT ![p] = s]
        \/ pc[p] = "sync" /\ prior[p] # Absent /\ pc' = [pc EXCEPT ![p] = "undoTemp"]
        \/ pc[p] \in {"undone", "hold"} /\ pc' = [pc EXCEPT ![p] = "release"]
        \/ pc[p] = "hold" /\ pc' = [pc EXCEPT ![p] = "heldRestore"]
    BY <1>4 DEF Sync, Undone, KeepHeld, GiveBack, Committed, Finish, Undo, Goto
  <2> QED  BY <2>1, <2>2, MoveKept DEF Published
<1>5. CASE Unlink(p)
  <2>1. UNCHANGED <<flock, st, sc, tmp, prior, next>> /\ pc[p] = "unlink"
        /\ (RemoveSidecar(p) \/ UNCHANGED disk)
        /\ \/ pc' = [pc EXCEPT ![p] = "release"]
           \/ Goto(p, "hold")
           \/ Undo(p)
    BY <1>5 DEF Unlink, Committed, Finish, Goto
  <2> QED  BY <2>1, SidecarKept
<1>6. CASE UndoUnlink(p)
  <2>1. pc[p] = "undo" /\ UNCHANGED <<lockLeaf, flock, st, sc, tmp, prior, next>>
        /\ \/ /\ stateLeaf' = None /\ doc' = Absent /\ pc' = [pc EXCEPT ![p] = "undone"]
           \/ UNCHANGED <<stateLeaf, doc>> /\ pc' = [pc EXCEPT ![p] = "release"]
    BY <1>6 DEF UndoUnlink, Goto, Finish, mine
  <2>2. st' = [st EXCEPT ![p] = st[p]]  BY <1>0, <2>1 DEF TypeOK
  <2> QED  BY <2>1, <2>2, MoveKept, UnlinkedKept
<1>7. CASE HeldUnlink(p)
  <2>1. pc[p] = "heldUnlink" /\ UNCHANGED <<lockLeaf, flock, sc, tmp, prior, next>>
        /\ pc' = [pc EXCEPT ![p] = "release"]
        /\ \/ stateLeaf' = None /\ doc' = Absent /\ st' = [st EXCEPT ![p] = None]
           \/ UNCHANGED <<stateLeaf, doc, st>>
    BY <1>7 DEF HeldUnlink, Goto, Finish
  <2> QED  BY <2>1, MoveKept, UnlinkedKept
<1> QED
  BY <1>1, <1>2, <1>3, <1>4, <1>5, <1>6, <1>7, HeldSidecarKept DEF Commit, Decide, GiveUp

\* Every process, whatever it does, keeps what it has to.
LEMMA OneStep ==
  ASSUME WInv, NEW p \in Procs,
         \/ \E b \in {"zero", "left"} : Start(p, b)
         \/ Step(p) \/ Expire(p) \/ PathRefused(p) \/ AcquireFails(p) \/ Die(p)
  PROVE  Kept(p)
<1>0. TypeOK /\ (stateLeaf = None <=> doc = Absent) /\ WriterOK(p)
      /\ SidecarOK(p) /\ StateOK(p) /\ TempOK(p)
  BY DEF WInv, Steady
<1>1. CASE \E b \in {"zero", "left"} : Start(p, b)
  <2>1. pc[p] = "idle" /\ pc' = [pc EXCEPT ![p] = "state"]
        /\ UNCHANGED <<stateLeaf, lockLeaf, doc, flock, st, sc, tmp, prior, next>>
    BY <1>1 DEF Start, Goto, disk
  <2>2. Spares(p)  BY <1>0, <2>1 DEF TypeOK, Spares
  <2>3. SidecarOK(p)'  BY <1>0, <2>1 DEF TypeOK, SidecarOK, Early, Opened
  <2>4. StateOK(p)' /\ TempOK(p)'  BY <1>0, <2>1 DEF TypeOK, StateOK, TempOK
  <2>5. WriterOK(p)'  BY <1>0, <2>1 DEF TypeOK, WriterOK, ContentOK, Published
  <2> QED  BY <1>0, <2>1, <2>2, <2>3, <2>4, <2>5 DEF Kept, Steady
<1>2. CASE Expire(p)
  <2>1. UNCHANGED <<pc, stateLeaf, lockLeaf, doc, flock, st, sc, tmp, prior, next>>
    BY <1>2 DEF Expire, disk
  <2>2. Spares(p)  BY <1>0, <2>1 DEF Spares
  <2>3. Steady(p)'  BY <1>0, <2>1 DEF Steady, SidecarOK, StateOK, TempOK
  <2>4. WriterOK(p)'  BY <1>0, <2>1 DEF WriterOK, ContentOK, HasAuthority
  <2> QED  BY <1>0, <2>1, <2>2, <2>3, <2>4 DEF Kept
<1>3. CASE PathRefused(p) \/ AcquireFails(p) \/ Die(p)
  BY <1>3, RefuseKept DEF PathRefused, AcquireFails, Die
<1>4. CASE Release(p)
  <2>1. pc[p] = "release" /\ UNCHANGED <<flock, st, sc, tmp, prior, next>>
        /\ pc' = [pc EXCEPT ![p] = "unlock"] /\ (RemoveSidecar(p) \/ UNCHANGED disk)
    BY <1>4 DEF Release, Goto
  <2> QED  BY <2>1, SidecarKept
<1>5. CASE Close(p)  BY <1>5, AbandonKept DEF Close, Leave
<1> QED  BY <1>1, <1>2, <1>3, <1>4, <1>5, AcquireKept, CommitKept DEF Step

\* The invariant is inductive.
LEMMA WInvStep == WInv /\ [Next]_pvars => WInv'
<1> SUFFICES ASSUME WInv, [Next]_pvars PROVE WInv'  OBVIOUS
<1>1. TypeOK'  BY TypeStep DEF WInv
<1>2. CASE Next
  <2>1. PICK p \in Procs :
          \/ \E b \in {"zero", "left"} : Start(p, b)
          \/ Step(p) \/ Expire(p) \/ PathRefused(p) \/ AcquireFails(p) \/ Die(p)
    BY <1>2 DEF Next
  <2>2. Kept(p)  BY <2>1, OneStep
  <2> QED  BY <1>1, <2>2, StepOfOne DEF Kept
<1>3. CASE UNCHANGED pvars
  BY <1>3 DEF WInv, TypeOK, Steady, SidecarOK, StateOK, TempOK, WriterOK, ContentOK, HasAuthority,
              pvars, disk, mine
<1> QED  BY <1>2, <1>3

\* The inductive invariant holds of every run.
THEOREM AuthorityInductive == Spec => []WInv
BY InitWInv, WInvStep, PTL DEF Spec

-----------------------------------------------------------------------------
(* What it is for *)

\* One process at most is where it may still change the state file, however
\* many complete at once (tryUnixAuthority, Commit, restoreHeld).
THEOREM OneWriterAtATime == Spec => []OneWriter
BY AuthorityInductive, AuthorityIsOne, PTL

\* The state keeps its shape.
THEOREM AuthorityTypeCorrect == Spec => []TypeOK
<1>1. WInv => TypeOK  BY DEF WInv
<1> QED  BY <1>1, AuthorityInductive, PTL

\* The steps that change the contents, and those that take the sidecar's name.
LEMMA WhoChangesWhat ==
  ASSUME TypeOK, NEW p \in Procs,
         \/ \E b \in {"zero", "left"} : Start(p, b)
         \/ Step(p) \/ Expire(p) \/ PathRefused(p) \/ AcquireFails(p) \/ Die(p)
  PROVE  /\ doc' # doc => pc[p] = "replace" \/ pc[p] \in Published
         /\ lockLeaf # None /\ lockLeaf' # lockLeaf => pc'[p] # pc[p]
<1>1. CASE \/ \E b \in {"zero", "left"} : Start(p, b)
           \/ Expire(p) \/ PathRefused(p) \/ AcquireFails(p) \/ Die(p) \/ Close(p)
  BY <1>1 DEF Start, Expire, PathRefused, AcquireFails, Die, Close, Refuse, Leave, Abandon, disk
<1>2. CASE Acquire(p)
  <2>1. doc' = doc /\ (lockLeaf # None => lockLeaf' = lockLeaf)
    BY <1>2 DEF Acquire, OpenState, LockState, CheckState, CreateSidecar, OpenSidecar, LockSidecar,
       CheckSidecar, OpenAgain, LockBoth, CheckBoth, Contended, Refuse, Leave, Abandon, disk
  <2> QED  BY <2>1
<1>3. CASE Read(p) \/ Sync(p) \/ Undone(p) \/ Decide(p) \/ HeldLock(p)
           \/ WriteTemp(p, "write", "replace", "io")
           \/ WriteTemp(p, "undoTemp", "undoReplace", "residual")
           \/ WriteTemp(p, "heldTemp", "heldReplace", "residual")
  BY <1>3 DEF Read, Sync, Undone, Decide, KeepHeld, GiveBack, HeldLock, WriteTemp, disk
<1>4. CASE Unlink(p) \/ Release(p)
  <2>1. doc' = doc  BY <1>4 DEF Unlink, Release, RemoveSidecar, disk
  <2>2. pc'[p] # pc[p]
    BY <1>4 DEF Unlink, Release, Committed, Finish, Undo, Goto, TypeOK
  <2> QED  BY <2>1, <2>2
<1>5. CASE Replace(p) \/ UndoUnlink(p) \/ UndoReplace(p) \/ HeldUnlink(p) \/ HeldReplace(p)
  <2>1. pc[p] \in {"replace", "undo", "undoReplace", "heldUnlink", "heldReplace"}
    BY <1>5 DEF Replace, UndoUnlink, UndoReplace, HeldUnlink, HeldReplace
  <2>2. lockLeaf' = lockLeaf
    BY <1>5 DEF Replace, UndoUnlink, UndoReplace, HeldUnlink, HeldReplace, Publish, Drop, disk
  <2> QED  BY <2>1, <2>2 DEF Published
<1>6. CASE HeldRestore(p)
  BY <1>6 DEF HeldRestore, disk
<1> QED  BY <1>1, <1>2, <1>3, <1>4, <1>5, <1>6 DEF Step, Commit, GiveUp

\* The sidecar's name is only taken from an inode that who takes it has locked
\* (removeSidecar), so a live owner keeps its authority.
THEOREM SidecarsSpared == Spec => OwnSidecarOnly
<1>1. ASSUME WInv, Next, lockLeaf # None, lockLeaf' # lockLeaf
      PROVE  \E p \in Procs : flock[lockLeaf] = p /\ pc'[p] # pc[p]
  <2>1. PICK p \in Procs :
          \/ \E b \in {"zero", "left"} : Start(p, b)
          \/ Step(p) \/ Expire(p) \/ PathRefused(p) \/ AcquireFails(p) \/ Die(p)
    BY <1>1 DEF Next
  <2>2. Spares(p)  BY <1>1, <2>1, OneStep DEF Kept
  <2>3. pc'[p] # pc[p]  BY <1>1, <2>1, WhoChangesWhat DEF WInv
  <2> QED  BY <1>1, <2>2, <2>3 DEF Spares
<1>2. WInv /\ [Next]_pvars => [lockLeaf # None /\ lockLeaf' # lockLeaf =>
        \E p \in Procs : flock[lockLeaf] = p /\ pc'[p] # pc[p]]_pvars
  BY <1>1
<1> QED  BY <1>2, AuthorityInductive, PTL DEF Spec, OwnSidecarOnly

\* A commit replaces the contents it has read and a restoration those that its
\* own commit has published (Commit, restore, restoreHeld): no writer ever
\* overwrites the work of another.
THEOREM NobodyIsOverwritten == Spec => ActsOnWhatItRead
<1>1. ASSUME WInv, Next, doc' # doc, NEW q \in Procs, pc'[q] # pc[q]
      PROVE  IF pc[q] = "replace" THEN doc = prior[q] ELSE doc = next[q]
  <2>1. PICK p \in Procs :
          \/ \E b \in {"zero", "left"} : Start(p, b)
          \/ Step(p) \/ Expire(p) \/ PathRefused(p) \/ AcquireFails(p) \/ Die(p)
    BY <1>1 DEF Next
  <2>2. Spares(p)  BY <1>1, <2>1, OneStep DEF Kept
  <2>3. q = p  BY <1>1, <2>2 DEF Spares
  <2>4. pc[p] = "replace" \/ pc[p] \in Published  BY <1>1, <2>1, WhoChangesWhat DEF WInv
  <2>5. ContentOK(p)  BY <1>1 DEF WInv, WriterOK
  <2> QED  BY <2>3, <2>4, <2>5 DEF ContentOK
<1>2. WInv /\ [Next]_pvars => [\A p \in Procs : doc' # doc /\ pc'[p] # pc[p] =>
        IF pc[p] = "replace" THEN doc = prior[p] ELSE doc = next[p]]_pvars
  BY <1>1
<1> QED  BY <1>2, AuthorityInductive, PTL DEF Spec, ActsOnWhatItRead

-----------------------------------------------------------------------------
(* The abstract store *)

\* What a commit publishes is a document other than what it has read, and only
\* the absence of the state file is restored by unlinking it.
PublishesOK(p) ==
  /\ pc[p] \in {"write", "replace"} \cup Published => next[p] \in Docs
  /\ pc[p] \in ({"write", "replace"} \cup Published) \ {"hold"} => next[p] # prior[p]
  /\ pc[p] \in {"undo", "heldLock", "heldUnlink"} => prior[p] = Absent

SInv == WInv /\ \A p \in Procs : PublishesOK(p)

\* What a writer has found in the store.
Found(p) == IF pc[p] = "read" THEN doc ELSE prior[p]

Hears(p, o) == outcome' = [outcome EXCEPT ![p] = o]

\* What a step of a writer is to the store: nothing, ...
Works(p) ==
  /\ pc'[p] \in Writing
  /\ doc' = doc /\ outcome' = outcome /\ Found(p)' = Found(p)
\* ... the publication, ...
Publishes(p) ==
  /\ pc'[p] \in Writing
  /\ doc = Found(p) /\ doc' \in Docs \ {doc} /\ outcome' = outcome /\ Found(p)' = Found(p)
\* ... the answer, ...
Answers(p) ==
  /\ pc'[p] \notin Writing
  /\ doc' = doc
  /\ \E o \in Exclusive!Unchanged \cup {"ok", "residual"} :
       /\ o = "ok" => doc \in Docs
       /\ o \in Exclusive!Unchanged => doc = Found(p)
       /\ Hears(p, o)
\* ... or the restoration.
TakesBack(p) ==
  /\ pc'[p] \notin Writing
  /\ doc # Found(p) /\ doc' = Found(p)
  /\ outcome' = outcome \/ \E o \in {"restored", "residual"} : Hears(p, o)

WriterStep(p) == Works(p) \/ Publishes(p) \/ Answers(p) \/ TakesBack(p)

\* The steps that leave the file alone and what was read and is published too.
LEMMA MoveEffect ==
  ASSUME SInv, NEW p \in Procs, pc[p] \in Writing \ {"read"},
         doc' = doc, prior' = prior, next' = next, NEW s, pc' = [pc EXCEPT ![p] = s],
         \/ s \in Writing /\ outcome' = outcome
         \/ s \notin Writing
            /\ \E o \in Exclusive!Unchanged \cup {"ok", "residual"} :
                 /\ o = "ok" => doc \in Docs
                 /\ o \in Exclusive!Unchanged => doc = prior[p]
                 /\ Hears(p, o),
         s # "read",
         s \in ({"write", "replace"} \cup Published) => pc[p] \in {"write", "replace"} \cup Published,
         s \in ({"write", "replace"} \cup Published) \ {"hold"} => next[p] # prior[p],
         s \in {"undo", "heldLock", "heldUnlink"} => prior[p] = Absent
  PROVE  WriterStep(p) /\ PublishesOK(p)'
<1>1. TypeOK /\ PublishesOK(p)  BY DEF SInv, WInv
<1>2. pc'[p] = s  BY <1>1 DEF TypeOK
<1>3. PublishesOK(p)'  BY <1>1, <1>2 DEF PublishesOK
<1>4. Found(p) = prior[p] /\ (s \in Writing => Found(p)' = prior[p])  BY <1>2 DEF Found
<1> QED  BY <1>2, <1>3, <1>4 DEF WriterStep, Works, Answers

\* What is read is what is found, and what is published differs from it.
LEMMA ReadEffect ==
  ASSUME SInv, NEW p \in Procs, Read(p)  PROVE WriterStep(p) /\ PublishesOK(p)'
<1>0. TypeOK /\ (stateLeaf = None <=> doc = Absent) /\ WriterOK(p)  BY DEF SInv, WInv
<1>1. doc' = doc /\ pc[p] = "read"  BY DEF Read, disk
<1>2. (IF st[p] = None THEN Absent ELSE doc) = doc
  BY <1>0, <1>1 DEF WriterOK, HasAuthority
<1>3. CASE Finish(p, "invalid") /\ UNCHANGED <<prior, next>>
  <2>1. pc' = [pc EXCEPT ![p] = "release"] /\ Hears(p, "invalid")
    BY <1>3 DEF Finish, Goto, Tell, Hears
  <2>2. pc'[p] = "release"  BY <1>0, <2>1 DEF TypeOK
  <2> QED
    BY <1>1, <2>1, <2>2 DEF WriterStep, Answers, Found, Exclusive!Unchanged, PublishesOK, Published
<1>4. CASE /\ prior' = [prior EXCEPT ![p] = doc]
           /\ \/ Finish(p, "conflict") /\ UNCHANGED next
              \/ doc # Absent /\ next' = [next EXCEPT ![p] = doc] /\ Committed(p)
              \/ \E d \in Docs \ {doc} :
                   next' = [next EXCEPT ![p] = d] /\ Goto(p, "write") /\ UNCHANGED outcome
  <2>0. prior'[p] = doc  BY <1>0, <1>4 DEF TypeOK
  <2>1. CASE Finish(p, "conflict")
    <3>1. pc'[p] = "release" /\ Hears(p, "conflict")
      BY <1>0, <2>1 DEF Finish, Goto, Tell, Hears, TypeOK
    <3> QED
      BY <1>1, <3>1 DEF WriterStep, Answers, Found, Exclusive!Unchanged, PublishesOK, Published
  <2>2. CASE doc # Absent /\ next' = [next EXCEPT ![p] = doc] /\ Committed(p)
    <3>1. doc \in Docs /\ next'[p] = doc  BY <1>0, <2>2 DEF TypeOK
    <3>2. CASE Finish(p, "ok")
      <4>1. pc'[p] = "release" /\ Hears(p, "ok")
        BY <1>0, <3>2 DEF Finish, Goto, Tell, Hears, TypeOK
      <4> QED
        BY <1>1, <3>1, <4>1 DEF WriterStep, Answers, Exclusive!Unchanged, PublishesOK, Published
    <3>3. CASE Goto(p, "hold") /\ UNCHANGED outcome
      <4>1. pc'[p] = "hold"  BY <1>0, <3>3 DEF Goto, TypeOK
      <4> QED
        BY <1>1, <2>0, <3>1, <3>3, <4>1 DEF WriterStep, Works, Found, PublishesOK, Published
    <3> QED  BY <2>2, <3>2, <3>3 DEF Committed
  <2>3. ASSUME NEW d \in Docs \ {doc}, next' = [next EXCEPT ![p] = d], Goto(p, "write"),
               UNCHANGED outcome
        PROVE  WriterStep(p) /\ PublishesOK(p)'
    <3>1. pc'[p] = "write" /\ next'[p] = d  BY <1>0, <2>3 DEF Goto, TypeOK
    <3> QED  BY <1>1, <2>0, <2>3, <3>1 DEF WriterStep, Works, Found, PublishesOK, Published
  <2> QED  BY <1>4, <2>1, <2>2, <2>3
<1> QED  BY <1>2, <1>3, <1>4 DEF Read

\* The steps that give the state file's name to another inode, or to none.
LEMMA PublishEffect ==
  ASSUME SInv, NEW p \in Procs,
         Replace(p) \/ UndoReplace(p) \/ HeldReplace(p) \/ UndoUnlink(p) \/ HeldUnlink(p)
  PROVE  WriterStep(p) /\ PublishesOK(p)'
<1>0. TypeOK /\ ContentOK(p) /\ PublishesOK(p)  BY DEF SInv, WInv, WriterOK
<1> USE DEF Exclusive!Unchanged, Hears
<1>1. CASE Replace(p)
  <2>1. pc[p] = "replace" /\ prior' = prior /\ next' = next  BY <1>1 DEF Replace
  <2>2. CASE Publish(p, next[p]) /\ Goto(p, "sync") /\ UNCHANGED outcome
    <3>1. pc'[p] = "sync" /\ doc' = next[p]  BY <1>0, <2>2 DEF Goto, Publish, TypeOK
    <3>2. doc = prior[p] /\ next[p] \in Docs /\ next[p] # prior[p]
      BY <1>0, <2>1 DEF ContentOK, PublishesOK
    <3>3. Publishes(p)  BY <2>1, <2>2, <3>1, <3>2 DEF Publishes, Found
    <3> QED  BY <2>1, <3>1, <3>2, <3>3 DEF WriterStep, PublishesOK, Published
  <2>3. CASE Drop(p) /\ Finish(p, "io")
    <3>1. pc' = [pc EXCEPT ![p] = "release"] /\ outcome' = [outcome EXCEPT ![p] = "io"]
          /\ doc' = doc /\ doc = prior[p]
      BY <1>0, <2>1, <2>3 DEF Drop, Finish, Goto, Tell, disk, ContentOK
    <3> QED  BY <2>1, <3>1, MoveEffect DEF Published
  <2> QED  BY <1>1, <2>2, <2>3 DEF Replace
<1>2. CASE UndoReplace(p) \/ HeldReplace(p)
  <2>1. pc[p] \in {"undoReplace", "heldReplace"} /\ prior' = prior /\ next' = next
    BY <1>2 DEF UndoReplace, HeldReplace
  <2>2. doc # prior[p] /\ Found(p) = prior[p]
    BY <1>0, <2>1 DEF ContentOK, PublishesOK, Published, Found
  <2>3. CASE Publish(p, prior[p])
    <3>1. doc' = prior[p] /\ pc'[p] \in {"undone", "release"}
          /\ \/ outcome' = outcome
             \/ \E o \in {"restored", "residual"} : outcome' = [outcome EXCEPT ![p] = o]
      <4>1. CASE UndoReplace(p) /\ Goto(p, "undone")
        BY <1>0, <2>3, <4>1 DEF UndoReplace, Publish, Goto, TypeOK, Finish, Tell
      <4>2. CASE Finish(p, "restored") \/ Finish(p, "residual")
        BY <1>0, <2>3, <4>2 DEF Publish, Goto, TypeOK, Finish, Tell
      <4> QED  BY <1>2, <4>1, <4>2 DEF UndoReplace, HeldReplace
    <3>2. TakesBack(p)  BY <2>2, <3>1 DEF TakesBack
    <3> QED  BY <3>1, <3>2 DEF WriterStep, PublishesOK, Published
  <2>4. CASE Drop(p) /\ Finish(p, "residual")
    <3>1. pc' = [pc EXCEPT ![p] = "release"] /\ outcome' = [outcome EXCEPT ![p] = "residual"]
          /\ doc' = doc
      BY <2>4 DEF Drop, Finish, Goto, Tell, disk
    <3> QED  BY <2>1, <3>1, MoveEffect DEF Published
  <2> QED  BY <1>2, <2>3, <2>4 DEF UndoReplace, HeldReplace
<1>3. CASE UndoUnlink(p) \/ HeldUnlink(p)
  <2>1. pc[p] \in {"undo", "heldUnlink"} /\ prior' = prior /\ next' = next
    BY <1>3 DEF UndoUnlink, HeldUnlink, mine
  <2>2. doc # prior[p] /\ Found(p) = prior[p] /\ prior[p] = Absent
    BY <1>0, <2>1 DEF ContentOK, PublishesOK, Published, Found
  <2>3. CASE doc' = Absent
    <3>1. pc'[p] \in {"undone", "release"}
          /\ \/ outcome' = outcome
             \/ \E o \in {"restored", "residual"} : outcome' = [outcome EXCEPT ![p] = o]
      BY <1>0, <1>3 DEF UndoUnlink, HeldUnlink, Goto, Finish, Tell, TypeOK
    <3>2. TakesBack(p)  BY <2>2, <2>3, <3>1 DEF TakesBack
    <3> QED  BY <3>1, <3>2 DEF WriterStep, PublishesOK, Published
  <2>4. CASE Finish(p, "residual") /\ UNCHANGED doc
    <3>1. pc' = [pc EXCEPT ![p] = "release"] /\ outcome' = [outcome EXCEPT ![p] = "residual"]
      BY <2>4 DEF Finish, Goto, Tell
    <3> QED  BY <2>1, <2>4, <3>1, MoveEffect DEF Published
  <2> QED  BY <1>3, <2>3, <2>4 DEF UndoUnlink, HeldUnlink
<1> QED  BY <1>1, <1>2, <1>3

\* The steps of a commit and of a lease that only move it along.
LEMMA AlongEffect ==
  ASSUME SInv, NEW p \in Procs, pc[p] \in Writing,
         \/ WriteTemp(p, "write", "replace", "io")
         \/ WriteTemp(p, "undoTemp", "undoReplace", "residual")
         \/ WriteTemp(p, "heldTemp", "heldReplace", "residual")
         \/ Sync(p) \/ Unlink(p) \/ KeepHeld(p) \/ GiveBack(p) \/ HeldRestore(p) \/ HeldLock(p)
  PROVE  WriterStep(p) /\ PublishesOK(p)'
<1>0. TypeOK /\ ContentOK(p) /\ PublishesOK(p)  BY DEF SInv, WInv, WriterOK
<1> USE DEF Exclusive!Unchanged, Hears, Goto, Finish, Tell
<1>1. CASE \/ WriteTemp(p, "write", "replace", "io")
           \/ WriteTemp(p, "undoTemp", "undoReplace", "residual")
           \/ WriteTemp(p, "heldTemp", "heldReplace", "residual")
  <2>1. doc' = doc /\ prior' = prior /\ next' = next  BY <1>1 DEF WriteTemp, disk
  <2>2. PICK here, there, o :
          /\ WriteTemp(p, here, there, o)
          /\ <<here, there, o>> \in {<<"write", "replace", "io">>,
               <<"undoTemp", "undoReplace", "residual">>, <<"heldTemp", "heldReplace", "residual">>}
    BY <1>1
  <2>3. pc[p] = here /\ (here = "write" => doc = prior[p])
    BY <1>0, <2>2 DEF WriteTemp, ContentOK
  <2>4. CASE pc' = [pc EXCEPT ![p] = there] /\ outcome' = outcome
    BY <1>0, <2>1, <2>2, <2>3, <2>4, MoveEffect DEF PublishesOK, Published
  <2>5. CASE pc' = [pc EXCEPT ![p] = "release"] /\ outcome' = [outcome EXCEPT ![p] = o]
    BY <2>1, <2>2, <2>3, <2>5, MoveEffect DEF Published
  <2> QED  BY <2>2, <2>4, <2>5 DEF WriteTemp
<1>2. CASE Sync(p) \/ Unlink(p)
  <2>1. pc[p] \in {"sync", "unlink"} /\ doc' = doc /\ prior' = prior /\ next' = next
    BY <1>2 DEF Sync, Unlink, RemoveSidecar, disk, mine
  <2>2. doc \in Docs /\ next[p] # prior[p]  BY <1>0, <2>1 DEF ContentOK, PublishesOK, Published
  <2>3. CASE outcome' = outcome /\ \E s \in {"unlink", "hold", "undoTemp"} : pc' = [pc EXCEPT ![p] = s]
    BY <2>1, <2>2, <2>3, MoveEffect DEF Published
  <2>4. CASE outcome' = outcome /\ pc' = [pc EXCEPT ![p] = "undo"] /\ prior[p] = Absent
    BY <2>1, <2>2, <2>4, MoveEffect DEF Published
  <2>5. CASE pc' = [pc EXCEPT ![p] = "release"] /\ outcome' = [outcome EXCEPT ![p] = "ok"]
    BY <2>1, <2>2, <2>5, MoveEffect DEF Published
  <2> QED  BY <1>2, <2>3, <2>4, <2>5 DEF Sync, Unlink, Committed, Undo
<1>3. CASE KeepHeld(p) \/ GiveBack(p)
  <2>1. pc[p] = "hold" /\ doc' = doc /\ prior' = prior /\ next' = next
    BY <1>3 DEF KeepHeld, GiveBack, disk, mine
  <2>2. doc = next[p] /\ doc \in Docs  BY <1>0, <2>1 DEF ContentOK, PublishesOK, Published
  <2>3. CASE outcome' = outcome /\ prior[p] # next[p] /\ pc' = [pc EXCEPT ![p] = "heldRestore"]
    BY <2>1, <2>3, MoveEffect DEF Published
  <2>4. CASE pc' = [pc EXCEPT ![p] = "release"] /\ outcome' = [outcome EXCEPT ![p] = "ok"]
    BY <2>1, <2>2, <2>4, MoveEffect DEF Published
  <2>5. CASE /\ pc' = [pc EXCEPT ![p] = "release"] /\ outcome' = [outcome EXCEPT ![p] = "restored"]
             /\ prior[p] = next[p]
    BY <2>1, <2>2, <2>5, MoveEffect DEF Published
  <2> QED  BY <1>3, <2>3, <2>4, <2>5 DEF KeepHeld, GiveBack
<1>4. CASE HeldRestore(p) \/ HeldLock(p)
  <2>1. pc[p] \in {"heldRestore", "heldLock"} /\ doc' = doc /\ prior' = prior /\ next' = next
    BY <1>4 DEF HeldRestore, HeldLock, disk
  <2>2. next[p] # prior[p] /\ (pc[p] = "heldLock" => prior[p] = Absent)
    BY <1>0, <2>1 DEF PublishesOK, Published
  <2>3. CASE outcome' = outcome /\ pc' = [pc EXCEPT ![p] = "heldTemp"]
    BY <2>1, <2>2, <2>3, MoveEffect DEF Published
  <2>4. CASE /\ outcome' = outcome /\ prior[p] = Absent
             /\ \E s \in {"heldUnlink", "heldLock"} : pc' = [pc EXCEPT ![p] = s]
    BY <2>1, <2>2, <2>4, MoveEffect DEF Published
  <2>5. CASE pc' = [pc EXCEPT ![p] = "release"] /\ outcome' = [outcome EXCEPT ![p] = "residual"]
    BY <2>1, <2>5, MoveEffect DEF Published
  <2> QED  BY <1>4, <2>1, <2>2, <2>3, <2>4, <2>5 DEF HeldRestore, HeldLock
<1> QED  BY <1>1, <1>2, <1>3, <1>4

\* All steps of a writer but its death.
LEMMA WriterEffect ==
  ASSUME SInv, NEW p \in Procs, pc[p] \in Writing, Step(p)
  PROVE  WriterStep(p) /\ PublishesOK(p)'
<1>1. ~Acquire(p) /\ ~Release(p) /\ ~Close(p) /\ ~Undone(p)
  BY DEF Acquire, OpenState, LockState, CheckState, CreateSidecar, OpenSidecar, LockSidecar,
     CheckSidecar, OpenAgain, LockBoth, CheckBoth, Release, Close, Undone
<1> QED
  BY <1>1, ReadEffect, PublishEffect, AlongEffect DEF Step, Commit, Decide, GiveUp

\* The steps of everybody else leave the store alone, take it when it is free,
\* or say something.
Outside(p) ==
  /\ doc' = doc
  /\ \/ pc'[p] = "read" /\ outcome' = outcome
     \/ /\ pc'[p] \notin Writing
        /\ \/ outcome' = outcome
           \/ \E o \in {"none", "busy", "timeout", "invalid", "io", "residual"} : Hears(p, o)

\* Whoever is refused, or meets a lock, is told so.
LEMMA RefuseOutside ==
  ASSUME TypeOK, NEW p \in Procs,
         \/ \E o \in {"none", "invalid", "io"} : Refuse(p, o)
         \/ Contended(p)
         \/ Close(p)
  PROVE  Outside(p)
<1>1. doc' = doc  BY DEF Refuse, Contended, Close, Leave, Abandon, disk
<1>2. pc'[p] \in {"idle", "state"}
  BY DEF Refuse, Contended, Close, Leave, Goto, TypeOK
<1>3. \/ outcome' = outcome
      \/ \E o \in {"none", "busy", "timeout", "invalid", "io"} : Tell(p, o)
  BY DEF Refuse, Contended, Close
<1> QED  BY <1>1, <1>2, <1>3 DEF Outside, Tell, Hears

\* The steps of a process that is not a writer.
LEMMA OutsideEffect ==
  ASSUME TypeOK, NEW p \in Procs, pc[p] \notin Writing,
         \/ \E b \in {"zero", "left"} : Start(p, b)
         \/ Step(p) \/ Expire(p) \/ PathRefused(p) \/ AcquireFails(p) \/ Die(p)
  PROVE  Outside(p)
<1> USE DEF TypeOK, Goto, Tell, Hears, disk, mine
<1>1. CASE \/ (\E b \in {"zero", "left"} : Start(p, b))
           \/ Expire(p) \/ Undone(p) \/ Release(p)
  BY <1>1 DEF Start, Expire, Undone, Finish, Release, RemoveSidecar, Outside
<1>2. CASE PathRefused(p) \/ AcquireFails(p) \/ Die(p) \/ Close(p)
  BY <1>2, RefuseOutside DEF PathRefused, AcquireFails, Die
<1>3. CASE Acquire(p)
  <2>1. CASE \/ Refuse(p, "invalid") \/ Contended(p)
    BY <2>1, RefuseOutside
  <2>2. CASE ~Refuse(p, "invalid") /\ ~Contended(p)
    <3>1. doc' = doc /\ outcome' = outcome
      BY <1>3, <2>2 DEF Acquire, OpenState, LockState, CheckState, CreateSidecar, OpenSidecar,
         LockSidecar, CheckSidecar, OpenAgain, LockBoth, CheckBoth
    <3>2. pc'[p] \in Acquiring \cup {"read"}
      BY <1>3, <2>2 DEF Acquire, OpenState, LockState, CheckState, CreateSidecar, OpenSidecar,
         LockSidecar, CheckSidecar, OpenAgain, LockBoth, CheckBoth
    <3> QED  BY <3>1, <3>2 DEF Outside
  <2> QED  BY <2>1, <2>2
<1>4. ~Read(p) /\ ~WriteTemp(p, "write", "replace", "io") /\ ~Replace(p) /\ ~Sync(p) /\ ~Unlink(p)
      /\ ~UndoUnlink(p) /\ ~WriteTemp(p, "undoTemp", "undoReplace", "residual") /\ ~UndoReplace(p)
      /\ ~Decide(p) /\ ~GiveUp(p)
  BY DEF Read, WriteTemp, Replace, Sync, Unlink, UndoUnlink, UndoReplace, Decide, KeepHeld,
     GiveBack, GiveUp, HeldRestore, HeldLock, HeldUnlink, HeldReplace
<1> QED  BY <1>1, <1>2, <1>3, <1>4 DEF Step, Commit

-----------------------------------------------------------------------------
(* The refinement *)

\* The owner is the one writer, and its base what that has found.
LEMMA OwnerIsWriter ==
  ASSUME OneWriter, NEW p \in Procs
  PROVE  /\ pc[p] \in Writing => Owner = p /\ Base = Found(p)
         /\ pc[p] \notin Writing => Owner # p
         /\ (\A q \in Procs : pc[q] \notin Writing) => Owner = Nobody /\ Base = Absent
<1>1. ASSUME pc[p] \in Writing PROVE Owner = p /\ Base = Found(p)
  <2>1. Writers = {p}  BY <1>1 DEF OneWriter, Writers
  <2>2. Owner = p  BY <2>1 DEF Owner
  <2> QED  BY <2>1, <2>2 DEF Base, Found
<1>2. ASSUME pc[p] \notin Writing PROVE Owner # p
  <2>1. p \notin Writers  BY <1>2 DEF Writers
  <2> QED  BY <2>1, NobodyAssumption DEF Owner
<1>3. ASSUME \A q \in Procs : pc[q] \notin Writing PROVE Owner = Nobody /\ Base = Absent
  <2>1. Writers = {}  BY <1>3 DEF Writers
  <2> QED  BY <2>1 DEF Owner, Base
<1> QED  BY <1>1, <1>2, <1>3

\* The same of the next state.
LEMMA OwnerNext ==
  ASSUME OneWriter', NEW p \in Procs
  PROVE  /\ pc'[p] \in Writing => Owner' = p /\ Base' = Found(p)'
         /\ pc'[p] \notin Writing => Owner' # p
         /\ (\A q \in Procs : pc'[q] \notin Writing) => Owner' = Nobody /\ Base' = Absent
<1>1. ASSUME pc'[p] \in Writing PROVE Owner' = p /\ Base' = Found(p)'
  <2>1. Writers' = {p}  BY <1>1 DEF OneWriter, Writers
  <2>2. Owner' = p  BY <2>1 DEF Owner
  <2> QED  BY <2>1, <2>2 DEF Base, Found
<1>2. ASSUME pc'[p] \notin Writing PROVE Owner' # p
  <2>1. p \notin Writers'  BY <1>2 DEF Writers
  <2> QED  BY <2>1, NobodyAssumption DEF Owner
<1>3. ASSUME \A q \in Procs : pc'[q] \notin Writing PROVE Owner' = Nobody /\ Base' = Absent
  <2>1. Writers' = {}  BY <1>3 DEF Writers
  <2> QED  BY <2>1 DEF Owner, Base
<1> QED  BY <1>1, <1>2, <1>3

\* A step of a writer is one of the owner.
LEMMA WriterMaps ==
  ASSUME SInv, OneWriter', NEW p \in Procs, Spares(p), pc[p] \in Writing,
         WriterStep(p) \/ Die(p)
  PROVE  [Exclusive!ENext]_<<doc, Owner, Base, outcome>>
<1>1. OneWriter /\ TypeOK  BY AuthorityIsOne DEF SInv, WInv
<1>2. Owner = p /\ Base = Found(p)  BY <1>1, OwnerIsWriter
<1>3. \A q \in Procs \ {p} : pc[q] \notin Writing /\ pc'[q] = pc[q]
  BY <1>1 DEF OneWriter, Spares
<1>4. pc'[p] \in Writing => Owner' = p /\ Base' = Found(p)'  BY OwnerNext
<1>5. pc'[p] \notin Writing => Owner' = Nobody /\ Base' = Absent  BY <1>3, OwnerNext
<1>6. CASE Works(p)  BY <1>2, <1>4, <1>6 DEF Works
<1>7. CASE Publishes(p)
  <2>1. Exclusive!Publish(p)  BY <1>2, <1>4, <1>7 DEF Publishes, Exclusive!Publish
  <2> QED  BY <2>1 DEF Exclusive!ENext
<1>8. CASE Answers(p)
  <2>1. Exclusive!Yield(p)
    BY <1>2, <1>5, <1>8 DEF Answers, Hears, Exclusive!Yield, Exclusive!Part, Exclusive!Answer
  <2> QED  BY <2>1 DEF Exclusive!ENext
<1>9. CASE TakesBack(p)
  <2>1. Exclusive!TakeBack(p)
    BY <1>2, <1>5, <1>9 DEF TakesBack, Hears, Exclusive!TakeBack, Exclusive!Part, Exclusive!Answer
  <2> QED  BY <2>1 DEF Exclusive!ENext
<1>10. CASE Die(p)
  <2>1. pc'[p] \notin Writing /\ doc' = doc /\ outcome' = [outcome EXCEPT ![p] = "none"]
    BY <1>1, <1>10 DEF Die, Refuse, Leave, Abandon, Goto, Tell, TypeOK, disk
  <2>2. Exclusive!Die(p)
    BY <1>2, <1>5, <2>1 DEF Exclusive!Die, Exclusive!Part, Exclusive!Answer
  <2> QED  BY <2>2 DEF Exclusive!ENext
<1> QED  BY <1>6, <1>7, <1>8, <1>9, <1>10 DEF WriterStep

\* A step of another leaves the owner alone, or makes one of its process.
LEMMA OutsideMaps ==
  ASSUME SInv, OneWriter', NEW p \in Procs, Spares(p), pc[p] \notin Writing, Outside(p)
  PROVE  [Exclusive!ENext]_<<doc, Owner, Base, outcome>>
<1>1. OneWriter /\ TypeOK  BY AuthorityIsOne DEF SInv, WInv
<1>2. Owner # p  BY <1>1, OwnerIsWriter
<1>3. doc' = doc /\ \A q \in Procs \ {p} : pc'[q] = pc[q] /\ prior'[q] = prior[q]
  BY DEF Spares, Outside
<1>4. CASE pc'[p] = "read" /\ outcome' = outcome
  <2>1. \A q \in Procs : pc[q] \notin Writing  BY <1>3, <1>4 DEF OneWriter
  <2>2. Owner = Nobody  BY <1>1, <2>1, OwnerIsWriter
  <2>3. Owner' = p /\ Base' = doc  BY <1>3, <1>4, OwnerNext DEF Found
  <2>4. Exclusive!Take(p)  BY <1>3, <1>4, <2>2, <2>3 DEF Exclusive!Take
  <2> QED  BY <2>4 DEF Exclusive!ENext
<1>5. CASE pc'[p] \notin Writing
  <2>1. Owner' = Owner /\ Base' = Base
    <3>1. CASE \A q \in Procs : pc[q] \notin Writing
      <4>1. \A q \in Procs : pc'[q] \notin Writing  BY <1>3, <1>5, <3>1
      <4> QED  BY <1>1, <3>1, <4>1, OwnerIsWriter, OwnerNext
    <3>2. ASSUME NEW q \in Procs, pc[q] \in Writing  PROVE Owner' = Owner /\ Base' = Base
      <4>1. q # p /\ pc'[q] = pc[q] /\ prior'[q] = prior[q]  BY <1>3, <3>2
      <4>2. Owner = q /\ Base = Found(q)  BY <1>1, <3>2, OwnerIsWriter
      <4>3. Owner' = q /\ Base' = Found(q)'  BY <3>2, <4>1, OwnerNext
      <4> QED  BY <1>3, <4>1, <4>2, <4>3 DEF Found
    <3> QED  BY <3>1, <3>2
  <2>2. CASE outcome' = outcome  BY <1>3, <2>1, <2>2
  <2>3. ASSUME NEW o \in {"none", "busy", "timeout", "invalid", "io", "residual"}, Hears(p, o)
        PROVE  Exclusive!ENext
    <3>1. CASE o = "none"
      BY <1>2, <1>3, <2>1, <2>3, <3>1
      DEF Hears, Exclusive!ENext, Exclusive!Begin, Exclusive!Answer
    <3>2. CASE o \in {"busy", "timeout", "invalid", "io"}
      BY <1>2, <1>3, <2>1, <2>3, <3>2
      DEF Hears, Exclusive!ENext, Exclusive!TurnAway, Exclusive!Answer
    <3>3. CASE o = "residual"
      BY <1>2, <1>3, <2>1, <2>3, <3>3
      DEF Hears, Exclusive!ENext, Exclusive!Doubt, Exclusive!Answer
    <3> QED  BY <3>1, <3>2, <3>3
  <2> QED  BY <1>5, <2>2, <2>3 DEF Outside
<1> QED  BY <1>4, <1>5 DEF Outside

\* Every step maps to a step of the abstract store or to none.
LEMMA StepMaps ==
  SInv /\ [Next]_pvars => SInv' /\ [Exclusive!ENext]_<<doc, Owner, Base, outcome>>
<1> SUFFICES ASSUME SInv, [Next]_pvars
             PROVE  SInv' /\ [Exclusive!ENext]_<<doc, Owner, Base, outcome>>
  OBVIOUS
<1>1. WInv /\ WInv'  BY WInvStep DEF SInv
<1>2. OneWriter /\ TypeOK  BY <1>1, AuthorityIsOne DEF WInv
<1>3. OneWriter'
  <2>1. WInv' => OneWriter'  BY AuthorityIsOne, PTL
  <2> QED  BY <1>1, <2>1
<1>4. CASE Next
  <2>1. PICK p \in Procs :
          \/ \E b \in {"zero", "left"} : Start(p, b)
          \/ Step(p) \/ Expire(p) \/ PathRefused(p) \/ AcquireFails(p) \/ Die(p)
    BY <1>4 DEF Next
  <2>2. Spares(p)  BY <1>1, <2>1, OneStep DEF Kept
  <2>3. \A q \in Procs \ {p} : PublishesOK(q)'  BY <2>2 DEF SInv, Spares, PublishesOK
  <2>4. CASE pc[p] \in Writing
    <3>1. Step(p) \/ Die(p)
      BY <2>1, <2>4 DEF Start, Expire, PathRefused, AcquireFails
    <3>2. CASE Step(p)
      BY <1>1, <1>3, <2>2, <2>3, <2>4, <3>2, WriterEffect, WriterMaps DEF SInv
    <3>3. CASE Die(p)
      <4>1. pc'[p] = "idle"  BY <1>2, <3>3 DEF Die, Refuse, Leave, Goto, TypeOK
      <4>2. PublishesOK(p)'  BY <4>1 DEF PublishesOK, Published
      <4> QED  BY <1>1, <1>3, <2>2, <2>3, <2>4, <3>3, <4>2, WriterMaps DEF SInv
    <3> QED  BY <3>1, <3>2, <3>3
  <2>5. CASE pc[p] \notin Writing
    <3>1. Outside(p)  BY <1>2, <2>1, <2>5, OutsideEffect
    <3>2. pc'[p] \notin Writing \ {"read"}  BY <3>1 DEF Outside
    <3>3. PublishesOK(p)'  BY <3>2 DEF PublishesOK, Published
    <3> QED  BY <1>1, <1>3, <2>2, <2>3, <2>5, <3>1, <3>3, OutsideMaps DEF SInv
  <2> QED  BY <2>4, <2>5
<1>5. CASE UNCHANGED pvars
  BY <1>1, <1>5 DEF SInv, PublishesOK, Owner, Base, Writers, pvars, disk, mine
<1> QED  BY <1>4, <1>5

\* A completion has the store for itself from what it reads to its answer, and
\* the answer is true (tryUnixAuthority, Commit, restoreHeld): ProfileAuthority
\* implements ExclusiveStore.
THEOREM ImplementsExclusiveStore == Spec => Serialized
<1>1. Init => SInv
  BY InitWInv DEF SInv, PublishesOK, Published, Init
<1>2. Init => Exclusive!EInit
  BY DEF Init, Exclusive!EInit, Owner, Base, Writers
<1>3. SInv /\ [Next]_pvars => SInv' /\ [Exclusive!ENext]_<<doc, Owner, Base, outcome>>
  BY StepMaps
<1> QED  BY <1>1, <1>2, <1>3, PTL DEF Spec, Serialized, Exclusive!ESpec, Exclusive!evars
=============================================================================
