--------------------------- MODULE ReviewRelease ---------------------------
(***************************************************************************)
(* The staged bounded-review pair of the Pi installer                      *)
(* (install/bounded_review_release.go): a judge, a fix and a manifest are  *)
(* written into a staging directory, validated, moved to the directory of  *)
(* their revision, and the pointer current.json is written last.  When the *)
(* pointer cannot be written it is restored and the new directory is       *)
(* removed.  There is no lock; builds of several revisions may be run; any *)
(* write may fail before or after its rename (writeFileAtomic), a removal  *)
(* may stop half way, and the process may die.                             *)
(***************************************************************************)
EXTENDS Integers, FiniteSets

CONSTANTS
    Revisions,       \* the revisions of the builds at hand
    Installers,      \* processes that may install at a time
    MaxRuns, MaxFaults, MaxDamage   \* bounds: installs, failed calls, revisions damaged

RevisionsAreNumbers == Revisions \subseteq Nat \ {0}

Parts == {"judge", "fix", "manifest"}

\* A directory: whether it exists and which parts are in it.
Dir == [made : BOOLEAN, parts : SUBSET Parts]
NoDir == [made |-> FALSE, parts |-> {}]

(* validateBoundedReviewReleaseDir: the manifest, its two files and their    *)
(* digests, and the handshake of the pair.                                   *)
Coherent(dir) == dir.made /\ dir.parts = Parts

VARIABLES
    staging,      \* .staging/<revision>
    releases,   \* releases/<revision>
    pointer,    \* the revision current.json names, 0 when it is missing
    proc,       \* of each installer, where it is
    runs, faults,
    damaged     \* revisions somebody else has removed a part of
vars == << staging, releases, pointer, proc, runs, faults, damaged >>

Idle == [pc |-> "idle", rev |-> 0, old |-> 0, created |-> FALSE]
At(i, pc) == proc[i].pc = pc
GoTo(i, pc) == proc' = [proc EXCEPT ![i].pc = pc]
Leave(i, pc) == proc' = [proc EXCEPT ![i].pc = pc, ![i].created = FALSE]
Fault == faults < MaxFaults /\ faults' = faults + 1
NoFault == UNCHANGED faults

(* What os.RemoveAll leaves, its error ignored: nothing, or when it stops on *)
(* the way, some of it.                                                      *)
Removed(dir) ==
    \/ NoFault /\ dir = NoDir
    \/ Fault   /\ dir.made

Init ==
    /\ staging = [r \in Revisions |-> NoDir]
    /\ releases = [r \in Revisions |-> NoDir]
    /\ pointer = 0
    /\ proc = [i \in Installers |-> Idle]
    /\ runs = 0 /\ faults = 0 /\ damaged = {}

-----------------------------------------------------------------------------
(* applyBoundedReviewRelease: renders the pair and reads the old pointer.    *)
Begin(i) ==
    /\ At(i, "idle") /\ runs < MaxRuns
    /\ runs' = runs + 1
    /\ \E r \in Revisions :
          proc' = [proc EXCEPT ![i] = [pc |-> "clear", rev |-> r, old |-> pointer, created |-> FALSE]]
    /\ UNCHANGED << staging, releases, pointer, faults, damaged >>

RemoveStage(i) ==
    \E left \in SUBSET staging[proc[i].rev].parts, made \in BOOLEAN :
       /\ made \in {staging[proc[i].rev].made, FALSE}
       /\ left # {} => made
       /\ Removed([made |-> made, parts |-> left])
       /\ staging' = [staging EXCEPT ![proc[i].rev] = [made |-> made, parts |-> left]]

Clear(i) ==
    /\ At(i, "clear") /\ RemoveStage(i) /\ GoTo(i, "judge")
    /\ UNCHANGED << releases, pointer, runs, damaged >>

(* writeFileAtomic creates the directory, writes a temporary file and        *)
(* renames it; it can still report an error after that.                      *)
Staged(i, part) ==
    staging' = [staging EXCEPT ![proc[i].rev] = [made |-> TRUE, parts |-> @.parts \cup {part}]]
After(part) ==
    CASE part = "judge" -> "fix" [] part = "fix" -> "manifest" [] part = "manifest" -> "validate"
StagePart(i, part) ==
    /\ At(i, part)
    /\ \/ Staged(i, part) /\ NoFault /\ GoTo(i, After(part))
       \/ /\ Fault /\ (Staged(i, part) \/ UNCHANGED staging)
          /\ Leave(i, IF part = "judge" THEN "failed" ELSE "discard")
    /\ UNCHANGED << releases, pointer, runs, damaged >>

(* A failure on the way discards what was staged. *)
Discard(i) ==
    /\ At(i, "discard") /\ RemoveStage(i) /\ Leave(i, "failed")
    /\ UNCHANGED << releases, pointer, runs, damaged >>

Validate(i) ==
    /\ At(i, "validate")
    /\ GoTo(i, IF Coherent(staging[proc[i].rev]) THEN "inspect" ELSE "discard")
    /\ UNCHANGED << staging, releases, pointer, runs, faults, damaged >>

(* A release of this revision that is there already must be valid, and is    *)
(* used as it is.                                                            *)
Inspect(i) ==
    /\ At(i, "inspect")
    /\ GoTo(i, IF ~releases[proc[i].rev].made THEN "rename"
               ELSE IF Coherent(releases[proc[i].rev]) THEN "reuse" ELSE "discard")
    /\ UNCHANGED << staging, releases, pointer, runs, faults, damaged >>
Reuse(i) ==
    /\ At(i, "reuse") /\ RemoveStage(i) /\ GoTo(i, "point")
    /\ UNCHANGED << releases, pointer, runs, damaged >>

(* A directory is renamed over nothing or over an empty directory. *)
Rename(i) ==
    LET r == proc[i].rev IN
    /\ At(i, "rename")
    /\ \/ /\ staging[r].made /\ releases[r].parts = {} /\ NoFault
          /\ releases' = [releases EXCEPT ![r] = staging[r]]
          /\ staging' = [staging EXCEPT ![r] = NoDir]
          /\ proc' = [proc EXCEPT ![i].pc = "point", ![i].created = TRUE]
       \/ /\ IF staging[r].made /\ releases[r].parts = {} THEN Fault ELSE NoFault
          /\ GoTo(i, "discard")
          /\ UNCHANGED << staging, releases >>
    /\ UNCHANGED << pointer, runs, damaged >>

Point(i) ==
    /\ At(i, "point")
    /\ \/ pointer' = proc[i].rev /\ NoFault /\ Leave(i, "done")
       \/ pointer' \in {pointer, proc[i].rev} /\ Fault /\ GoTo(i, "restore")
    /\ UNCHANGED << staging, releases, runs, damaged >>

(* Seeded fault (PointerIsSafe): the pointer is put back only when there was *)
(* one; the first install leaves its own.                                    *)
RestoreOnlyOld(i) ==
    /\ At(i, "restore")
    /\ \/ proc[i].old # 0 /\ pointer' = proc[i].old /\ NoFault
       \/ proc[i].old = 0 /\ UNCHANGED pointer /\ NoFault
       \/ UNCHANGED pointer /\ Fault
    /\ IF proc[i].created THEN GoTo(i, "unpublish") ELSE Leave(i, "failed")
    /\ UNCHANGED << staging, releases, runs, damaged >>

(* The old pointer is written back, or the new one removed; an error of that *)
(* is ignored.                                                               *)
Restore(i) ==
    /\ At(i, "restore")
    /\ \/ pointer' = proc[i].old /\ NoFault
       \/ UNCHANGED pointer /\ Fault
    /\ IF proc[i].created THEN GoTo(i, "unpublish") ELSE Leave(i, "failed")
    /\ UNCHANGED << staging, releases, runs, damaged >>

(* The directory this install has created is removed. *)
Unpublish(i) ==
    LET r == proc[i].rev IN
    /\ At(i, "unpublish")
    /\ \E left \in SUBSET releases[r].parts, made \in BOOLEAN :
          /\ made \in {releases[r].made, FALSE}
          /\ left # {} => made
          /\ Removed([made |-> made, parts |-> left])
          /\ releases' = [releases EXCEPT ![r] = [made |-> made, parts |-> left]]
    /\ Leave(i, "failed")
    /\ UNCHANGED << staging, pointer, runs, damaged >>

Return(i) ==
    /\ proc[i].pc \in {"done", "failed"}
    /\ proc' = [proc EXCEPT ![i] = Idle]
    /\ UNCHANGED << staging, releases, pointer, runs, faults, damaged >>

(* The process dies.  Amid a removal or a write this is the failed step and  *)
(* then the death.                                                           *)
Die(i) ==
    /\ proc[i].pc \notin {"idle", "done", "failed"}
    /\ proc' = [proc EXCEPT ![i] = Idle]
    /\ UNCHANGED << staging, releases, pointer, runs, faults, damaged >>

(* Somebody else removes a part of a release. *)
Damage ==
    \E r \in Revisions : \E part \in releases[r].parts :
       /\ Cardinality(damaged \cup {r}) <= MaxDamage
       /\ releases' = [releases EXCEPT ![r].parts = @ \ {part}]
       /\ damaged' = damaged \cup {r}
       /\ UNCHANGED << staging, pointer, proc, runs, faults >>

Next ==
    \/ \E i \in Installers :
          \/ Begin(i) \/ Clear(i) \/ Discard(i) \/ Validate(i) \/ Inspect(i) \/ Reuse(i)
          \/ Rename(i) \/ Point(i) \/ Restore(i) \/ Unpublish(i) \/ Return(i) \/ Die(i)
          \/ \E part \in Parts : StagePart(i, part)
    \/ Damage
Spec == Init /\ [][Next]_vars

-----------------------------------------------------------------------------
(* The type of the state; only an install that is publishing has created a   *)
(* directory, and it is the one of its revision.                             *)
TypeOK ==
    /\ staging \in [Revisions -> Dir] /\ releases \in [Revisions -> Dir]
    /\ pointer \in Revisions \cup {0}
    /\ damaged \subseteq Revisions
    /\ runs \in 0..MaxRuns /\ faults \in 0..MaxFaults
    /\ \A i \in Installers :
          /\ proc[i].rev \in Revisions \cup {0} /\ proc[i].old \in Revisions \cup {0}
          /\ proc[i].created => proc[i].pc \in {"point", "restore", "unpublish"}

(* Whatever fails or dies on the way, the pointer names a complete pair: a   *)
(* reader of current.json never finds half of one, unless somebody else has  *)
(* taken a part away (applyBoundedReviewRelease, the pointer last).          *)
PointerIsCoherent == pointer # 0 => pointer \in damaged \/ Coherent(releases[pointer])

(* An install that reports an error leaves the pointer it found: the pair    *)
(* selected before it stays selected (the rollback of the pointer).          *)
FailureKeepsPointer ==
    \A i \in Installers : At(i, "failed") => pointer = proc[i].old

-----------------------------------------------------------------------------
(* The comment at bounded_review_release.go:131 says that on failure the     *)
(* prior pointer is restored or none is left.  The pointer's write reports   *)
(* an error after its rename, its restoration fails as well, and the         *)
(* directory it now names is removed.                                        *)
NoDanglingPointer ==
    \A i \in Installers : At(i, "failed") => pointer \in {proc[i].old, 0}

(* The comment at bounded_review_release.go:135 says that only a coherent    *)
(* pair is published.  Two installs share the staging directory: one moves   *)
(* what the other has just begun to write.                                   *)
OnlyCoherentPublished ==
    [][pointer' # pointer /\ pointer' # 0 => pointer' \in damaged \/ Coherent(releases'[pointer'])]_vars
=============================================================================
