--------------------------- MODULE CanonicalPlan ---------------------------
(***************************************************************************)
(* From observed files to a sealed plan and its application: the projector *)
(* (install/projector.go), the reconciliation that decides about every     *)
(* resource (reconcile/reconcile.go), the sealing of the transaction       *)
(* (install/transaction.go) and the writes of install/apply.go.  The parts *)
(* a plan is sealed from are handed in by a caller, who may take them from *)
(* different rounds; the user edits the files at any moment.  The caller   *)
(* is not in the repository: it is modelled from what the code asks of it, *)
(* and it is honest, it tells of a file what the published provenance and  *)
(* the file itself say.                                                    *)
(***************************************************************************)
EXTENDS Integers, FiniteSets

CONSTANTS
    Replace, Marker, Additive,   \* the resources, by the mode of their merge
    Sensitive,                   \* those that link to a credential
    Targets,                     \* targets the projector knows
    MaxReleases, MaxEdits, MaxRounds   \* bounds: releases, edits, projections

Resources == Replace \cup Marker \cup Additive
Releases == 1..MaxReleases

ASSUME ModesAreApart ==
    /\ Replace \cap Marker = {} /\ Replace \cap Additive = {} /\ Marker \cap Additive = {}
    /\ Sensitive \subseteq Resources
ASSUME BoundsAreNumbers == MaxReleases \in Nat /\ MaxEdits \in Nat /\ MaxRounds \in Nat

(* A text: which words of the user's it holds (0: none), and what stands at  *)
(* lore's part of it: nothing (0), what a release renders, something else,   *)
(* or damaged markers.  A file also has the author of that part.             *)
Other == MaxReleases + 1
Damaged == MaxReleases + 2
Text == [user : 0..MaxEdits, part : 0..Damaged]
File == [user : 0..MaxEdits, part : 0..Damaged, own : BOOLEAN]
Absent == [user |-> 0, part |-> 0, own |-> FALSE]
TextOf(file) == [user |-> file.user, part |-> file.part]
Present(text) == text # TextOf(Absent)

VARIABLES
    target,
    files,      \* what is on the disk
    recorded,   \* the published provenance: a release and the resources of its plan
    rounds,     \* the last two projected rounds, [last |-> , before |-> ]
    plan,       \* the sealed plan that was prepared
    edits, projected
vars == << target, files, recorded, rounds, plan, edits, projected >>

NoRound == [ir |-> 0]
NoPlan == [sem |-> NoRound]

-----------------------------------------------------------------------------
(* What the caller tells of a resource: its text, and the evidence.  Managed *)
(* when the provenance lists it and the text is the one recorded there;      *)
(* foreign when it is sure that somebody else's text stands where lore's     *)
(* would.                                                                    *)
Managed(r) == r \in recorded.paths /\ files[r].part = recorded.ir
Fact(r, sure) ==
    [text |-> TextOf(files[r]), managed |-> Managed(r), sure |-> sure,
     foreign |-> sure /\ ~Managed(r) /\ IF r \in Marker THEN files[r].part = Other
                                        ELSE Present(TextOf(files[r]))]

(* What lore wants there: all of a replaced file, its part of a merged one.  *)
Desired(r, fact, ir) ==
    [user |-> IF r \in Replace THEN 0 ELSE fact.text.user, part |-> ir]

(* The additive claims: lore's own entry if there is one, and beside it the  *)
(* user's other entries, which the merge leaves equal.                       *)
Claims(fact, ir) ==
    IF fact.text.part = 0 THEN {} ELSE
       {[subject |-> "lore", equivalent |-> fact.text.part = ir,
         managed |-> fact.managed, foreign |-> fact.foreign]}
       \cup {[subject |-> "other", equivalent |-> TRUE, managed |-> FALSE, foreign |-> TRUE] :
             x \in IF fact.sure /\ fact.text.user # 0 THEN {1} ELSE {}}

(* additiveUnsafe, additiveManaged, additiveForeignSubject *)
UnsafeClaim(claims) == \E c \in claims : ~c.equivalent /\ (c.foreign \/ ~c.managed)
AllEquivalent(claims) == claims # {} /\ \A c \in claims : c.equivalent
AllManaged(claims) == claims # {} /\ \A c \in claims : c.managed /\ ~c.foreign
SomeForeign(claims) == \E c \in claims : c.foreign

DecideReplace(fact, equal, linked) ==
    IF ~Present(fact.text) THEN "update"
    ELSE IF equal /\ ~linked THEN "noop"
    ELSE IF fact.managed /\ ~fact.foreign THEN "update" ELSE "conflict"

(* The state the markers are in: lore's part is delimited or damaged.        *)
DecideMarker(fact, equal, linked) ==
    IF fact.text.part = 0
    THEN IF Present(fact.text) /\ (~fact.managed \/ fact.foreign) THEN "conflict" ELSE "update"
    ELSE IF fact.text.part = Damaged THEN "conflict"
    ELSE IF equal /\ ~linked THEN "noop"
    ELSE IF fact.foreign THEN "conflict" ELSE "update"

DecideAdditive(fact, equal, linked, claims) ==
    IF Present(fact.text) /\ (claims = {} \/ (linked /\ ~AllManaged(claims))) THEN "conflict"
    ELSE IF linked /\ SomeForeign(claims) /\ ~UnsafeClaim(claims) THEN "conflict"
    ELSE IF (equal \/ AllEquivalent(claims)) /\ ~linked THEN "noop"
    ELSE IF UnsafeClaim(claims) THEN "conflict" ELSE "update"

(* decide *)
Decide(r, fact, ir) ==
    LET equal  == Present(fact.text) /\ fact.text = Desired(r, fact, ir)
        linked == r \in Sensitive
    IN CASE r \in Replace  -> DecideReplace(fact, equal, linked)
         [] r \in Marker   -> DecideMarker(fact, equal, linked)
         [] r \in Additive -> DecideAdditive(fact, equal, linked, Claims(fact, ir))

(* Reconcile: a decision is bound to all of its intent by the two hashes.    *)
Decisions(round) ==
    [r \in DOMAIN round.facts |->
        [outcome |-> Decide(r, round.facts[r], round.ir), hash |-> << round.ir, round.facts[r] >>]]

(* Seeded fault (TypeOK): a conflict of an unlinked resource admits the rest. *)
AllAdmittedUnlessLinked(round) ==
    \A r \in DOMAIN round.facts \cap Sensitive : Decide(r, round.facts[r], round.ir) # "conflict"

(* Reconcile: the report of a round with a conflict is not admitted. *)
AllAdmitted(round) == \A r \in DOMAIN round.facts : Decide(r, round.facts[r], round.ir) # "conflict"
Links(round) == Sensitive \cap DOMAIN round.facts
Permit(round) ==
    IF AllAdmitted(round) /\ Links(round) # {} THEN [ir |-> round.ir, links |-> Links(round)]
    ELSE [ir |-> 0, links |-> {}]

(* The provenance manifest a caller builds for a round. *)
Provenance(round) ==
    [ir |-> round.ir, paths |-> DOMAIN round.facts, finalized |-> Permit(round).links,
     hashes |-> [r \in DOMAIN round.facts |-> Decisions(round)[r].hash]]

-----------------------------------------------------------------------------
Init ==
    /\ target \in Targets
    /\ files = [r \in Resources |-> Absent]
    /\ recorded = [ir |-> 0, paths |-> {}]
    /\ rounds = [last |-> NoRound, before |-> NoRound]
    /\ plan = NoPlan
    /\ edits = 0 /\ projected = 0

(* What the user may make of a file: remove it, write in it or around lore's *)
(* part, put something else where lore's part was, by chance the very text   *)
(* of a release, or damage the markers.                                      *)
Edited(r, n) ==
    {Absent, [user |-> IF r \in Replace THEN 0 ELSE files[r].user, part |-> 1, own |-> FALSE]}
    \cup (IF r \in Replace THEN {[user |-> n, part |-> 0, own |-> FALSE]}
          ELSE {[files[r] EXCEPT !.user = n], [user |-> n, part |-> Other, own |-> FALSE]})
    \cup (IF r \in Marker THEN {[files[r] EXCEPT !.part = Damaged]} ELSE {})
Edit ==
    /\ edits < MaxEdits
    /\ edits' = edits + 1
    /\ \E r \in Resources : \E file \in Edited(r, edits + 1) :
          file # files[r] /\ files' = [files EXCEPT ![r] = file]
    /\ UNCHANGED << target, recorded, rounds, plan, projected >>

(* ProjectSemanticPlan for a compiled release: the resources selected, with  *)
(* what was observed of each.  The credentials that are linked must be among *)
(* the slots of the IR, the hosted server needs a scope: rejected otherwise. *)
Project ==
    /\ projected < MaxRounds /\ projected' = projected + 1
    /\ \E ir \in Releases, selected \in {Resources, Resources \ Sensitive} \ {{}},
          sure, scoped, declared \in BOOLEAN :
          /\ Sensitive \cap selected # {} => scoped /\ declared
          /\ rounds' = [last |-> [ir |-> ir, facts |-> [r \in selected |-> Fact(r, sure)]],
                        before |-> rounds.last]
    /\ UNCHANGED << target, files, recorded, plan, edits >>

(* What the caller has of earlier rounds. *)
Held == {rounds.last, rounds.before} \ {NoRound}
TextsOf(round) == [r \in DOMAIN round.facts |-> round.facts[r].text]

(* Seeded fault (FreshDrift): only what is present is compared. *)
DriftOfPresent(round, drift) ==
    /\ DOMAIN drift = DOMAIN round.facts
    /\ \A r \in DOMAIN drift : Present(round.facts[r].text) => drift[r] = round.facts[r].text

(* validateDrift: the resources with what was read of them again. *)
DriftHolds(round, drift) == drift = TextsOf(round)

(* validateManifestBinding *)
Bound(round, manifest) == manifest = Provenance(round)

(* SealTransactionPlan: the semantic plan, the report, the permit and the    *)
(* manifest are each from some round; the drift facts are from one too, or   *)
(* were read again.                                                          *)
Drift(sem, rep, reread) ==
    IF reread THEN [r \in DOMAIN sem.facts |-> TextOf(files[r])] ELSE TextsOf(rep)
Seal ==
    \E sem \in Held :
       /\ AllAdmitted(sem)
       /\ \E rep \in Held : /\ Decisions(rep) = Decisions(sem)
                           /\ \E reread \in BOOLEAN, per, man \in Held :
             /\ Permit(per) = Permit(sem)
             /\ DriftHolds(sem, Drift(sem, rep, reread))
             /\ Bound(sem, Provenance(man))
             /\ plan' = [sem |-> sem, manifest |-> Provenance(man), reread |-> reread]
       /\ UNCHANGED << target, files, recorded, rounds, edits, projected >>

(* canonicalTransactionWrites: every resource, whatever was decided of it.   *)
(* A file whose text does not change keeps its author.                       *)
Written(r) ==
    LET text == Desired(r, plan.sem.facts[r], plan.sem.ir)
    IN [user |-> text.user, part |-> text.part,
        own |-> IF text = TextOf(files[r]) THEN files[r].own ELSE TRUE]

(* sealedHostedMCPIntent: the finalizer takes a plan with one credential, of *)
(* a replaced resource, for Pi or OpenCode; any other is rolled back.        *)
Finalizable ==
    /\ target \in {"pi", "opencode"}
    /\ Cardinality(Links(plan.sem)) = 1 /\ Links(plan.sem) \subseteq Replace

(* executeApply, whose own steps and failures are HostedCompletion's: all    *)
(* resources and the provenance, or nothing.                                 *)
Apply ==
    /\ plan # NoPlan
    /\ IF Finalizable
       THEN /\ files' = [r \in Resources |->
                           IF r \in DOMAIN plan.sem.facts THEN Written(r) ELSE files[r]]
            /\ recorded' = [ir |-> plan.manifest.ir, paths |-> plan.manifest.paths]
       ELSE UNCHANGED << files, recorded >>
    /\ plan' = NoPlan
    /\ UNCHANGED << target, rounds, edits, projected >>

Next == Edit \/ Project \/ Seal \/ Apply
Spec == Init /\ [][Next]_vars

-----------------------------------------------------------------------------
Facts == [text : Text, managed : BOOLEAN, sure : BOOLEAN, foreign : BOOLEAN]
IsRound(round) ==
    round = NoRound \/ (round.ir \in Releases /\ \A r \in DOMAIN round.facts : round.facts[r] \in Facts)

(* The type of the state.  A sealed plan contains no conflict.               *)
TypeOK ==
    /\ target \in Targets
    /\ files \in [Resources -> File]
    /\ recorded.ir \in 0..MaxReleases /\ recorded.paths \subseteq Resources
    /\ IsRound(rounds.last) /\ IsRound(rounds.before) /\ IsRound(plan.sem)
    /\ plan # NoPlan => \A r \in DOMAIN plan.sem.facts :
                            Decide(r, plan.sem.facts[r], plan.sem.ir) # "conflict"
    /\ edits \in 0..MaxEdits /\ projected \in 0..MaxRounds

(* This step applied the plan. *)
Applying == plan # NoPlan /\ plan' = NoPlan

(* What is the user's in a file: words of theirs, or lore's part when they   *)
(* are its author; what stands between lore's markers is lore's unless the   *)
(* observation said it is foreign.                                           *)
Kept(r, before, after) ==
    /\ before.user # 0 => after.user = before.user
    /\ (before.part # 0 /\ ~before.own /\ (r \in Marker => plan.sem.facts[r].foreign))
         => after.part = before.part

(* As long as nobody touched the file since it was observed, and unless the  *)
(* provenance already calls its text lore's, applying a plan takes nothing   *)
(* of the user's out of it, in any mode: a conflict anywhere keeps the plan  *)
(* from being sealed (decide, SealTransactionPlan).                          *)
ForeignKept ==
    [][Applying => \A r \in DOMAIN plan.sem.facts :
          (TextOf(files[r]) = plan.sem.facts[r].text /\ ~plan.sem.facts[r].managed)
             => Kept(r, files[r], files'[r])]_vars

(* What was applied is accepted when it is observed again, however much the  *)
(* user has written around it: a resource that still holds the recorded      *)
(* release needs nothing, or only its credential again (decide).             *)
Converges ==
    \A r \in recorded.paths, sure \in BOOLEAN : files[r].part = recorded.ir =>
        Decide(r, Fact(r, sure), recorded.ir) = IF r \in Sensitive THEN "update" ELSE "noop"

(* A plan sealed with facts that were read again is about the files as they  *)
(* are: not one of an earlier round, nor of a file that came or went since   *)
(* (validateDrift).                                                          *)
FreshDrift ==
    [][(plan' # plan /\ plan' # NoPlan /\ plan'.reread) =>
          \A r \in DOMAIN plan'.sem.facts : TextOf(files[r]) = plan'.sem.facts[r].text]_vars

(* When an apply publishes its provenance, every file it lists holds the     *)
(* release it names, although the parts of the plan came from several rounds *)
(* (validateManifestBinding).                                                *)
ProvenanceTells ==
    [][recorded' # recorded => \A r \in recorded'.paths : files'[r].part = recorded'.ir]_vars

(* A plan takes nothing of the user's that was seen, and what it says of the *)
(* files is true when it is sealed and after it has been applied             *)
(* (SealTransactionPlan, decide).                                            *)
PlanIsHonest == ForeignKept /\ FreshDrift /\ ProvenanceTells /\ []Converges

-----------------------------------------------------------------------------
(* openspec/specs/canonical-capability-profile-compiler/spec.md:150 says     *)
(* foreign content must not be overwritten or removed.  What the user writes *)
(* between observation and apply is: the drift facts are compared with the   *)
(* plan in memory, never with the files.                                     *)
NeverOverwritten ==
    [][Applying => \A r \in DOMAIN plan.sem.facts :
          (plan.sem.facts[r].managed /\ files[r].own) \/ Kept(r, files[r], files'[r])]_vars

(* The same line says foreign content must not be adopted.  A file of the    *)
(* user's that equals the desired one is decided "noop" and then listed in   *)
(* the provenance like a file lore wrote.                                    *)
NotAdopted ==
    [][recorded' # recorded => \A r \in recorded'.paths : files'[r].own]_vars

(* The scenario "Reconcile unchanged state" of spec.md:226 says the result   *)
(* is a no-op.  A resource with a credential is updated every time.          *)
UnchangedIsNoop ==
    (recorded.paths # {} /\ \A r \in recorded.paths : files[r].part = recorded.ir /\ files[r].own) =>
        \A r \in recorded.paths : Decide(r, Fact(r, TRUE), recorded.ir) = "noop"

(* The scenario "Apply an admitted target plan" of spec.md says a complete   *)
(* admitted plan is committed when its writes succeed.  A plan without a     *)
(* hosted server, or for Codex or Antigravity, never is.                     *)
AdmittedApplies == [][Applying => recorded'.ir = plan.sem.ir]_vars
=============================================================================
