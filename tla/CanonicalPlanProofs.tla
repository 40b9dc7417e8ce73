------------------------ MODULE CanonicalPlanProofs ------------------------
(***************************************************************************)
(* A sealed plan for every set of resources and credentials and every      *)
(* number of releases, edits and rounds: it takes nothing of the user's    *)
(* that was observed, its facts are those of the files, and what it has    *)
(* applied is accepted when it is observed again.                          *)
(***************************************************************************)
EXTENDS CanonicalPlan, TLAPS

Rounds == {NoRound} \cup
          UNION {[ir : Releases, facts : [S -> Facts]] : S \in SUBSET Resources}

\* A sealed plan is about one round, without a conflict; its manifest is the one
\* of that round, whichever rounds its parts were taken from.
Sealed ==
  /\ plan.sem \in Rounds \ {NoRound} /\ AllAdmitted(plan.sem)
  /\ plan.manifest = Provenance(plan.sem)

\* A file that is replaced as a whole has the user's words or lore's; and only a
\* plan whose one credential is in such a file has ever been recorded.
PlanInv ==
  /\ target \in Targets /\ edits \in 0..MaxEdits /\ projected \in 0..MaxRounds
  /\ files \in [Resources -> File]
  /\ \A r \in Replace : files[r].user = 0 \/ files[r].part = 0
  /\ recorded \in [ir : 0..MaxReleases, paths : SUBSET Resources]
  /\ recorded.paths # {} => recorded.ir # 0
  /\ recorded.paths \cap Sensitive \subseteq Replace
  /\ rounds \in [last : Rounds, before : Rounds]
  /\ plan = NoPlan \/ Sealed

\* The numbers that stand at lore's part are apart.
LEMMA Parts ==
  /\ \A ir \in Releases : ir \in 1..MaxReleases /\ ir # 0 /\ ir # Damaged /\ ir \in 0..Damaged
  /\ Other \in 0..Damaged /\ Damaged \in 0..Damaged /\ 0 \in 0..Damaged /\ 1 \in 0..Damaged
  /\ Other # 0 /\ Other # Damaged /\ 0 \in 0..MaxEdits
BY BoundsAreNumbers DEF Releases, Damaged, Other

\* A round that was projected.
LEMMA RoundShape ==
  ASSUME NEW round \in Rounds
  PROVE  round = NoRound \/ /\ round.ir \in Releases /\ DOMAIN round.facts \subseteq Resources
                            /\ \A r \in DOMAIN round.facts : round.facts[r] \in Facts
BY DEF Rounds

\* What is observed of a file is a fact about its text.
LEMMA FactShape ==
  ASSUME files \in [Resources -> File], NEW r \in Resources, NEW sure \in BOOLEAN
  PROVE  /\ Fact(r, sure) \in Facts /\ Fact(r, sure).text = TextOf(files[r])
         /\ Fact(r, sure).managed = Managed(r)
         /\ Managed(r) => ~Fact(r, sure).foreign
<1>1. TextOf(files[r]) \in Text  BY DEF TextOf, Text, File
<1>2. Managed(r) \in BOOLEAN  BY DEF Managed
<1> QED  BY <1>1, <1>2 DEF Fact, Facts

\* The modes of the resources.
LEMMA Modes ==
  ASSUME NEW r \in Resources, NEW fact, NEW ir
  PROVE  LET equal == Present(fact.text) /\ fact.text = Desired(r, fact, ir)
             linked == r \in Sensitive
         IN /\ r \in Replace => Decide(r, fact, ir) = DecideReplace(fact, equal, linked)
            /\ r \in Marker => Decide(r, fact, ir) = DecideMarker(fact, equal, linked)
            /\ r \in Additive =>
                 Decide(r, fact, ir) = DecideAdditive(fact, equal, linked, Claims(fact, ir))
BY ModesAreApart DEF Resources, Decide

-----------------------------------------------------------------------------
(* The decisions *)

\* A plan without a conflict takes nothing of the user's out of a file whose text
\* is not known to be lore's.
LEMMA AdmittedKeeps ==
  ASSUME NEW r \in Resources, NEW fact \in Facts, NEW ir \in Releases,
         Decide(r, fact, ir) # "conflict", ~fact.managed
  PROVE  /\ fact.text.user # 0 => Desired(r, fact, ir).user = fact.text.user
         /\ (fact.text.part # 0 /\ (r \in Marker => fact.foreign))
              => fact.text.part = ir
<1> DEFINE equal == Present(fact.text) /\ fact.text = Desired(r, fact, ir)
           linked == r \in Sensitive
<1>1. fact.text.user # 0 \/ fact.text.part # 0 => Present(fact.text)
  BY DEF Present, TextOf, Absent
<1>2. Desired(r, fact, ir).part = ir /\ (r \notin Replace => Desired(r, fact, ir).user = fact.text.user)
  BY DEF Desired
<1>3. CASE r \in Replace
  <2>1. DecideReplace(fact, equal, linked) # "conflict"  BY <1>3, Modes
  <2>2. Present(fact.text) => equal  BY <2>1 DEF DecideReplace
  <2> QED  BY <1>1, <1>2, <1>3, <2>2, ModesAreApart
<1>4. CASE r \in Marker
  <2>1. DecideMarker(fact, equal, linked) # "conflict"  BY <1>4, Modes
  <2>2. fact.text.part # 0 /\ fact.foreign => equal  BY <2>1 DEF DecideMarker
  <2> QED  BY <1>1, <1>2, <1>4, <2>2, ModesAreApart
<1>5. CASE r \in Additive
  <2>1. DecideAdditive(fact, equal, linked, Claims(fact, ir)) # "conflict"  BY <1>5, Modes
  <2> DEFINE own == [subject |-> "lore", equivalent |-> fact.text.part = ir,
                     managed |-> fact.managed, foreign |-> fact.foreign]
  <2>2. fact.text.part # 0 => own \in Claims(fact, ir)  BY DEF Claims
  <2>3. fact.text.part # 0 /\ fact.text.part # ir =>
          /\ UnsafeClaim(Claims(fact, ir)) /\ ~AllEquivalent(Claims(fact, ir)) /\ ~equal
    BY <1>2, <2>2 DEF UnsafeClaim, AllEquivalent
  <2>4. UnsafeClaim(Claims(fact, ir)) => equal \/ AllEquivalent(Claims(fact, ir))
    BY <2>1 DEF DecideAdditive
  <2> QED  BY <1>2, <1>5, <2>3, <2>4, ModesAreApart
<1> QED  BY <1>3, <1>4, <1>5 DEF Resources

\* What is known to be lore's and still is what was recorded is accepted.
LEMMA RecordedIsAccepted ==
  ASSUME NEW r \in Resources, NEW fact \in Facts, NEW ir \in Releases,
         fact.managed, ~fact.foreign, fact.text.part = ir,
         r \in Replace => fact.text.user = 0, r \in Sensitive => r \in Replace
  PROVE  Decide(r, fact, ir) = IF r \in Sensitive THEN "update" ELSE "noop"
<1> DEFINE equal == Present(fact.text) /\ fact.text = Desired(r, fact, ir)
           linked == r \in Sensitive
<1>1. fact.text = Desired(r, fact, ir)  BY DEF Desired, Facts, Text
<1>2. equal  BY <1>1, Parts DEF Present, TextOf, Absent
<1>3. CASE r \in Replace
  <2>1. DecideReplace(fact, equal, linked) = IF linked THEN "update" ELSE "noop"
    BY <1>2 DEF DecideReplace
  <2> QED  BY <1>3, <2>1, Modes
<1>4. CASE r \in Marker
  <2>1. ~linked  BY <1>4, ModesAreApart
  <2>2. DecideMarker(fact, equal, linked) = "noop"  BY <1>2, <2>1, Parts DEF DecideMarker
  <2> QED  BY <1>4, <2>1, <2>2, Modes
<1>5. CASE r \in Additive
  <2>1. ~linked  BY <1>5, ModesAreApart
  <2>2. Claims(fact, ir) # {}  BY Parts DEF Claims
  <2>3. DecideAdditive(fact, equal, linked, Claims(fact, ir)) = "noop"
    BY <1>2, <2>1, <2>2 DEF DecideAdditive
  <2> QED  BY <1>5, <2>1, <2>3, Modes
<1> QED  BY <1>3, <1>4, <1>5 DEF Resources

-----------------------------------------------------------------------------
(* The steps *)

LEMMA PlanInit == Init => PlanInv
<1> SUFFICES ASSUME Init PROVE PlanInv  OBVIOUS
<1>1. Absent \in File  BY Parts DEF Absent, File
<1>2. files \in [Resources -> File]  BY <1>1 DEF Init
<1>3. \A r \in Replace : files[r].user = 0  BY DEF Init, Absent, Resources
<1>4. rounds \in [last : Rounds, before : Rounds]  BY DEF Init, Rounds
<1> QED  BY <1>2, <1>3, <1>4, BoundsAreNumbers DEF Init, PlanInv

\* The user never writes words of theirs and a release into a replaced file.
LEMMA EditStep == PlanInv /\ Edit => PlanInv'
<1> SUFFICES ASSUME PlanInv, Edit PROVE PlanInv'  OBVIOUS
<1> DEFINE n == edits + 1
<1>1. n \in 0..MaxEdits /\ edits' \in 0..MaxEdits  BY BoundsAreNumbers DEF PlanInv, Edit
<1>2. PICK r \in Resources : \E file \in Edited(r, n) : files' = [files EXCEPT ![r] = file]
  BY DEF Edit
<1>3. PICK file \in Edited(r, n) : files' = [files EXCEPT ![r] = file]  BY <1>2
<1>4. files[r] \in File  BY DEF PlanInv
<1>5. file \in File
  <2>1. files[r].user \in 0..MaxEdits /\ files[r].part \in 0..Damaged /\ files[r].own \in BOOLEAN
    BY <1>4 DEF File
  <2>2. Absent \in File  BY Parts DEF Absent, File
  <2>3. [files[r] EXCEPT !.user = n] \in File /\ [files[r] EXCEPT !.part = Damaged] \in File
    BY <1>1, <1>4, Parts DEF File
  <2>4. \A u \in 0..MaxEdits, p \in 0..Damaged :
          [user |-> u, part |-> p, own |-> FALSE] \in File
    BY DEF File
  <2>5. \/ file = Absent \/ file = [files[r] EXCEPT !.user = n]
        \/ file = [files[r] EXCEPT !.part = Damaged]
        \/ \E u \in {0, files[r].user, n}, p \in {0, 1, Other} :
              file = [user |-> u, part |-> p, own |-> FALSE]
    BY <1>3 DEF Edited
  <2> QED  BY <1>1, <2>1, <2>2, <2>3, <2>4, <2>5, Parts
<1>6. r \in Replace => file.user = 0 \/ file.part = 0
  BY <1>3, ModesAreApart DEF Edited, Absent
<1>7. files' \in [Resources -> File] /\ \A x \in Replace : files'[x].user = 0 \/ files'[x].part = 0
  BY <1>3, <1>5, <1>6 DEF PlanInv, Resources
<1>8. UNCHANGED << target, recorded, rounds, plan, projected >>  BY DEF Edit
<1> QED  BY <1>1, <1>7, <1>8 DEF PlanInv, Sealed

\* A plan is projected from what is observed of one round.
LEMMA ProjectStep == PlanInv /\ Project => PlanInv'
<1> SUFFICES ASSUME PlanInv, Project PROVE PlanInv'  OBVIOUS
<1>1. projected' \in 0..MaxRounds  BY BoundsAreNumbers DEF PlanInv, Project
<1>2. PICK ir \in Releases, S \in {Resources, Resources \ Sensitive} \ {{}}, sure \in BOOLEAN :
        rounds' = [last |-> [ir |-> ir, facts |-> [r \in S |-> Fact(r, sure)]],
                   before |-> rounds.last]
  BY DEF Project
<1>3. [r \in S |-> Fact(r, sure)] \in [S -> Facts]  BY <1>2, FactShape DEF PlanInv
<1>4. S \in SUBSET Resources  BY <1>2
<1>5. [ir |-> ir, facts |-> [r \in S |-> Fact(r, sure)]] \in Rounds  BY <1>3, <1>4 DEF Rounds
<1>6. rounds' \in [last : Rounds, before : Rounds]  BY <1>2, <1>5 DEF PlanInv
<1>7. UNCHANGED << target, files, recorded, plan, edits >>  BY DEF Project
<1> QED  BY <1>1, <1>6, <1>7 DEF PlanInv, Sealed

\* The parts of a plan belong together, whichever rounds they are from; and facts
\* that were read again are those of the files.
LEMMA SealStep ==
  ASSUME PlanInv, Seal
  PROVE  /\ PlanInv' /\ plan' # NoPlan
         /\ plan'.reread => \A r \in DOMAIN plan'.sem.facts :
                              TextOf(files[r]) = plan'.sem.facts[r].text
<1>1. PICK sem \in Held, rep \in Held, reread \in BOOLEAN, man \in Held :
        /\ AllAdmitted(sem) /\ DriftHolds(sem, Drift(sem, rep, reread))
        /\ Provenance(man) = Provenance(sem)
        /\ plan' = [sem |-> sem, manifest |-> Provenance(man), reread |-> reread]
        /\ UNCHANGED << target, files, recorded, rounds, edits, projected >>
  BY DEF Seal, Bound
<1>2. sem \in Rounds \ {NoRound}  BY DEF PlanInv, Held
<1>3. Sealed'  BY <1>1, <1>2 DEF Sealed
<1>4. plan'.sem # NoPlan.sem  BY <1>1, <1>2 DEF NoPlan
<1>5. ASSUME reread, NEW r \in DOMAIN sem.facts PROVE TextOf(files[r]) = sem.facts[r].text
  BY <1>1, <1>5 DEF DriftHolds, Drift, TextsOf
<1> QED  BY <1>1, <1>3, <1>4, <1>5 DEF PlanInv

\* What an apply writes.
LEMMA WrittenFiles ==
  ASSUME PlanInv, plan # NoPlan, NEW r \in DOMAIN plan.sem.facts
  PROVE  /\ r \in Resources /\ plan.sem.ir \in Releases /\ plan.sem.facts[r] \in Facts
         /\ Written(r) \in File /\ Written(r).part = plan.sem.ir
         /\ r \in Replace => Written(r).user = 0
         /\ Written(r).user = Desired(r, plan.sem.facts[r], plan.sem.ir).user
<1>1. Sealed  BY DEF PlanInv
<1>2. r \in Resources /\ plan.sem.ir \in Releases /\ plan.sem.facts[r] \in Facts
  BY <1>1, RoundShape DEF Sealed
<1> DEFINE text == Desired(r, plan.sem.facts[r], plan.sem.ir)
<1>3. text.part = plan.sem.ir /\ (r \in Replace => text.user = 0) /\ text.user \in 0..MaxEdits
  BY <1>2, Parts DEF Desired, Facts, Text
<1>4. files[r].own \in BOOLEAN  BY <1>2 DEF PlanInv, File
<1> HIDE DEF text
<1>5. Written(r) = [user |-> text.user, part |-> text.part,
                    own |-> IF text = TextOf(files[r]) THEN files[r].own ELSE TRUE]
  BY DEF Written, text
<1>6. text.part \in 0..Damaged  BY <1>2, <1>3, Parts
<1>7. \A own \in BOOLEAN : [user |-> text.user, part |-> text.part, own |-> own] \in File
  BY <1>3, <1>6 DEF File
<1>8. (IF text = TextOf(files[r]) THEN files[r].own ELSE TRUE) \in BOOLEAN  BY <1>4
<1>9. Written(r) \in File  BY <1>5, <1>7, <1>8
<1> QED  BY <1>2, <1>3, <1>5, <1>9 DEF text

\* An apply changes the files of its plan, or none of them.
LEMMA ApplyWrites ==
  ASSUME PlanInv, Apply
  PROVE  /\ plan # NoPlan /\ Sealed /\ plan' = NoPlan
         /\ UNCHANGED << target, rounds, edits, projected >>
         /\ \/ UNCHANGED << files, recorded >>
            \/ /\ Finalizable
               /\ files' \in [Resources -> File]
               /\ \A r \in Resources :
                     files'[r] = IF r \in DOMAIN plan.sem.facts THEN Written(r) ELSE files[r]
               /\ recorded' = [ir |-> plan.sem.ir, paths |-> DOMAIN plan.sem.facts]
<1>1. plan # NoPlan /\ Sealed /\ plan' = NoPlan /\ UNCHANGED << target, rounds, edits, projected >>
  BY DEF Apply, PlanInv
<1>2. CASE ~Finalizable  BY <1>1, <1>2 DEF Apply
<1>3. CASE Finalizable
  <2>1. files' = [r \in Resources |->
                    IF r \in DOMAIN plan.sem.facts THEN Written(r) ELSE files[r]]
    BY <1>3 DEF Apply
  <2>2. \A r \in Resources : files[r] \in File  BY DEF PlanInv
  <2>3. files' \in [Resources -> File]  BY <1>1, <2>1, <2>2, WrittenFiles
  <2>4. recorded' = [ir |-> plan.sem.ir, paths |-> DOMAIN plan.sem.facts]
    BY <1>1, <1>3 DEF Apply, Sealed, Provenance
  <2> QED  BY <1>1, <1>3, <2>1, <2>3, <2>4
<1> QED  BY <1>2, <1>3

\* What is applied is one of the texts the plan has, or the one that is there.
LEMMA ApplyStep == PlanInv /\ Apply => PlanInv'
<1> SUFFICES ASSUME PlanInv, Apply PROVE PlanInv'  OBVIOUS
<1>1. CASE UNCHANGED << files, recorded >>
  BY <1>1, ApplyWrites DEF PlanInv
<1>2. CASE ~ UNCHANGED << files, recorded >>
  <2>1. /\ Finalizable /\ files' \in [Resources -> File]
        /\ \A r \in Resources :
              files'[r] = IF r \in DOMAIN plan.sem.facts THEN Written(r) ELSE files[r]
        /\ recorded' = [ir |-> plan.sem.ir, paths |-> DOMAIN plan.sem.facts]
    BY <1>2, ApplyWrites
  <2>2. plan # NoPlan /\ Sealed  BY ApplyWrites
  <2>3. plan.sem.ir \in Releases /\ DOMAIN plan.sem.facts \subseteq Resources
    BY <2>2, RoundShape DEF Sealed
  <2>4. \A r \in Replace : files'[r].user = 0 \/ files'[r].part = 0
    BY <2>1, <2>2, WrittenFiles DEF PlanInv, Resources
  <2>5. recorded' \in [ir : 0..MaxReleases, paths : SUBSET Resources] /\ recorded'.ir # 0
    BY <2>1, <2>3, Parts, BoundsAreNumbers
  <2>6. recorded'.paths \cap Sensitive \subseteq Replace
    BY <2>1 DEF Finalizable, Links
  <2> QED  BY <2>1, <2>4, <2>5, <2>6, ApplyWrites DEF PlanInv
<1> QED  BY <1>1, <1>2

\* The invariant holds of every behaviour.
LEMMA PlanInvariant == Spec => []PlanInv
<1>1. PlanInv /\ [Next]_vars => PlanInv'
  <2> SUFFICES ASSUME PlanInv, [Next]_vars PROVE PlanInv'  OBVIOUS
  <2>1. CASE UNCHANGED vars  BY <2>1 DEF vars, PlanInv, Sealed
  <2> QED  BY <2>1, EditStep, ProjectStep, SealStep, ApplyStep DEF Next
<1> QED  BY PlanInit, <1>1, PTL DEF Spec

-----------------------------------------------------------------------------
(* The properties *)

\* What was applied is accepted again.
LEMMA RecordedConverges == PlanInv => Converges
<1> SUFFICES ASSUME PlanInv, NEW r \in recorded.paths, NEW sure \in BOOLEAN,
                    files[r].part = recorded.ir
             PROVE  Decide(r, Fact(r, sure), recorded.ir)
                      = IF r \in Sensitive THEN "update" ELSE "noop"
  BY DEF Converges
<1>1. r \in Resources /\ recorded.ir \in Releases
  BY BoundsAreNumbers DEF PlanInv, Releases
<1>2. Managed(r)  BY DEF Managed
<1>3. Fact(r, sure) \in Facts /\ Fact(r, sure).text = TextOf(files[r])
      /\ Fact(r, sure).managed /\ ~Fact(r, sure).foreign
  BY <1>1, <1>2, FactShape DEF PlanInv
<1>4. r \in Replace => files[r].user = 0  BY <1>1, Parts DEF PlanInv
<1>5. r \in Sensitive => r \in Replace  BY DEF PlanInv
<1> QED  BY <1>1, <1>3, <1>4, <1>5, RecordedIsAccepted DEF TextOf

\* An apply keeps what is the user's.
LEMMA ApplyKeeps ==
  ASSUME PlanInv, Apply, NEW r \in DOMAIN plan.sem.facts,
         TextOf(files[r]) = plan.sem.facts[r].text, ~plan.sem.facts[r].managed
  PROVE  Kept(r, files[r], files'[r])
<1>1. plan # NoPlan /\ Sealed  BY ApplyWrites
<1>2. CASE UNCHANGED << files, recorded >>  BY <1>2 DEF Kept
<1>3. CASE ~ UNCHANGED << files, recorded >>
  <2> DEFINE fact == plan.sem.facts[r]
  <2>1. files'[r] = Written(r)  BY <1>1, <1>3, ApplyWrites, WrittenFiles
  <2>2. r \in Resources /\ fact \in Facts /\ plan.sem.ir \in Releases
        /\ Written(r).part = plan.sem.ir /\ Written(r).user = Desired(r, fact, plan.sem.ir).user
    BY <1>1, WrittenFiles
  <2>3. Decide(r, fact, plan.sem.ir) # "conflict"  BY <1>1 DEF Sealed, AllAdmitted
  <2>4. files[r].user = fact.text.user /\ files[r].part = fact.text.part  BY DEF TextOf
  <2>5. /\ fact.text.user # 0 => Desired(r, fact, plan.sem.ir).user = fact.text.user
        /\ (fact.text.part # 0 /\ (r \in Marker => fact.foreign)) => fact.text.part = plan.sem.ir
    BY <2>2, <2>3, AdmittedKeeps
  <2> QED  BY <2>1, <2>2, <2>4, <2>5 DEF Kept
<1> QED  BY <1>2, <1>3

\* The type of the state, with no conflict in a sealed plan (SealTransactionPlan).
THEOREM PlanTypeCorrect == Spec => []TypeOK
<1>1. PlanInv => TypeOK
  <2> SUFFICES ASSUME PlanInv PROVE TypeOK  OBVIOUS
  <2>1. \A round \in Rounds : IsRound(round)  BY RoundShape DEF IsRound
  <2>2. plan.sem \in Rounds  BY DEF PlanInv, Sealed, NoPlan, Rounds
  <2>3. rounds.last \in Rounds /\ rounds.before \in Rounds  BY DEF PlanInv
  <2>4. plan # NoPlan => \A r \in DOMAIN plan.sem.facts :
                            Decide(r, plan.sem.facts[r], plan.sem.ir) # "conflict"
    BY DEF PlanInv, Sealed, AllAdmitted
  <2> QED  BY <2>1, <2>2, <2>3, <2>4 DEF PlanInv, TypeOK
<1> QED  BY <1>1, PlanInvariant, PTL

\* A plan takes nothing of the user's that was observed out of any file; its facts
\* are those of the files when they were read again, its provenance names what
\* they hold, and what was applied is accepted when it is observed again (decide,
\* SealTransactionPlan, validateDrift, validateManifestBinding).
THEOREM PlansAreHonest == Spec => PlanIsHonest
<1>1. PlanInv /\ [Next]_vars =>
        [Applying => \A r \in DOMAIN plan.sem.facts :
           (TextOf(files[r]) = plan.sem.facts[r].text /\ ~plan.sem.facts[r].managed)
              => Kept(r, files[r], files'[r])]_vars
  <2> SUFFICES ASSUME PlanInv, Next, Applying, NEW r \in DOMAIN plan.sem.facts,
                      TextOf(files[r]) = plan.sem.facts[r].text, ~plan.sem.facts[r].managed
               PROVE  Kept(r, files[r], files'[r])
    OBVIOUS
  <2>1. Apply
    <3>1. ~Edit /\ ~Project  BY DEF Applying, Edit, Project
    <3>2. ~Seal  BY SealStep DEF Applying
    <3> QED  BY <3>1, <3>2 DEF Next
  <2> QED  BY <2>1, ApplyKeeps
<1>2. PlanInv /\ [Next]_vars =>
        [(plan' # plan /\ plan' # NoPlan /\ plan'.reread) =>
           \A r \in DOMAIN plan'.sem.facts : TextOf(files[r]) = plan'.sem.facts[r].text]_vars
  <2> SUFFICES ASSUME PlanInv, Next, plan' # plan, plan' # NoPlan, plan'.reread
               PROVE  \A r \in DOMAIN plan'.sem.facts : TextOf(files[r]) = plan'.sem.facts[r].text
    OBVIOUS
  <2>1. Seal  BY ApplyWrites DEF Next, Edit, Project
  <2> QED  BY <2>1, SealStep
<1>3. PlanInv /\ [Next]_vars =>
        [recorded' # recorded => \A r \in recorded'.paths : files'[r].part = recorded'.ir]_vars
  <2> SUFFICES ASSUME PlanInv, Next, recorded' # recorded, NEW r \in recorded'.paths
               PROVE  files'[r].part = recorded'.ir
    OBVIOUS
  <2>1. Apply  BY DEF Next, Edit, Project, Seal
  <2> QED  BY <2>1, ApplyWrites, WrittenFiles
<1> QED
  BY <1>1, <1>2, <1>3, RecordedConverges, PlanInvariant, PTL
  DEF Spec, PlanIsHonest, ForeignKept, FreshDrift, ProvenanceTells
=============================================================================
