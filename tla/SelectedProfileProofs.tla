------------------------- MODULE SelectedProfileProofs -------------------------
(***************************************************************************)
(* The profile store for every number of commands, projects and profiles:  *)
(* selections prepared without any authority, completed in any order, lent *)
(* and given back, lose nothing of each other.  And the compiler for every *)
(* set of tiers and keys, every project and target and any finite number   *)
(* of sources: what one source changes stays within its role, its tier and *)
(* its project.                                                            *)
(***************************************************************************)
EXTENDS SelectedProfile, FiniteSetTheorems, TLAPS

Assumptions ==
  /\ Store!KeyAssumption /\ Store!ProfileAssumption
  /\ Store!FileAssumption /\ Store!NobodyAssumption

USE DEF Store!Keys, Store!States, Store!Files, Store!Outcomes

\* What a lease has published differs from what it captured in its own key at
\* most, as far as a selection can tell.
LeaseIsOwn ==
  \A c \in Clients : pc[c] = "held" =>
    /\ file # Corrupt
    /\ \A k \in Store!Keys \ {key[c]} : Store!Selected(Store!Decoded(prior), k)
            = Store!Selected(Store!Decoded(file), k)

PInv == Store!TypeOK /\ LeaseIsOwn

-----------------------------------------------------------------------------
(* The operators *)

\* A file that can be decoded holds a state.
LEMMA DecodedIsState ==
  ASSUME Assumptions, NEW f \in Store!Files, f # Corrupt
  PROVE  Store!Decoded(f) \in Store!States
BY DEF Assumptions, Store!ProfileAssumption, Store!KeyAssumption, Store!Decoded, Store!Empty

\* Rebasing gives a state, which selects something else for its own key at most,
\* unless there is none: then it selects what there was (rebaseProfileState).
LEMMA RebasedIsOwn ==
  ASSUME Assumptions, NEW s \in Store!States, NEW r \in Roots, NEW k \in Store!Keys \cup {NoKey},
          NEW v \in Profiles
  PROVE  /\ Store!Rebased(r, k, v, s) \in Store!States
         /\ k \in Store!Keys => Store!Selected(Store!Rebased(r, k, v, s), k) = v
         /\ \A x \in Store!Keys \ {k} : Store!Selected(Store!Rebased(r, k, v, s), x)
                 = Store!Selected(s, x)
<1> USE DEF Assumptions, Store!ProfileAssumption, Store!KeyAssumption
<1>1. \A x \in Store!Keys : Store!Selected(s, x) \in Profiles \cup {NotSet}
  BY DEF Store!Selected
<1>2. Store!Rebased(r, k, v, s) \in Store!States
  <2>1. \A x \in Store!Keys : Store!Rebased(r, k, v, s)[x] \in Profiles \cup {NotSet, Missing}
    BY <1>1 DEF Store!Rebased
  <2>2. Store!Rebased(r, k, v, s)[Global] # Missing
    BY <1>1 DEF Store!Rebased
  <2>3. Store!Rebased(r, k, v, s) \in [Store!Keys -> Profiles \cup {NotSet, Missing}]
    BY <2>1 DEF Store!Rebased
  <2> QED  BY <2>2, <2>3
<1>3. k \in Store!Keys => Store!Selected(Store!Rebased(r, k, v, s), k) = v
  BY DEF Store!Selected, Store!Rebased
<1>4. \A x \in Store!Keys \ {k} : Store!Selected(Store!Rebased(r, k, v, s), x)
        = Store!Selected(s, x)
  BY <1>1 DEF Store!Selected, Store!Rebased
<1> QED  BY <1>2, <1>3, <1>4

-----------------------------------------------------------------------------
(* The invariant of the store *)

\* The command that ends is left with nothing to remember.
LEMMA EndsType ==
  ASSUME Assumptions, Store!TypeOK, NEW c \in Clients, NEW o \in Store!Outcomes, Store!Ends(c, o)
  PROVE  /\ pc' \in [Clients -> {"idle", "prepared", "held"}]
         /\ root' \in [Clients -> Roots] /\ base' \in [Clients -> Store!States]
         /\ key' \in [Clients -> Store!Keys \cup {NoKey}] /\ choice' \in [Clients -> Profiles]
         /\ outcome' \in [Clients -> Store!Outcomes]
         /\ pc'[c] = "idle" /\ \A d \in Clients \ {c} : pc'[d] = pc[d] /\ key'[d] = key[d]
<1>1. Store!AnyRoot \in Roots /\ Store!AnyProfile \in Profiles
  BY
  DEF Store!AnyRoot, Store!AnyProfile, Assumptions, Store!KeyAssumption, Store!ProfileAssumption
<1>2. Store!Empty \in Store!States
  BY DEF Store!Empty, Assumptions, Store!ProfileAssumption, Store!KeyAssumption
<1> QED  BY <1>1, <1>2 DEF Store!Ends, Store!Tell, Store!TypeOK

\* What a completion publishes.
LEMMA NewIsOwn ==
  ASSUME Assumptions, Store!TypeOK, NEW c \in Clients, file # Corrupt
  PROVE  /\ Store!Decoded(file) \in Store!States /\ Store!New(c) \in Store!States
          /\ Store!Decoded(Store!New(c)) = Store!New(c)
         /\ key[c] \in Store!Keys => Store!Selected(Store!New(c), key[c]) = choice[c]
         /\ \A k \in Store!Keys \ {key[c]} : Store!Selected(Store!New(c), k)
                 = Store!Selected(Store!Decoded(file), k)
<1>1. Store!Decoded(file) \in Store!States  BY DecodedIsState DEF Store!TypeOK
<1>2. root[c] \in Roots /\ key[c] \in Store!Keys \cup {NoKey} /\ choice[c] \in Profiles
  BY DEF Store!TypeOK
<1>3. Store!New(c) \in Store!States
      /\ (key[c] \in Store!Keys => Store!Selected(Store!New(c), key[c]) = choice[c])
      /\ \A k \in Store!Keys \ {key[c]} : Store!Selected(Store!New(c), k)
              = Store!Selected(Store!Decoded(file), k)
  BY <1>1, <1>2, RebasedIsOwn DEF Store!New
<1>4. Store!Decoded(Store!New(c)) = Store!New(c)
  BY <1>3 DEF Store!Decoded, Assumptions, Store!FileAssumption
<1> QED  BY <1>1, <1>3, <1>4

\* At first nobody has prepared anything.
LEMMA InitPInv == ASSUME Assumptions, Store!Init PROVE PInv
<1>1. Store!AnyRoot \in Roots /\ Store!AnyProfile \in Profiles
  BY
  DEF Store!AnyRoot, Store!AnyProfile, Assumptions, Store!KeyAssumption, Store!ProfileAssumption
<1>2. Store!Empty \in Store!States
  BY DEF Store!Empty, Assumptions, Store!ProfileAssumption, Store!KeyAssumption
<1> QED
  BY <1>1, <1>2
  DEF Store!Init, PInv, Store!TypeOK, LeaseIsOwn, Assumptions, Store!NobodyAssumption

\* The invariant is inductive.
LEMMA PInvStep == ASSUME Assumptions, PInv, [Store!Next]_(Store!svars) PROVE PInv'
<1> USE DEF PInv
<1>0. Nobody \notin Clients  BY DEF Assumptions, Store!NobodyAssumption
<1>1. ASSUME NEW c \in Clients, NEW r \in Roots, NEW k \in Store!Keys \cup {NoKey},
        NEW v \in Profiles,
             Store!Prepare(c, r, k, v)
      PROVE  PInv'
  <2>1. Store!TypeOK'
    <3>1. CASE UNCHANGED <<pc, root, base, key, choice>>
      BY <1>1, <3>1 DEF Store!TypeOK, Store!Prepare, Store!Tell
    <3>2. CASE ~UNCHANGED <<pc, root, base, key, choice>>
      <4>1. Store!Decoded(file) \in Store!States
        BY <1>1, <3>2, DecodedIsState DEF Store!Prepare, Store!Loads, Store!TypeOK
      <4>2. /\ pc' = [pc EXCEPT ![c] = "prepared"] /\ pc[c] = "idle"
            /\ root' = [root EXCEPT ![c] = r] /\ base' = [base EXCEPT ![c] = Store!Decoded(file)]
            /\ key' = [key EXCEPT ![c] = k] /\ choice' = [choice EXCEPT ![c] = v]
            /\ outcome' = [outcome EXCEPT ![c] = "none"] /\ UNCHANGED <<file, owner, prior>>
        BY <1>1, <3>2 DEF Store!Prepare, Store!Tell
      <4>3. \A d \in Clients : pc'[d] = "held" <=> owner' = d  BY <4>2 DEF Store!TypeOK
      <4> QED  BY <4>1, <4>2, <4>3 DEF Store!TypeOK
    <3> QED  BY <3>1, <3>2
  <2>2. LeaseIsOwn'  BY <1>1 DEF Store!TypeOK, LeaseIsOwn, Store!Prepare
  <2> QED  BY <2>1, <2>2
<1>2. ASSUME NEW c \in Clients, NEW o \in Store!Outcomes, Store!Ends(c, o),
        UNCHANGED <<owner, prior>>,
             pc[c] = "prepared", file' = file \/ (owner = Nobody /\ file' \in Store!States)
      PROVE  PInv'
  <2>1. Store!TypeOK'  BY ZenonT(40), <1>2, EndsType DEF Store!TypeOK
  <2>2. ASSUME NEW d \in Clients, pc'[d] = "held"
        PROVE  pc[d] = "held" /\ key'[d] = key[d] /\ file' = file /\ prior' = prior
    <3>1. pc'[c] = "idle" /\ \A x \in Clients \ {c} : pc'[x] = pc[x] /\ key'[x] = key[x]
      BY <1>2, EndsType
    <3>2. d # c /\ pc[d] = "held" /\ key'[d] = key[d]  BY <2>2, <3>1
    <3>3. owner = d  BY <3>2 DEF Store!TypeOK
    <3> QED  BY <1>0, <1>2, <3>2, <3>3
  <2>3. LeaseIsOwn'  BY <2>2 DEF LeaseIsOwn
  <2> QED  BY <2>1, <2>3
<1>3. ASSUME NEW c \in Clients, Store!BeginLease(c)  PROVE PInv'
  <2>1. /\ owner = Nobody /\ file # Corrupt /\ owner' = c /\ prior' = file /\ file' = Store!New(c)
        /\ pc' = [pc EXCEPT ![c] = "held"] /\ UNCHANGED <<root, base, key, choice>>
    BY <1>3 DEF Store!BeginLease
  <2>2. Store!TypeOK'
    <3>1. Store!New(c) \in Store!States  BY <2>1, NewIsOwn
    <3>2. \A d \in Clients : pc'[d] = "held" <=> owner' = d  BY <1>0, <2>1 DEF Store!TypeOK
    <3>3. outcome' \in [Clients -> Store!Outcomes]
      BY <1>3 DEF Store!TypeOK, Store!BeginLease, Store!Tell
    <3> QED  BY <2>1, <3>1, <3>2, <3>3 DEF Store!TypeOK
  <2>3. \A d \in Clients : pc'[d] = "held" => d = c  BY <2>1, <2>2 DEF Store!TypeOK
  <2>4. LeaseIsOwn'
    <3>1. Store!New(c) # Corrupt  BY <2>1, NewIsOwn DEF Assumptions, Store!FileAssumption
    <3> QED  BY <2>1, <2>3, <3>1, NewIsOwn DEF LeaseIsOwn
  <2> QED  BY <2>2, <2>4
<1>4. ASSUME NEW c \in Clients, NEW o \in Store!Outcomes, Store!EndLease(c, o),
        file' \in {file, prior}
      PROVE  PInv'
  <2>1. owner = c /\ owner' = Nobody /\ prior' = Absent
    BY <1>4 DEF Store!EndLease, Store!TypeOK
  <2>2. Store!TypeOK'
    <3>1. Store!Ends(c, o)  BY <1>4 DEF Store!EndLease
    <3>2. \A d \in Clients : pc'[d] = "held" <=> owner' = d
      <4>1. pc'[c] = "idle" /\ \A d \in Clients \ {c} : pc'[d] = pc[d]  BY <3>1, EndsType
      <4> QED  BY <1>0, <2>1, <4>1 DEF Store!TypeOK
    <3> QED  BY <1>4, <2>1, <3>1, <3>2, EndsType DEF Store!TypeOK
  <2>3. LeaseIsOwn'  BY <1>0, <2>1, <2>2 DEF Store!TypeOK, LeaseIsOwn
  <2> QED  BY <2>2, <2>3
<1>5. CASE Store!Tamper
  <2>1. Store!TypeOK'  BY <1>5 DEF Store!TypeOK, Store!Tamper, Store!clients
  <2>2. LeaseIsOwn'  BY <1>0, <1>5, <2>1 DEF Store!TypeOK, LeaseIsOwn, Store!Tamper
  <2> QED  BY <2>1, <2>2
<1>6. CASE UNCHANGED Store!svars
  BY <1>6 DEF Store!svars, Store!clients, Store!TypeOK, LeaseIsOwn
<1>7. ASSUME NEW c \in Clients, Store!Act(c)  PROVE PInv'
  <2>1. CASE Store!Skip(c) \/ Store!Busy(c) \/ Store!Reject(c)
    BY <1>2, <2>1 DEF Store!Skip, Store!Busy, Store!Reject
  <2>2. CASE Store!Complete(c)
    <3>1. Store!New(c) \in Store!States  BY <2>2, NewIsOwn DEF Store!Complete
    <3> QED  BY <1>2, <2>2, <3>1 DEF Store!Complete
  <2>3. CASE Store!CommitLease(c) \/ Store!RestoreLease(c) \/ Store!Die(c)
    BY <1>4, <2>3 DEF Store!CommitLease, Store!RestoreLease, Store!Die
  <2> QED  BY <1>3, <1>7, <2>1, <2>2, <2>3 DEF Store!Act
<1> QED  BY <1>1, <1>5, <1>6, <1>7 DEF Store!Next

\* The inductive invariant holds of every run.
THEOREM StoreInductive == ASSUME Assumptions PROVE Store!Spec => []PInv
<1>1. Store!Init => PInv  BY InitPInv
<1>2. PInv /\ [Store!Next]_(Store!svars) => PInv'  BY PInvStep
<1> QED  BY <1>1, <1>2, PTL DEF Store!Spec

-----------------------------------------------------------------------------
(* What it is for *)

\* The state keeps its shape, and the authority is held by exactly the command
\* whose lease is open.
THEOREM StoreTypeCorrect == ASSUME Assumptions PROVE Store!Spec => []Store!TypeOK
<1>1. PInv => Store!TypeOK  BY DEF PInv
<1> QED  BY <1>1, StoreInductive, PTL

\* A step that takes a command out of "prepared" and changes the file publishes
\* what is rebased on the file, which has not moved on for it.
LEMMA CompletionsRebase ==
  ASSUME Assumptions, PInv, Store!Next, NEW c \in Clients, pc'[c] # pc[c], Store!Completes(c)
  PROVE  file' = Store!New(c) /\ ~Store!StaleFor(c)
<1>1. ~ \E d \in Clients, r \in Roots, k \in Store!Keys \cup {NoKey}, v \in Profiles :
        Store!Prepare(d, r, k, v)
  BY DEF Store!Prepare, Store!Completes
<1>2. ~Store!Tamper  BY DEF Store!Tamper, Store!clients
<1>3. PICK d \in Clients : Store!Act(d)  BY <1>1, <1>2 DEF Store!Next
<1>4. d = c
  BY <1>3
  DEF PInv, Store!TypeOK, Store!Act, Store!Skip, Store!Busy, Store!Reject, Store!Complete,
      Store!BeginLease, Store!CommitLease, Store!RestoreLease,
              Store!Die, Store!EndLease, Store!Ends
<1>5. CASE Store!Skip(c) \/ Store!Busy(c) \/ Store!Reject(c)
  BY <1>5 DEF Store!Skip, Store!Busy, Store!Reject, Store!Completes
<1>6. CASE Store!CommitLease(c) \/ Store!RestoreLease(c) \/ Store!Die(c)
  BY <1>6 DEF Store!CommitLease, Store!RestoreLease, Store!Die, Store!EndLease, Store!Completes
<1>7. CASE Store!Complete(c) \/ Store!BeginLease(c)
  BY <1>7 DEF Store!Complete, Store!BeginLease, Store!Completes
<1> QED  BY <1>3, <1>4, <1>5, <1>6, <1>7 DEF Store!Act

\* No update is lost: a completion changes its own selection at most, and only
\* from the value that its command saw when it prepared (rebaseProfileState).
THEOREM NoUpdateIsLost == ASSUME Assumptions PROVE Store!Spec => Store!ChangesOnlyWhatItSaw
<1>1. ASSUME PInv, Store!Next, NEW c \in Clients, pc'[c] # pc[c], Store!Completes(c),
             NEW k \in Store!Keys, Store!Selected(Store!Decoded(file'), k)
                     # Store!Selected(Store!Decoded(file), k)
      PROVE  k = key[c] /\ Store!Selected(Store!Decoded(file), k) = Store!Selected(base[c], k)
  <2>1. file' = Store!New(c) /\ ~Store!StaleFor(c)  BY <1>1, CompletionsRebase
  <2>2. k = key[c] /\ Store!Selected(Store!New(c), k) = choice[c]
          /\ Store!Decoded(Store!New(c)) = Store!New(c)
    BY <1>1, <2>1, NewIsOwn DEF PInv, Store!Completes
  <2>3. key[c] # NoKey  BY <1>1, <2>2 DEF Assumptions, Store!KeyAssumption
  <2>4. Store!Selected(Store!Decoded(file), k) \in {choice[c], Store!Selected(base[c], k)}
    BY <2>1, <2>2, <2>3 DEF Store!StaleFor, Store!Stale
  <2> QED  BY <1>1, <2>1, <2>2, <2>4
<1>2. PInv /\ [Store!Next]_(Store!svars) =>
        [\A c \in Clients : pc'[c] # pc[c] /\ Store!Completes(c) =>
       \A k \in Store!Keys : Store!Selected(Store!Decoded(file'), k)
               # Store!Selected(Store!Decoded(file), k) =>
         k = key[c] /\ Store!Selected(Store!Decoded(file), k)
                 = Store!Selected(base[c], k)]_(Store!svars)
  BY <1>1
<1> QED  BY <1>2, StoreInductive, PTL DEF Store!Spec, Store!ChangesOnlyWhatItSaw

\* A conflict has a reason: the project's record has gone, or somebody has given
\* the selected key a third value (rebaseProfileState).
THEOREM ConflictsAreReal == ASSUME Assumptions PROVE Store!Spec => Store!ConflictIsJustified
<1>1. ASSUME PInv, Store!Next, NEW c \in Clients, outcome'[c] = "conflict",
        outcome[c] # "conflict"
      PROVE  Store!StaleFor(c)
  <2>1. ~ \E d \in Clients, r \in Roots, k \in Store!Keys \cup {NoKey}, v \in Profiles :
          Store!Prepare(d, r, k, v)
    BY <1>1 DEF Store!Prepare, Store!Tell, PInv, Store!TypeOK
  <2>2. ~Store!Tamper  BY <1>1 DEF Store!Tamper
  <2>3. PICK d \in Clients : Store!Act(d)  BY <1>1, <2>1, <2>2 DEF Store!Next
  <2>4. CASE Store!Reject(d)
    BY <1>1, <2>4 DEF Store!Reject, Store!Ends, Store!Tell, PInv, Store!TypeOK
  <2>5. CASE ~Store!Reject(d)
    BY <1>1, <2>3, <2>5
    DEF Store!Act, Store!Skip, Store!Busy, Store!Complete, Store!BeginLease, Store!CommitLease,
        Store!RestoreLease, Store!Die,
       Store!EndLease, Store!Ends, Store!Tell, PInv, Store!TypeOK
  <2> QED  BY <2>4, <2>5
<1>2. PInv /\ [Store!Next]_(Store!svars) =>
        [\A c \in Clients : outcome'[c] = "conflict" /\ outcome[c] # "conflict" =>
       \/ base[c][root[c]] # Missing /\ Store!Decoded(file)[root[c]] = Missing
       \/ /\ key[c] # NoKey /\ Store!Selected(Store!Decoded(file), key[c]) # choice[c]
          /\ Store!Selected(Store!Decoded(file), key[c])
                  # Store!Selected(base[c], key[c])]_(Store!svars)
  BY <1>1 DEF Store!StaleFor, Store!Stale
<1> QED  BY <1>2, StoreInductive, PTL DEF Store!Spec, Store!ConflictIsJustified

\* While a lease is open only its owner changes the file, to what it captured.
LEMMA LeaseRestores ==
  ASSUME Assumptions, PInv, Store!Next, NEW c \in Clients, pc[c] = "held", file' # file
  PROVE  file' = prior
<1>0. owner = c /\ Nobody \notin Clients
  BY DEF PInv, Store!TypeOK, Assumptions, Store!NobodyAssumption
<1>1. ~ \E d \in Clients, r \in Roots, k \in Store!Keys \cup {NoKey}, v \in Profiles :
        Store!Prepare(d, r, k, v)
  BY DEF Store!Prepare
<1>2. ~Store!Tamper  BY <1>0 DEF Store!Tamper
<1>3. PICK d \in Clients : Store!Act(d)  BY <1>1, <1>2 DEF Store!Next
<1> QED
  BY <1>0, <1>3
  DEF Store!Act, Store!Skip, Store!Busy, Store!Reject, Store!Complete, Store!BeginLease,
      Store!CommitLease, Store!RestoreLease, Store!Die

\* A lease takes back its own selection and no other (profileCompletionLease).
THEOREM LeaseTakesBackItsOwn == ASSUME Assumptions PROVE Store!Spec => Store!RestoresItsOwn
<1>1. PInv /\ [Store!Next]_(Store!svars) => [\A c \in Clients : pc[c] = "held" /\ file' # file =>
       \A k \in Store!Keys \ {key[c]} : Store!Selected(Store!Decoded(file'), k)
               = Store!Selected(Store!Decoded(file), k)]_(Store!svars)
  BY LeaseRestores DEF PInv, LeaseIsOwn
<1> QED  BY <1>1, StoreInductive, PTL DEF Store!Spec, Store!RestoresItsOwn

\* A file that cannot be decoded is left to its owner (decodeProfileState).
THEOREM CorruptionIsLeft == ASSUME Assumptions PROVE Store!Spec => Store!CorruptIsKept
<1>1. ASSUME PInv, Store!Next, file = Corrupt, file' # file  PROVE file' = Absent
  <2>1. ~ \E d \in Clients, r \in Roots, k \in Store!Keys \cup {NoKey}, v \in Profiles :
          Store!Prepare(d, r, k, v)
    BY <1>1 DEF Store!Prepare
  <2>2. ASSUME NEW d \in Clients, Store!Act(d)  PROVE FALSE
    <3>1. pc[d] # "held"  BY <1>1 DEF PInv, LeaseIsOwn
    <3> QED
      BY <1>1, <2>2, <3>1
      DEF Store!Act, Store!Skip, Store!Busy, Store!Reject, Store!Complete, Store!BeginLease,
          Store!CommitLease, Store!RestoreLease,
         Store!Die, Store!EndLease
  <2> QED  BY <1>1, <2>1, <2>2 DEF Store!Next, Store!Tamper
<1>2. PInv /\ [Store!Next]_(Store!svars) => [file = Corrupt =>
        file' \in {Corrupt, Absent}]_(Store!svars)
  BY <1>1
<1> QED  BY <1>2, StoreInductive, PTL DEF Store!Spec, Store!CorruptIsKept

-----------------------------------------------------------------------------
(* The two halves together *)

\* Whatever half of the program a behaviour is about, it is one of the store.
LEMMA StoreRuns == Spec => Store!Spec
<1>1. Init => Store!Init  BY DEF Init
<1>2. [Next]_<<half, storeVars, compileVars>> => [Store!Next]_(Store!svars)
  BY DEF Next, storeVars, Store!svars, Store!clients
<1> QED  BY <1>1, <1>2, PTL DEF Spec, Store!Spec

\* No selection of a profile is lost, none is refused without a reason, a lease
\* takes back its own only and an unreadable file is left alone, whatever other
\* commands have completed since (rebaseProfileState, profileCompletionLease).
THEOREM SelectionsAreKept == Spec => SelectionIsKept
<1>1. Assumptions  BY StoreAssumption DEF Assumptions
<1> QED
  BY <1>1, StoreRuns, NoUpdateIsLost, ConflictsAreReal, LeaseTakesBackItsOwn, CorruptionIsLeft
  DEF SelectionIsKept

-----------------------------------------------------------------------------
(* The values a role may take are finitely many and in one order *)

\* What Compiler!Value makes of a source.
RoleValues == [kind : {"profile", "override"}, key : Nat, tier : Nat]

\* A source comes before another one, and then not the other way round.
LEMMA BeforeOrders ==
  ASSUME NEW a \in RoleValues, NEW b \in RoleValues, NEW c \in RoleValues
  PROVE  /\ a = b \/ Compiler!Before(a, b) \/ Compiler!Before(b, a)
         /\ ~(Compiler!Before(a, b) /\ Compiler!Before(b, a)) /\ ~Compiler!Before(a, a)
         /\ Compiler!Before(a, b) /\ Compiler!Before(b, c) => Compiler!Before(a, c)
BY DEF RoleValues, Compiler!Before

\* Of finitely many values one comes first: a set without one would have a
\* smallest subset without one, and that has one value more than a set with one.
LEMMA FirstExists ==
  ASSUME NEW S \in SUBSET RoleValues, IsFiniteSet(S), S # {}
  PROVE  \E v \in S : \A o \in S : o = v \/ Compiler!Before(v, o)
<1> DEFINE HasFirst(T) == \E v \in T : \A o \in T : o = v \/ Compiler!Before(v, o)
           Bad == {T \in FiniteSubsetsOf(S) : T # {} /\ ~HasFirst(T)}
<1>1. SUFFICES ASSUME Bad # {} PROVE FALSE
  BY DEF FiniteSubsetsOf
<1>2. PICK T \in Bad : \A U \in Bad : ~(<<U, T>> \in StrictSubsetOrdering(S))
  <2>1. IsWellFoundedOn(StrictSubsetOrdering(S), FiniteSubsetsOf(S))
    BY FS_StrictSubsetOrderingWellFounded
  <2>2. Bad \subseteq FiniteSubsetsOf(S)  OBVIOUS
  <2> HIDE DEF Bad
  <2> QED  BY <1>1, <2>1, <2>2, WFMin
<1>3. T \subseteq S /\ IsFiniteSet(T) /\ T # {} /\ ~HasFirst(T)  BY <1>2 DEF FiniteSubsetsOf
<1>4. PICK x \in T : TRUE  BY <1>3
<1>5. IsFiniteSet(T \ {x})  BY <1>3, FS_RemoveElement
<1>6. <<T \ {x}, T>> \in StrictSubsetOrdering(S)  BY <1>3, <1>4 DEF StrictSubsetOrdering
<1>7. T \ {x} = {} \/ HasFirst(T \ {x})
  <2>1. T \ {x} \notin Bad  BY <1>2, <1>6
  <2> QED  BY <1>3, <1>5, <2>1 DEF FiniteSubsetsOf
<1>8. CASE T \ {x} = {}  BY <1>3, <1>4, <1>8
<1>9. CASE HasFirst(T \ {x})
  <2>1. PICK v \in T \ {x} : \A o \in T \ {x} : o = v \/ Compiler!Before(v, o)  BY <1>9
  <2>2. v \in RoleValues /\ x \in RoleValues /\ T \subseteq RoleValues  BY <1>3, <1>4, <2>1
  <2>3. CASE Compiler!Before(v, x)  BY <1>3, <2>1, <2>3
  <2>4. CASE Compiler!Before(x, v)
    <3>1. \A o \in T : o = x \/ Compiler!Before(x, o)
      BY <2>1, <2>2, <2>4, BeforeOrders
    <3> QED  BY <1>3, <1>4, <3>1
  <2> QED  BY <2>1, <2>2, <2>3, <2>4, BeforeOrders
<1> QED  BY <1>7, <1>8, <1>9

\* First is the one that comes first, and the only one.
LEMMA FirstIsFirst ==
  ASSUME NEW S \in SUBSET RoleValues, IsFiniteSet(S), S # {}
  PROVE  /\ Compiler!First(S) \in S
         /\ \A o \in S : o = Compiler!First(S) \/ Compiler!Before(Compiler!First(S), o)
BY FirstExists DEF Compiler!First

\* Whoever comes first is First.
LEMMA FirstIsUnique ==
  ASSUME NEW S \in SUBSET RoleValues, NEW v \in S,
         \A o \in S : o = v \/ Compiler!Before(v, o)
  PROVE  Compiler!First(S) = v
<1>1. \A w \in S : (\A o \in S : o = w \/ Compiler!Before(w, o)) => w = v
  BY BeforeOrders
<1> QED  BY <1>1 DEF Compiler!First

-----------------------------------------------------------------------------
(* The sources *)

\* The shape of the sources, without what they resolve to.
SourcesOK ==
  /\ candidates \in [CandidateKeys -> Compiler!Candidate \cup {Compiler!Unset}]
  /\ overrides \in [OverrideKeys -> Compiler!Override \cup {Compiler!Unset}]
  /\ active \in Projects \cup {""} /\ target \in Targets
  /\ requested \in Capabilities \cup {"none"} /\ intent \in Compiler!Intents

\* Sources that are set propose values.
LEMMA ProposedValues ==
  ASSUME SourcesOK, NEW role
  PROVE  /\ Compiler!ProfileValues \subseteq Compiler!ValuesOf(role)
         /\ Compiler!ValuesOf(role) \subseteq RoleValues
         /\ IsFiniteSet(Compiler!ProfileValues) /\ IsFiniteSet(Compiler!ValuesOf(role))
         /\ Compiler!Matching # {} => Compiler!ProfileValues # {}
<1>0. /\ Tiers \subseteq Nat /\ CandidateKeys \subseteq Nat /\ OverrideKeys \subseteq Nat
      /\ IsFiniteSet(CandidateKeys) /\ IsFiniteSet(OverrideKeys)
  BY CompilerAssumption
  DEF Compiler!KeysAndTiersAreOrdered, Compiler!SourcesAreFinite, Compiler!IsFiniteSet,
      IsFiniteSet
<1> DEFINE Overriding == {Compiler!Value("override", k, overrides[k].tier) :
        k \in Compiler!OverridesFor(role)}
<1>1. \A k \in Compiler!Matching : k \in Nat /\ candidates[k].tier \in Nat
  <2> SUFFICES ASSUME NEW k \in Compiler!Matching PROVE k \in Nat /\ candidates[k].tier \in Nat
    OBVIOUS
  <2>1. k \in CandidateKeys /\ candidates[k].set  BY DEF Compiler!Matching
  <2>2. candidates[k] # Compiler!Unset  BY <2>1 DEF Compiler!Unset
  <2>3. candidates[k] \in Compiler!Candidate  BY <2>1, <2>2 DEF SourcesOK
  <2> QED  BY <1>0, <2>1, <2>3 DEF Compiler!Candidate
<1>2. \A k \in Compiler!OverridesFor(role) : k \in Nat /\ overrides[k].tier \in Nat
  <2> SUFFICES ASSUME NEW k \in Compiler!OverridesFor(role)
          PROVE k \in Nat /\ overrides[k].tier \in Nat
    OBVIOUS
  <2>1. k \in OverrideKeys /\ overrides[k].set  BY DEF Compiler!OverridesFor
  <2>2. overrides[k] # Compiler!Unset  BY <2>1 DEF Compiler!Unset
  <2>3. overrides[k] \in Compiler!Override  BY <2>1, <2>2 DEF SourcesOK
  <2> QED  BY <1>0, <2>1, <2>3 DEF Compiler!Override
<1>3. Compiler!ProfileValues \subseteq RoleValues
  BY <1>1 DEF Compiler!ProfileValues, RoleValues, Compiler!Value
<1>4. Overriding \subseteq RoleValues
  BY <1>2 DEF RoleValues, Compiler!Value
<1>5. IsFiniteSet(Compiler!Matching) /\ IsFiniteSet(Compiler!OverridesFor(role))
  <2>1. Compiler!Matching \in SUBSET CandidateKeys
          /\ Compiler!OverridesFor(role) \in SUBSET OverrideKeys
    BY DEF Compiler!Matching, Compiler!OverridesFor
  <2> QED  BY <1>0, <2>1, FS_Subset
<1>6. IsFiniteSet(Compiler!ProfileValues)
  <2> DEFINE f == [k \in Compiler!Matching |-> Compiler!Value("profile", k, candidates[k].tier)]
  <2>1. f \in Surjection(Compiler!Matching, Compiler!ProfileValues)
    BY DEF Surjection, Compiler!ProfileValues
  <2> QED  BY <1>5, <2>1, FS_Surjection
<1>7. IsFiniteSet(Overriding)
  <2> DEFINE f == [k \in Compiler!OverridesFor(role) |->
          Compiler!Value("override", k, overrides[k].tier)]
  <2>1. f \in Surjection(Compiler!OverridesFor(role), Overriding)
    BY DEF Surjection
  <2> QED  BY <1>5, <2>1, FS_Surjection
<1>8. Compiler!ValuesOf(role) = Compiler!ProfileValues \cup Overriding
  BY DEF Compiler!ValuesOf
<1>9. IsFiniteSet(Compiler!ValuesOf(role))
  <2> HIDE DEF Overriding
  <2> QED  BY <1>6, <1>7, <1>8, FS_Union
<1> QED  BY <1>3, <1>4, <1>6, <1>8, <1>9 DEF Compiler!ProfileValues

-----------------------------------------------------------------------------
(* What the sources are, always *)

\* The sources keep their shape whatever is set, removed or reordered.
LEMMA SourcesStep == SourcesOK /\ [Compiler!Next]_(Compiler!vars) => SourcesOK'
<1> SUFFICES ASSUME SourcesOK, [Compiler!Next]_(Compiler!vars) PROVE SourcesOK'  OBVIOUS
<1> USE DEF SourcesOK
<1>1. ASSUME NEW k \in CandidateKeys, Compiler!SetCandidate(k)  PROVE SourcesOK'
  BY <1>1 DEF Compiler!SetCandidate
<1>2. ASSUME NEW k \in OverrideKeys, Compiler!SetOverride(k)  PROVE SourcesOK'
  BY <1>2 DEF Compiler!SetOverride
<1>3. CASE Compiler!EnterProject  BY <1>3 DEF Compiler!EnterProject
<1>4. CASE Compiler!Ask  BY <1>4 DEF Compiler!Ask
<1>5. CASE Compiler!Reorder  BY <1>5 DEF Compiler!Reorder
<1>6. CASE UNCHANGED Compiler!vars  BY <1>6 DEF Compiler!vars
<1> QED  BY <1>1, <1>2, <1>3, <1>4, <1>5, <1>6 DEF Compiler!Next

\* What is admitted selects a defined profile, whose source is one that counts.
LEMMA WinnerMatches ==
  ASSUME SourcesOK, Compiler!Admitted
  PROVE  /\ Compiler!Winner \in Compiler!Matching
         /\ Compiler!First(Compiler!ProfileValues)
              = Compiler!Value("profile", Compiler!Winner, candidates[Compiler!Winner].tier)
         /\ Compiler!Selected \in Compiler!ProfileNames
<1>1. Compiler!Matching # {}  BY DEF Compiler!Admitted
<1>2. Compiler!First(Compiler!ProfileValues) \in Compiler!ProfileValues
  BY <1>1, ProposedValues, FirstIsFirst
<1>3. PICK k \in Compiler!Matching :
        Compiler!First(Compiler!ProfileValues) = Compiler!Value("profile", k, candidates[k].tier)
  BY <1>2 DEF Compiler!ProfileValues
<1>4. Compiler!Winner = k  BY <1>3 DEF Compiler!Winner, Compiler!Value
<1>5. candidates[k].profile \in Compiler!ProfileNames
  BY <1>3 DEF Compiler!Admitted, Compiler!Matching
<1> QED  BY <1>3, <1>4, <1>5 DEF Compiler!Selected

\* The types of the sources make those of what they resolve to.
LEMMA ResolvedType == SourcesOK => Compiler!TypeOK
<1> SUFFICES ASSUME SourcesOK, Compiler!Admitted,
                    NEW role \in Compiler!Roles, Compiler!Resolved[role][1] = "override"
             PROVE  /\ overrides[Compiler!Resolved[role][2]].set
                    /\ overrides[Compiler!Resolved[role][2]].role = role
  BY WinnerMatches DEF SourcesOK, Compiler!TypeOK
<1> DEFINE v == Compiler!First(Compiler!ValuesOf(role))
<1>1. v \in Compiler!ValuesOf(role)
  <2>1. Compiler!ValuesOf(role) # {}  BY ProposedValues DEF Compiler!Admitted
  <2> QED  BY <2>1, ProposedValues, FirstIsFirst
<1>2. Compiler!Resolved[role] = Compiler!ModelOf(role, v)  BY DEF Compiler!Resolved
<1> HIDE DEF v
<1>3. CASE v \in Compiler!ProfileValues
  <2>1. PICK k \in Compiler!Matching : v = Compiler!Value("profile", k, candidates[k].tier)
    BY <1>3 DEF Compiler!ProfileValues
  <2>2. candidates[k].profile \in {"plain", "review"}
    BY <2>1 DEF Compiler!Admitted, Compiler!Matching, Compiler!ProfileNames
  <2>3. Compiler!Resolved[role][1] \in {"candidate", candidates[k].profile}
    BY <1>2, <2>1 DEF Compiler!ModelOf, Compiler!Value
  <2> QED  BY <2>2, <2>3
<1>4. CASE v \notin Compiler!ProfileValues
  <2>1. PICK k \in Compiler!OverridesFor(role) : v
          = Compiler!Value("override", k, overrides[k].tier)
    BY <1>1, <1>4 DEF Compiler!ValuesOf
  <2>2. Compiler!Resolved[role][2] = k
    BY <1>2, <2>1 DEF Compiler!ModelOf, Compiler!Value
  <2> QED  BY <2>2 DEF Compiler!OverridesFor
<1> QED  BY <1>3, <1>4

\* A behaviour of the two halves is one of the compiler.
LEMMA SourcesInvariant == Spec => [](SourcesOK /\ Compiler!TypeOK)
<1>1. Init => SourcesOK
  BY DEF Init, Compiler!Init, SourcesOK, Compiler!Intents
<1>2. [Next]_<<half, storeVars, compileVars>> => [Compiler!Next]_(Compiler!vars)
  BY DEF Next, compileVars, Compiler!vars
<1> QED  BY <1>1, <1>2, SourcesStep, ResolvedType, PTL DEF Spec

-----------------------------------------------------------------------------
(* What a step leaves alone *)

\* Steps that change the sources of profiles change nothing else.
LEMMA OnlyCandidates ==
  ASSUME SourcesOK, Compiler!Next, NEW k \in CandidateKeys, candidates'[k] # candidates[k]
  PROVE  /\ candidates' = [candidates EXCEPT ![k] = candidates'[k]]
         /\ candidates'[k] \in Compiler!Candidate \cup {Compiler!Unset}
         /\ UNCHANGED <<overrides, defs, active>>
<1>1. PICK l \in CandidateKeys : Compiler!SetCandidate(l)
  BY
  DEF Compiler!Next, Compiler!SetOverride, Compiler!EnterProject, Compiler!Ask, Compiler!Reorder
<1> QED  BY <1>1 DEF Compiler!SetCandidate, SourcesOK

\* Steps that change an override change nothing else.
LEMMA OnlyOverrides ==
  ASSUME SourcesOK, Compiler!Next, NEW k \in OverrideKeys, overrides'[k] # overrides[k]
  PROVE  /\ overrides' = [overrides EXCEPT ![k] = overrides'[k]]
         /\ UNCHANGED <<candidates, defs, active>>
<1>1. PICK l \in OverrideKeys : Compiler!SetOverride(l)
  BY
  DEF Compiler!Next, Compiler!SetCandidate, Compiler!EnterProject, Compiler!Ask,
      Compiler!Reorder
<1> QED  BY <1>1 DEF Compiler!SetOverride, SourcesOK

\* Where the matching candidates are as before, so are what they propose, the
\* profile that is selected and the model any value stands for.
LEMMA SameCandidates ==
  ASSUME Compiler!Matching' = Compiler!Matching, UNCHANGED defs,
         \A k \in Compiler!Matching : candidates'[k] = candidates[k]
  PROVE  /\ Compiler!ProfileValues' = Compiler!ProfileValues
         /\ Compiler!Winner' = Compiler!Winner
         /\ \A p : Compiler!Edition(p)' = Compiler!Edition(p)
         /\ \A role, v : v.kind = "override" \/ v.key \in Compiler!Matching =>
              Compiler!ModelOf(role, v)' = Compiler!ModelOf(role, v)
<1>1. Compiler!ProfileValues' = Compiler!ProfileValues
  BY DEF Compiler!ProfileValues
<1>2. Compiler!Winner' = Compiler!Winner
  BY <1>1 DEF Compiler!Winner, Compiler!First
<1>3. \A p : Compiler!Edition(p)' = Compiler!Edition(p)
  BY DEF Compiler!Edition
<1>4. ASSUME NEW role, NEW v, v.kind = "override" \/ v.key \in Compiler!Matching
      PROVE  Compiler!ModelOf(role, v)' = Compiler!ModelOf(role, v)
  BY <1>3, <1>4 DEF Compiler!ModelOf
<1> QED  BY <1>1, <1>2, <1>3, <1>4

\* The first value of a role is an override's, or a matching candidate's.
LEMMA FirstOfRole ==
  ASSUME SourcesOK, Compiler!Admitted, NEW role
  PROVE  LET v == Compiler!First(Compiler!ValuesOf(role)) IN
           /\ v \in Compiler!ValuesOf(role)
           /\ v.kind = "override" \/ v.key \in Compiler!Matching
           /\ \A o \in Compiler!ValuesOf(role) : o = v \/ Compiler!Before(v, o)
<1>1. Compiler!ValuesOf(role) # {}  BY ProposedValues DEF Compiler!Admitted
<1>2. \A v \in Compiler!ValuesOf(role) : v.kind = "override" \/ v.key \in Compiler!Matching
  BY DEF Compiler!ValuesOf, Compiler!ProfileValues, Compiler!Value
<1> QED  BY <1>1, <1>2, ProposedValues, FirstIsFirst

\* The values of a role depend on the candidates and on the role's overrides.
LEMMA SameValues ==
  ASSUME NEW role, Compiler!ProfileValues' = Compiler!ProfileValues,
         Compiler!OverridesFor(role)' = Compiler!OverridesFor(role),
         \A k \in Compiler!OverridesFor(role) : overrides'[k] = overrides[k]
  PROVE  Compiler!First(Compiler!ValuesOf(role))' = Compiler!First(Compiler!ValuesOf(role))
<1>1. Compiler!ValuesOf(role)' = Compiler!ValuesOf(role)
  BY DEF Compiler!ValuesOf
<1> QED  BY <1>1 DEF Compiler!First

\* An override is of its role only.
LEMMA OverrideStaysLocal ==
  ASSUME SourcesOK, Compiler!Next, Compiler!BothAdmitted,
         NEW k \in OverrideKeys, overrides'[k] # overrides[k], NEW role \in Compiler!Roles,
         \A o \in {overrides[k], overrides'[k]} : o.set => o.role # role
  PROVE  Compiler!Resolved[role] = Compiler!Resolved'[role]
<1>1. /\ overrides' = [overrides EXCEPT ![k] = overrides'[k]]
      /\ UNCHANGED <<candidates, defs, active>>
  BY OnlyOverrides
<1>2. Compiler!Matching' = Compiler!Matching  BY <1>1 DEF Compiler!Matching
<1>3. Compiler!Selected' = Compiler!Selected /\ Compiler!Roles' = Compiler!Roles
  BY <1>1, <1>2, SameCandidates DEF Compiler!Selected, Compiler!Roles
<1>4. \A l \in OverrideKeys : l # k => overrides'[l] = overrides[l]
  BY <1>1 DEF SourcesOK
<1>5. k \notin Compiler!OverridesFor(role)  BY DEF Compiler!OverridesFor
<1>6. Compiler!OverridesFor(role)' = Compiler!OverridesFor(role)
  BY <1>4, <1>5 DEF Compiler!OverridesFor
<1>7. \A l \in Compiler!OverridesFor(role) : overrides'[l] = overrides[l]
  BY <1>4, <1>5 DEF Compiler!OverridesFor
<1>8. Compiler!First(Compiler!ValuesOf(role))' = Compiler!First(Compiler!ValuesOf(role))
  BY <1>1, <1>2, <1>6, <1>7, SameCandidates, SameValues
<1> DEFINE v == Compiler!First(Compiler!ValuesOf(role))
<1>9. v.kind = "override" \/ v.key \in Compiler!Matching
  BY FirstOfRole DEF Compiler!BothAdmitted
<1>10. Compiler!ModelOf(role, v)' = Compiler!ModelOf(role, v)
  <2>1. v' = v  BY <1>8
  <2> HIDE DEF v
  <2>2. \A w : w = v => (w.kind = "override" \/ w.key \in Compiler!Matching)  BY <1>9
  <2> QED  BY <1>1, <1>2, <1>9, <2>1, SameCandidates DEF Compiler!ModelOf
<1>11. Compiler!Resolved[role] = Compiler!ModelOf(role, v)  BY DEF Compiler!Resolved
<1>12. Compiler!Resolved'[role] = Compiler!ModelOf(role, v)'
  BY <1>3 DEF Compiler!Resolved
<1> QED  BY <1>10, <1>11, <1>12

\* A candidate of another project is nothing to this one.
LEMMA ElsewhereStays ==
  ASSUME SourcesOK, Compiler!Next, Compiler!BothAdmitted,
         NEW k \in CandidateKeys, Compiler!Touched(k),
         \A c \in {candidates[k], candidates'[k]} : c.set => c.scope \notin {"global", active}
  PROVE  Compiler!Selected' = Compiler!Selected /\ Compiler!Resolved' = Compiler!Resolved
<1>1. /\ candidates' = [candidates EXCEPT ![k] = candidates'[k]]
      /\ UNCHANGED <<overrides, defs, active>>
  BY OnlyCandidates DEF Compiler!Touched
<1>2. \A l \in CandidateKeys : l # k => candidates'[l] = candidates[l]
  BY <1>1 DEF SourcesOK
<1>3. Compiler!Matching' = Compiler!Matching /\ k \notin Compiler!Matching
  BY <1>1, <1>2 DEF Compiler!Matching
<1>4. \A l \in Compiler!Matching : candidates'[l] = candidates[l]
  BY <1>2, <1>3 DEF Compiler!Matching
<1>5. Compiler!Winner \in Compiler!Matching  BY WinnerMatches DEF Compiler!BothAdmitted
<1>6. Compiler!Winner' = Compiler!Winner  BY <1>1, <1>3, <1>4, SameCandidates
<1>7. Compiler!Selected' = Compiler!Selected
  BY <1>4, <1>5, <1>6 DEF Compiler!Selected
<1>8. Compiler!Roles' = Compiler!Roles  BY <1>7 DEF Compiler!Roles
<1>9. ASSUME NEW role \in Compiler!Roles
      PROVE  Compiler!ModelOf(role, Compiler!First(Compiler!ValuesOf(role)))'
               = Compiler!ModelOf(role, Compiler!First(Compiler!ValuesOf(role)))
  <2> DEFINE v == Compiler!First(Compiler!ValuesOf(role))
  <2>1. v.kind = "override" \/ v.key \in Compiler!Matching
    BY FirstOfRole DEF Compiler!BothAdmitted
  <2>2. v' = v
    <3>1. Compiler!ProfileValues' = Compiler!ProfileValues  BY <1>1, <1>3, <1>4, SameCandidates
    <3>2. Compiler!OverridesFor(role)' = Compiler!OverridesFor(role)
      BY <1>1 DEF Compiler!OverridesFor
    <3> QED  BY <1>1, <3>1, <3>2, SameValues
  <2>3. Compiler!ModelOf(role, v)' = Compiler!ModelOf(role, v)
    <3> HIDE DEF v
    <3> QED  BY <1>1, <1>3, <1>4, <2>1, <2>2, SameCandidates DEF Compiler!ModelOf
  <2> QED  BY <2>3
<1> QED  BY <1>7, <1>8, <1>9 DEF Compiler!Resolved

\* A candidate below the one that wins changes nothing.
LEMMA LowerStaysBelow ==
  ASSUME SourcesOK, Compiler!Next, Compiler!BothAdmitted,
         NEW k \in CandidateKeys, Compiler!Touched(k), ~candidates[k].set,
         candidates'[k].tier < candidates[Compiler!Winner].tier
  PROVE  Compiler!Resolved' = Compiler!Resolved
<1>1. /\ candidates' = [candidates EXCEPT ![k] = candidates'[k]]
      /\ candidates'[k] \in Compiler!Candidate \cup {Compiler!Unset}
      /\ UNCHANGED <<overrides, defs, active>>
  BY OnlyCandidates DEF Compiler!Touched
<1>2. \A l \in CandidateKeys : l # k => candidates'[l] = candidates[l]
  BY <1>1 DEF SourcesOK
<1>3. k \notin Compiler!Matching  BY DEF Compiler!Matching
<1>4. SourcesOK'  BY SourcesStep
<1>5. Compiler!Admitted /\ Compiler!Admitted'  BY DEF Compiler!BothAdmitted
<1> DEFINE low == Compiler!Value("profile", k, candidates'[k].tier)
           win == Compiler!Value("profile", Compiler!Winner, candidates[Compiler!Winner].tier)
\* The values before, and the new one below them all.
<1>6. \/ Compiler!Matching' = Compiler!Matching
      \/ Compiler!Matching' = Compiler!Matching \cup {k}
  BY <1>1, <1>2, <1>3 DEF Compiler!Matching
<1>7. \/ Compiler!ProfileValues' = Compiler!ProfileValues
      \/ k \in Compiler!Matching' /\ Compiler!ProfileValues' = Compiler!ProfileValues \cup {low}
  <2>1. \A l \in Compiler!Matching : candidates'[l] = candidates[l]
    BY <1>2, <1>3 DEF Compiler!Matching
  <2> QED  BY <1>6, <2>1 DEF Compiler!ProfileValues
<1>8. /\ win \in Compiler!ProfileValues /\ Compiler!First(Compiler!ProfileValues) = win
      /\ Compiler!Winner \in Compiler!Matching
  BY <1>5, WinnerMatches DEF Compiler!ProfileValues
<1>9. ASSUME NEW S \in SUBSET RoleValues, IsFiniteSet(S), Compiler!ProfileValues \subseteq S,
             NEW T, T = S \/ (k \in Compiler!Matching' /\ T = S \cup {low})
      PROVE  Compiler!First(T) = Compiler!First(S)
  <2>1. CASE T = S  BY <2>1
  <2>2. CASE k \in Compiler!Matching' /\ T = S \cup {low}
    <3>1. low \in RoleValues /\ win \in RoleValues
      <4>1. candidates'[k].set /\ ~Compiler!Unset.set
        BY <2>2 DEF Compiler!Matching, Compiler!Unset
      <4>2. candidates'[k] \in Compiler!Candidate  BY <1>1, <4>1
      <4>3. k \in Nat /\ candidates'[k].tier \in Nat
        BY <4>2, CompilerAssumption DEF Compiler!Candidate, Compiler!KeysAndTiersAreOrdered
      <4> QED  BY <1>8, <4>3, ProposedValues DEF Compiler!Value, RoleValues
    <3>2. Compiler!First(S) \in S
          /\ \A o \in S : o = Compiler!First(S) \/ Compiler!Before(Compiler!First(S), o)
      BY <1>8, <1>9, FirstIsFirst
    <3>3. win.tier > low.tier  BY DEF Compiler!Value
    <3>4. Compiler!Before(Compiler!First(S), low)
      <4>1. Compiler!First(S) = win \/ Compiler!Before(Compiler!First(S), win)
        BY <1>8, <1>9, <3>2
      <4>2. Compiler!Before(win, low)  BY <3>3 DEF Compiler!Before
      <4> HIDE DEF win, low
      <4> QED  BY <1>9, <3>1, <3>2, <4>1, <4>2, BeforeOrders
    <3>5. T \in SUBSET RoleValues /\ Compiler!First(S) \in T  BY <1>9, <2>2, <3>1, <3>2
    <3>6. \A o \in T : o = Compiler!First(S) \/ Compiler!Before(Compiler!First(S), o)
      BY <2>2, <3>2, <3>4
    <3> HIDE DEF win, low
    <3> QED  BY <3>5, <3>6, FirstIsUnique
  <2> QED  BY <1>9, <2>1, <2>2
\* So whoever came first still does.
<1>10. Compiler!First(Compiler!ProfileValues)' = Compiler!First(Compiler!ProfileValues)
  <2>1. Compiler!First(Compiler!ProfileValues') = Compiler!First(Compiler!ProfileValues)
    BY <1>7, <1>9, ProposedValues
  <2> QED  BY <2>1 DEF Compiler!First
<1>11. Compiler!Winner' = Compiler!Winner /\ Compiler!Selected' = Compiler!Selected
       /\ Compiler!Roles' = Compiler!Roles
  BY <1>2, <1>3, <1>8, <1>10
  DEF Compiler!Winner, Compiler!Selected, Compiler!Roles, Compiler!Matching
<1>12. ASSUME NEW role \in Compiler!Roles
       PROVE  Compiler!ModelOf(role, Compiler!First(Compiler!ValuesOf(role)))'
                = Compiler!ModelOf(role, Compiler!First(Compiler!ValuesOf(role)))
  <2> DEFINE v == Compiler!First(Compiler!ValuesOf(role))
  <2>1. v.kind = "override" \/ v.key \in Compiler!Matching
    BY <1>5, FirstOfRole
  <2>2. v' = v
    <3>1. \/ Compiler!ValuesOf(role)' = Compiler!ValuesOf(role)
          \/ k \in Compiler!Matching'
                  /\ Compiler!ValuesOf(role)' = Compiler!ValuesOf(role) \cup {low}
      BY <1>1, <1>7 DEF Compiler!ValuesOf, Compiler!OverridesFor
    <3>2. Compiler!First(Compiler!ValuesOf(role)') = Compiler!First(Compiler!ValuesOf(role))
      BY <1>9, <3>1, ProposedValues
    <3> QED  BY <3>2 DEF Compiler!First
  <2>3. v.key \in Compiler!Matching => candidates'[v.key] = candidates[v.key]
    BY <1>2, <1>3 DEF Compiler!Matching
  <2>4. Compiler!ModelOf(role, v)' = Compiler!ModelOf(role, v)
    <3>1. \A p : Compiler!Edition(p)' = Compiler!Edition(p)  BY <1>1 DEF Compiler!Edition
    <3> HIDE DEF v
    <3>2. CASE v.kind = "override"  BY <2>2, <3>2 DEF Compiler!ModelOf
    <3>3. CASE v.kind # "override"
      <4>1. candidates'[v.key] = candidates[v.key]  BY <2>1, <2>3, <3>3
      <4> QED  BY <2>2, <3>1, <3>3, <4>1 DEF Compiler!ModelOf
    <3> QED  BY <3>2, <3>3
  <2> QED  BY <2>4
<1> QED  BY <1>11, <1>12 DEF Compiler!Resolved

-----------------------------------------------------------------------------
\* The sources of a configuration stay apart: an override changes its own role
\* only, a candidate below the one that wins changes nothing, and one of another
\* project is nothing to this one (normalizeInput, resolveRoles,
\* scopedCandidates).
THEOREM SourcesStayWithinTheirs == Spec => SourcesStayApart
<1>1. [Next]_<<half, storeVars, compileVars>> => [Compiler!Next]_(Compiler!vars)
  BY DEF Next, compileVars, Compiler!vars
<1>2. SourcesOK /\ [Compiler!Next]_(Compiler!vars) =>
        [\A k \in OverrideKeys : (overrides'[k] # overrides[k] /\ Compiler!BothAdmitted) =>
          \A role \in Compiler!Roles :
             (\A o \in {overrides[k], overrides'[k]} : o.set => o.role # role)
                => Compiler!Resolved[role] = Compiler!Resolved'[role]]_(Compiler!vars)
  BY OverrideStaysLocal
<1>3. SourcesOK /\ [Compiler!Next]_(Compiler!vars) =>
        [\A k \in CandidateKeys :
          (Compiler!Touched(k) /\ ~candidates[k].set /\ Compiler!BothAdmitted
             /\ candidates'[k].tier < candidates[Compiler!Winner].tier)
          => Compiler!Resolved' = Compiler!Resolved]_(Compiler!vars)
  BY LowerStaysBelow
<1>4. SourcesOK /\ [Compiler!Next]_(Compiler!vars) =>
        [\A k \in CandidateKeys :
          (/\ Compiler!Touched(k)
           /\ \A c \in {candidates[k], candidates'[k]} :
                 c.set => c.scope \notin {"global", active}
           /\ Compiler!BothAdmitted) =>
          Compiler!Selected' = Compiler!Selected
                  /\ Compiler!Resolved' = Compiler!Resolved]_(Compiler!vars)
  BY ElsewhereStays
<1> QED
  BY <1>1, <1>2, <1>3, <1>4, SourcesInvariant, PTL
  DEF Spec, SourcesStayApart, Compiler!OverrideIsLocal, Compiler!LowerNeverWins,
      Compiler!ElsewhereIsNothing

-----------------------------------------------------------------------------
\* The store keeps its shape, and what the compiler admits selects a defined
\* profile and gives each of its roles the model of a source that is set
\* (profileState, Compile).
THEOREM SelectionTypeCorrect == Spec => []TypeOK
<1>1. Assumptions  BY StoreAssumption DEF Assumptions
<1>2. Store!TypeOK /\ Compiler!TypeOK => TypeOK  BY DEF TypeOK
<1> QED  BY <1>1, <1>2, StoreRuns, StoreTypeCorrect, SourcesInvariant, PTL
=============================================================================
