--------------------------- MODULE SelectedProfile ---------------------------
(***************************************************************************)
(* From the selection of a profile to its roles, each half by itself: the  *)
(* store that keeps the selections (ProfileStore) and the compiler that    *)
(* resolves them together with the other sources (ProfileCompiler).  The   *)
(* caller that hands the first's value to the second is not in the         *)
(* repository, and they share no state; half says which of them is the     *)
(* subject, the other rests in an initial state.                           *)
(***************************************************************************)
EXTENDS TLC, Naturals

CONSTANTS
  Clients, Roots, Profiles,    \* commands, projects and profiles of the store
  Global, NoKey, NotSet, Missing, Absent, Corrupt, Nobody,
  Tiers, CandidateKeys, OverrideKeys, Projects, Targets, Capabilities

VARIABLES
  half,        \* "store" or "compile"
  file, pc, root, base, key, choice, owner, prior, outcome,
  candidates, overrides, defs, active, target, requested, intent

storeVars == <<file, pc, root, base, key, choice, owner, prior, outcome>>
compileVars == <<candidates, overrides, defs, active, target, requested, intent>>

-----------------------------------------------------------------------------
Store == INSTANCE ProfileStore WITH Unset <- NotSet
Compiler == INSTANCE ProfileCompiler

ASSUME StoreAssumption ==
  Store!KeyAssumption /\ Store!ProfileAssumption /\ Store!FileAssumption /\ Store!NobodyAssumption
ASSUME CompilerAssumption == Compiler!KeysAndTiersAreOrdered /\ Compiler!SourcesAreFinite

Alike == Permutations(Clients) \cup Permutations(Roots) \cup Permutations(Profiles)

-----------------------------------------------------------------------------
(* Of one profile there are two definitions. *)
Init ==
  /\ Store!Init /\ Compiler!Init
  /\ half = "store" \/ (half = "compile" /\ file = Absent)
  /\ defs = << <<"plain", 1>>, <<"plain", 2>>, <<"review", 1>> >>

Next ==
  /\ half' = half
  /\ \/ half = "store" /\ Store!Next /\ UNCHANGED compileVars
     \/ half = "compile" /\ Compiler!Next /\ UNCHANGED storeVars

Spec == Init /\ [][Next]_<<half, storeVars, compileVars>>

-----------------------------------------------------------------------------
(* The types of the two halves; what the compiler admits selects a defined   *)
(* profile and gives each of its roles the model of a source that is set     *)
(* (profileState, Compile).                                                  *)
TypeOK == IF half = "store" THEN Store!TypeOK ELSE Compiler!TypeOK

(* No selection of a profile is lost, none is refused without a reason, a    *)
(* lease takes back its own only, and an unreadable file is left alone,      *)
(* whatever other commands have completed since (rebaseProfileState,         *)
(* profileCompletionLease).                                                  *)
SelectionIsKept ==
  /\ Store!ChangesOnlyWhatItSaw /\ Store!ConflictIsJustified
  /\ Store!RestoresItsOwn /\ Store!CorruptIsKept

(* What a source changes stays within its role, its tier and its project     *)
(* (resolveRoles, normalizeInput, scopedCandidates).                         *)
SourcesStayApart ==
  Compiler!OverrideIsLocal /\ Compiler!LowerNeverWins /\ Compiler!ElsewhereIsNothing
=============================================================================
