-------------------------- MODULE ProfileCompiler --------------------------
(***************************************************************************)
(* The compiler of profiles and capabilities (compiler/resolve.go,         *)
(* registry.go): a pure function from the sources of a configuration to    *)
(* the profile that is selected, the model of every role and whether the   *)
(* plan is admitted.  The sources change one at a time, as users and       *)
(* projects change them, and the results before and after are compared.    *)
(* The caller that gathers the sources is not in the repository.           *)
(***************************************************************************)
EXTENDS Integers, Sequences, FiniteSets

CONSTANTS
    Tiers,          \* numbers; a higher tier wins
    CandidateKeys,  \* source keys of profile candidates, numbers in their order
    OverrideKeys,   \* source keys of role overrides
    Projects,       \* identities of projects
    Targets, Capabilities

KeysAndTiersAreOrdered ==
    Tiers \subseteq Nat /\ CandidateKeys \subseteq Nat /\ OverrideKeys \subseteq Nat
\* An input is a document.
SourcesAreFinite == IsFiniteSet(CandidateKeys) /\ IsFiniteSet(OverrideKeys)

\* The two profiles of the model, one of which names a role of its own.  A
\* candidate may also name a profile nobody defines, which is refused whatever its
\* model, or bring a model of its own.  Source keys and roles are well formed and
\* sources unique, for they are the domains of the functions: the errors for empty
\* and doubled keys, for scopes that contradict a project and for malformed projects
\* (scopedCandidates, selectProfile, validateRoleOverrides) do not arise.
ProfileNames == {"plain", "review"}
RolesOf(p) == IF p = "review" THEN {"judge"} ELSE {}
AllRoles == {"default", "judge"}

\* A source that is not set.
Unset == [tier |-> 0, set |-> FALSE]
Candidate ==
    {c \in [set : {TRUE}, tier : Tiers, profile : ProfileNames \cup {"missing"},
            model : BOOLEAN, scope : {"global"} \cup Projects] :
        c.profile = "missing" => ~c.model}
Override == [set : {TRUE}, tier : Tiers, role : AllRoles]

VARIABLES
    candidates, overrides,  \* what is set under every key
    defs,                   \* the definitions of profiles, profile by profile, in the
                            \* order of the input: a profile and an edition of its models
    active,                 \* the project the command runs in, "" outside of one
    target, requested,      \* the target and the capability that is asked for
    intent                  \* the persistence that is asked for
vars == << candidates, overrides, defs, active, target, requested, intent >>

NoIntent == [scope |-> "", profile |-> ""]
Intents == {NoIntent} \cup [scope : {"global", "project"}, profile : ProfileNames]

Init ==
    /\ candidates = [k \in CandidateKeys |-> Unset]
    /\ overrides = [k \in OverrideKeys |-> Unset]
    /\ defs \in {<< <<"plain", 1>>, <<"review", 1>> >>,
                 << <<"plain", 1>>, <<"plain", 2>>, <<"review", 1>> >>}
    /\ active = ""
    /\ target \in Targets
    /\ requested = "none"
    /\ intent = NoIntent

-----------------------------------------------------------------------------
(* scopedCandidates: global candidates and those of the active project. *)
Matching ==
    {k \in CandidateKeys : candidates[k].set /\ candidates[k].scope \in {"global", active}}

(* The edition that counts: a map filled in the order of the input, which    *)
(* normalizeInput sorts by the identity of the profile only.                 *)
Edition(p) == defs[CHOOSE n \in DOMAIN defs :
    defs[n][1] = p /\ \A o \in DOMAIN defs : defs[o][1] = p => o <= n][2]

\* A value of a role: which kind of source and which key it has, and its tier.
Value(kind, k, tier) == [kind |-> kind, key |-> k, tier |-> tier]

(* Seeded fault (LowerNeverWins): the lower tier comes first. *)
BeforeLowest(a, b) == a.tier < b.tier \/ (a.tier = b.tier /\ a.key < b.key)

(* The order of normalizeInput and resolveRoles: tier, source key, and an    *)
(* override before a profile of the same key.                                *)
Before(a, b) ==
    \/ a.tier > b.tier
    \/ a.tier = b.tier /\ a.key < b.key
    \/ a.tier = b.tier /\ a.key = b.key /\ a.kind = "override" /\ b.kind = "profile"
First(values) == CHOOSE v \in values : \A o \in values : o = v \/ Before(v, o)

(* selectProfile *)
ProfileValues == {Value("profile", k, candidates[k].tier) : k \in Matching}
Winner == First(ProfileValues).key
Selected == candidates[Winner].profile

(* overridesForRole *)
OverridesFor(role) == {k \in OverrideKeys : overrides[k].set /\ overrides[k].role = role}

(* resolveRoles: every matching candidate proposes its profile's model, and  *)
(* every override of the role its own.                                       *)
ValuesOf(role) ==
    ProfileValues \cup {Value("override", k, overrides[k].tier) : k \in OverridesFor(role)}

(* roleCandidate: the default model is the candidate's own, if it brings one; *)
(* a role the profile does not name has the profile's default.               *)
ModelOf(role, value) ==
    IF value.kind = "override" THEN << "override", value.key >>
    ELSE LET c == candidates[value.key]
         IN IF role = "default" /\ c.model THEN << "candidate", value.key >>
            ELSE << c.profile, Edition(c.profile),
                    IF role \in RolesOf(c.profile) THEN role ELSE "default" >>
Roles == {"default"} \cup RolesOf(Selected)
Resolved == [role \in Roles |-> ModelOf(role, First(ValuesOf(role)))]

(* resolveCapability *)
State(capability) ==
    CASE capability = "portable-content" -> "supported"
      [] capability = "bounded-review"   -> IF target = "pi" THEN "staged" ELSE "unsupported"
      [] OTHER                           -> "unknown"

(* validatePersistence *)
Persistable ==
    intent = NoIntent \/ (intent.profile = Selected /\ (intent.scope = "project" => active # ""))

(* Compile: an error anywhere rejects the whole input.  The candidates of    *)
(* other projects must name a profile too (validateCandidateUniverse), and   *)
(* the roles of overrides must be among those of the selected profile.       *)
Admitted ==
    /\ \A k \in CandidateKeys : candidates[k].set => candidates[k].profile \in ProfileNames
    /\ Matching # {}
    /\ \A k \in OverrideKeys : overrides[k].set => overrides[k].role \in Roles
    /\ target # "claude-code"
    /\ Persistable
    /\ requested = "none" \/ State(requested) \in {"supported", "staged"}

-----------------------------------------------------------------------------
(* One source is set, changed or removed. *)
SetCandidate(k) ==
    /\ \E c \in Candidate \cup {Unset} : c # candidates[k] /\ candidates' = [candidates EXCEPT ![k] = c]
    /\ UNCHANGED << overrides, defs, active, target, requested, intent >>
SetOverride(k) ==
    /\ \E o \in Override \cup {Unset} : o # overrides[k] /\ overrides' = [overrides EXCEPT ![k] = o]
    /\ UNCHANGED << candidates, defs, active, target, requested, intent >>
EnterProject ==
    /\ \E p \in Projects \cup {""} : p # active /\ active' = p
    /\ UNCHANGED << candidates, overrides, defs, target, requested, intent >>
Ask ==
    /\ \/ requested' \in (Capabilities \cup {"none"}) \ {requested} /\ UNCHANGED intent
       \/ intent' \in Intents \ {intent} /\ UNCHANGED requested
    /\ UNCHANGED << candidates, overrides, defs, active, target >>

(* The definitions of one profile are listed in another order; that of       *)
(* different profiles is immaterial (normalizeInput sorts by profile).       *)
Reorder ==
    /\ \E n \in 1..(Len(defs) - 1) :
          /\ defs[n][1] = defs[n + 1][1]
          /\ defs' = [defs EXCEPT ![n] = defs[n + 1], ![n + 1] = defs[n]]
          /\ defs' # defs
    /\ UNCHANGED << candidates, overrides, active, target, requested, intent >>

Next ==
    \/ \E k \in CandidateKeys : SetCandidate(k)
    \/ \E k \in OverrideKeys : SetOverride(k)
    \/ EnterProject \/ Ask \/ Reorder
Spec == Init /\ [][Next]_vars

-----------------------------------------------------------------------------
(* The type of the state; an admitted input selects a defined profile and    *)
(* gives every one of its roles a model of a source that is set.             *)
TypeOK ==
    /\ candidates \in [CandidateKeys -> Candidate \cup {Unset}]
    /\ overrides \in [OverrideKeys -> Override \cup {Unset}]
    /\ active \in Projects \cup {""} /\ target \in Targets
    /\ requested \in Capabilities \cup {"none"} /\ intent \in Intents
    /\ Admitted =>
          /\ Selected \in ProfileNames
          /\ \A role \in Roles : Resolved[role][1] = "override" =>
                overrides[Resolved[role][2]].set /\ overrides[Resolved[role][2]].role = role

\* What a step changed, and that both sides of it were admitted.
Touched(k) == candidates'[k] # candidates[k]
BothAdmitted == Admitted /\ Admitted'

(* A role override overrides the selected profile for its role only: setting *)
(* or removing one leaves the profile and every other role as they were      *)
(* (resolveRoles, overridesForRole).                                         *)
OverrideIsLocal ==
    [][\A k \in OverrideKeys : (overrides'[k] # overrides[k] /\ BothAdmitted) =>
          \A role \in Roles :
             (\A o \in {overrides[k], overrides'[k]} : o.set => o.role # role)
                => Resolved[role] = Resolved'[role]]_vars

(* A candidate that is added at a tier below the one that wins changes       *)
(* neither the profile nor the model of any role, however the keys are       *)
(* ordered (normalizeInput, resolveRoles).                                   *)
LowerNeverWins ==
    [][\A k \in CandidateKeys :
          (Touched(k) /\ ~candidates[k].set /\ BothAdmitted
             /\ candidates'[k].tier < candidates[Winner].tier) => Resolved' = Resolved]_vars

(* A candidate of another project is nothing to this one: the profile and    *)
(* the models are the same with it and without it (scopedCandidates).        *)
ElsewhereIsNothing ==
    [][\A k \in CandidateKeys :
          (/\ Touched(k)
           /\ \A c \in {candidates[k], candidates'[k]} :
                 c.set => c.scope \notin {"global", active}
           /\ BothAdmitted) =>
          Selected' = Selected /\ Resolved' = Resolved]_vars

-----------------------------------------------------------------------------
(* The specification says a role override overrides the selected profile     *)
(* for that role.  One of the same tier as the profile whose source key      *)
(* sorts later does not (resolveRoles).                                      *)
OverrideOverrides ==
    Admitted => \A k \in OverrideKeys :
        (overrides[k].set /\ overrides[k].tier >= candidates[Winner].tier) =>
            Resolved[overrides[k].role][1] = "override"

(* The scenario "Normalize unordered input" says that selections in another  *)
(* order resolve to the same.  Of two definitions of one profile the last    *)
(* counts, in whatever order they come (Compile, normalizeInput).            *)
OrderIsNothing ==
    [][(Reorder /\ BothAdmitted) => Resolved' = Resolved]_vars
=============================================================================
