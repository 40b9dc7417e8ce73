---------------------------- MODULE ProfileStore ----------------------------
(***************************************************************************)
(* The profile store (internal/install/profile_store.go): one file with    *)
(* the global profile and a record per project.  A command prepares a      *)
(* project by reading the file without any authority, and completes its    *)
(* selection later, under the authority, by rebasing it on whatever the    *)
(* file says by then: distinct keys merge, the same key conflicts.  A held *)
(* completion publishes its selection provisionally, and keeps the         *)
(* authority until its caller commits or restores it.                      *)
(*                                                                         *)
(* ProfileAuthority shows why the part of a completion under the authority *)
(* may be taken as one step here.                                          *)
(***************************************************************************)
CONSTANTS
  Clients,      \* commands that select profiles
  Roots,        \* project roots; stableProjectID is a function of the root
  Global,       \* the key of the global profile
  NoKey,        \* a completion without a selection
  Profiles,     \* profile identifiers
  Unset,        \* no profile is selected
  Missing,      \* the project has no record
  Absent,       \* there is no file
  Corrupt,      \* the file cannot be decoded
  Nobody        \* no client

Keys == Roots \cup {Global}
States == {s \in [Keys -> Profiles \cup {Unset, Missing}] : s[Global] # Missing}
Files == States \cup {Absent, Corrupt}

KeyAssumption == Roots # {} /\ Global \notin Roots /\ NoKey \notin Keys
ProfileAssumption == Profiles # {} /\ Unset # Missing /\ {Unset, Missing} \cap Profiles = {}
FileAssumption == {Absent, Corrupt} \cap States = {} /\ Absent # Corrupt
NobodyAssumption == Nobody \notin Clients

VARIABLES
  file,         \* the profile state on disk
  pc,           \* "idle", "prepared" or "held"
  root,         \* the project each client has prepared
  base,         \* the state it read then (PreparedProject.state)
  key, choice,  \* its selection (PersistenceFact)
  owner,        \* who holds the authority between two steps
  prior,        \* the file its lease captured
  outcome       \* what each client was told last

clients == <<pc, root, base, key, choice>>
svars == <<file, clients, owner, prior, outcome>>

Outcomes == {"none", "ok", "skipped", "conflict", "corrupt", "busy", "io", "restored", "residual"}

Empty == [k \in Keys |-> IF k = Global THEN Unset ELSE Missing]
Decoded(f) == IF f = Absent THEN Empty ELSE f
\* A missing record selects nothing.
Selected(s, k) == IF s[k] = Missing THEN Unset ELSE s[k]

\* ProjectSelection.EffectiveProfile
Effective(s, r) == IF Selected(s, r) # Unset THEN s[r] ELSE s[Global]

Tell(c, o) == outcome' = [outcome EXCEPT ![c] = o]

\* What a client remembers while no command of it is under way.
AnyRoot == CHOOSE r \in Roots : TRUE
AnyProfile == CHOOSE v \in Profiles : TRUE

\* The command ends with an answer.
Ends(c, o) ==
  /\ pc' = [pc EXCEPT ![c] = "idle"] /\ Tell(c, o)
  /\ root' = [root EXCEPT ![c] = AnyRoot] /\ base' = [base EXCEPT ![c] = Empty]
  /\ key' = [key EXCEPT ![c] = NoKey] /\ choice' = [choice EXCEPT ![c] = AnyProfile]

-----------------------------------------------------------------------------
(* rebaseProfileState *)

\* Seeded fault (ChangesOnlyWhatItSaw): only the project's record is compared.
StaleRecord(b, r, k, v, s) == s[r] = Missing /\ b[r] # Missing

\* The project's record has gone, or the selected key is neither what the
\* client saw nor what it selects.
Stale(b, r, k, v, s) ==
  \/ s[r] = Missing /\ b[r] # Missing
  \/ k # NoKey /\ Selected(s, k) \notin {v, Selected(b, k)}

\* The client's own selection, over the current state.
Rebased(r, k, v, s) ==
  [x \in Keys |-> IF x = k THEN v ELSE IF x = r THEN Selected(s, x) ELSE s[x]]

-----------------------------------------------------------------------------
(* PrepareProject reads without the authority, also what a lease has only   *)
(* published provisionally.                                                 *)

Loads == file # Corrupt

Prepare(c, r, k, v) ==
  /\ pc[c] = "idle" /\ k \in {r, Global, NoKey} /\ (k = NoKey => v = AnyProfile)
  /\ \/ /\ ~Loads /\ Tell(c, "corrupt")
        /\ UNCHANGED <<pc, root, base, key, choice>>
     \/ /\ Loads /\ Tell(c, "none")
        /\ pc' = [pc EXCEPT ![c] = "prepared"]
        /\ root' = [root EXCEPT ![c] = r] /\ base' = [base EXCEPT ![c] = Decoded(file)]
        /\ key' = [key EXCEPT ![c] = k] /\ choice' = [choice EXCEPT ![c] = v]
  /\ UNCHANGED <<file, owner, prior>>

StaleFor(c) == Stale(base[c], root[c], key[c], choice[c], Decoded(file))
New(c) == Rebased(root[c], key[c], choice[c], Decoded(file))

\* CompleteWithOptions for an apply that did not succeed.
Skip(c) ==
  /\ pc[c] = "prepared" /\ Ends(c, "skipped")
  /\ UNCHANGED <<file, owner, prior>>

\* The authority is taken by another client, until the deadline.
Busy(c) ==
  /\ pc[c] = "prepared" /\ owner # Nobody
  /\ Ends(c, "busy") /\ UNCHANGED <<file, owner, prior>>

\* The current state cannot be decoded, or has moved on.
Reject(c) ==
  /\ pc[c] = "prepared" /\ owner = Nobody
  /\ \/ file = Corrupt /\ Ends(c, "corrupt")
     \/ file # Corrupt /\ StaleFor(c) /\ Ends(c, "conflict")
  /\ UNCHANGED <<file, owner, prior>>

\* CompleteWithOptions; a failed commit is undone, or is residual risk.
Complete(c) ==
  /\ pc[c] = "prepared" /\ owner = Nobody /\ file # Corrupt /\ ~StaleFor(c)
  /\ \/ file' = New(c) /\ Ends(c, "ok")
     \/ file # New(c) /\ UNCHANGED file /\ Ends(c, "io")
     \/ file # New(c) /\ file' \in {file, New(c)} /\ Ends(c, "residual")
  /\ UNCHANGED <<owner, prior>>

-----------------------------------------------------------------------------
(* profileCompletionLease *)

BeginLease(c) ==
  /\ pc[c] = "prepared" /\ owner = Nobody /\ file # Corrupt /\ ~StaleFor(c)
  /\ owner' = c /\ prior' = file /\ file' = New(c)
  /\ pc' = [pc EXCEPT ![c] = "held"] /\ Tell(c, "none")
  /\ UNCHANGED <<root, base, key, choice>>

EndLease(c, o) ==
  /\ pc[c] = "held" /\ Ends(c, o)
  /\ owner' = Nobody /\ prior' = Absent

CommitLease(c) == EndLease(c, "ok") /\ UNCHANGED file

RestoreLease(c) ==
  \/ EndLease(c, "restored") /\ file' = prior
  \/ EndLease(c, "residual") /\ file' \in {file, prior} /\ file # prior

\* Seeded fault (TypeOK): the authority outlives its owner.
DieHolding(c) ==
  /\ pc[c] = "held" /\ Ends(c, "none")
  /\ UNCHANGED <<file, owner, prior>>

\* The owner dies: the provisional selection stays.
Die(c) == EndLease(c, "none") /\ UNCHANGED file

-----------------------------------------------------------------------------
(* Somebody damages the file, or repairs or removes it. *)

Tamper ==
  /\ owner = Nobody
  /\ IF file = Corrupt THEN file' = Absent ELSE file' = Corrupt
  /\ UNCHANGED <<clients, owner, prior, outcome>>

Init ==
  /\ file \in {Absent, Empty} /\ owner = Nobody /\ prior = Absent
  /\ pc = [c \in Clients |-> "idle"] /\ outcome = [c \in Clients |-> "none"]
  /\ root = [c \in Clients |-> AnyRoot] /\ base = [c \in Clients |-> Empty]
  /\ key = [c \in Clients |-> NoKey] /\ choice = [c \in Clients |-> AnyProfile]

Act(c) ==
  \/ Skip(c) \/ Busy(c) \/ Reject(c) \/ Complete(c)
  \/ BeginLease(c) \/ CommitLease(c) \/ RestoreLease(c) \/ Die(c)

Next ==
  \/ \E c \in Clients, r \in Roots, k \in Keys \cup {NoKey}, v \in Profiles : Prepare(c, r, k, v)
  \/ \E c \in Clients : Act(c)
  \/ Tamper

Spec == Init /\ [][Next]_svars

-----------------------------------------------------------------------------
\* The shape of the state; the authority is held by exactly the client whose
\* lease is open.
TypeOK ==
  /\ file \in Files /\ prior \in States \cup {Absent} /\ owner \in Clients \cup {Nobody}
  /\ pc \in [Clients -> {"idle", "prepared", "held"}]
  /\ root \in [Clients -> Roots] /\ base \in [Clients -> States]
  /\ key \in [Clients -> Keys \cup {NoKey}] /\ choice \in [Clients -> Profiles]
  /\ outcome \in [Clients -> Outcomes]
  /\ \A c \in Clients : pc[c] = "held" <=> owner = c

\* Only a step out of "prepared" into "ok", "residual" or a lease is a completion.
Completes(c) == pc[c] = "prepared" /\ file' # file /\ file # Corrupt /\ file' # Corrupt

\* No update is lost: a completion changes one selection at most, its own, and
\* only from the value that its client saw when it prepared, whatever others
\* have committed, provisionally published or restored since
\* (rebaseProfileState).
ChangesOnlyWhatItSaw ==
  [][\A c \in Clients : pc'[c] # pc[c] /\ Completes(c) =>
       \A k \in Keys : Selected(Decoded(file'), k) # Selected(Decoded(file), k) =>
         k = key[c] /\ Selected(Decoded(file), k) = Selected(base[c], k)]_svars

\* A client is told of a conflict only when its project's record has gone or
\* somebody has given its key a third value; retrying a committed selection or
\* selecting what is selected already never conflicts (rebaseProfileState).
ConflictIsJustified ==
  [][\A c \in Clients : outcome'[c] = "conflict" /\ outcome[c] # "conflict" =>
       \/ base[c][root[c]] # Missing /\ Decoded(file)[root[c]] = Missing
       \/ /\ key[c] # NoKey /\ Selected(Decoded(file), key[c]) # choice[c]
          /\ Selected(Decoded(file), key[c]) # Selected(base[c], key[c])]_svars

\* The lease takes back its own selection and nothing else: every other key
\* keeps the value it has at that moment (profileCompletionLease.restore).
RestoresItsOwn ==
  [][\A c \in Clients : pc[c] = "held" /\ file' # file =>
       \A k \in Keys \ {key[c]} : Selected(Decoded(file'), k) = Selected(Decoded(file), k)]_svars

\* A file that cannot be decoded is left to its owner (decodeProfileState).
CorruptIsKept == [][file = Corrupt => file' \in {Corrupt, Absent}]_svars
=============================================================================
