--------------------------- MODULE ExclusiveStore ---------------------------
(***************************************************************************)
(* What the authority of the profile store promises to a completion: it    *)
(* has the store for itself from the moment it reads the contents to its   *)
(* answer, it publishes over what it has read, it takes back nothing but   *)
(* its own publication, and its answer agrees with what then stands in the *)
(* store.  That is why ProfileStore may take a completion for one step.    *)
(* ProfileAuthority is shown to implement this module.                     *)
(***************************************************************************)
CONSTANTS
  Procs,        \* processes with a completion to perform
  Docs,         \* contents of the store
  Absent,       \* there is no store yet
  Nobody        \* no process

VARIABLES
  doc,          \* what stands in the store
  owner,        \* who has it for itself
  base,         \* what the owner has found in it
  told          \* [Procs -> answer of the latest completion]

evars == <<doc, owner, base, told>>

\* Answers that promise the contents are as they were found.
Unchanged == {"restored", "conflict", "invalid", "io"}

Answer(p, o) == told' = [told EXCEPT ![p] = o]
Part == owner' = Nobody /\ base' = Absent

EInit ==
  /\ doc \in Docs \cup {Absent}
  /\ owner = Nobody /\ base = Absent
  /\ told = [p \in Procs |-> "none"]

\* A completion begins, or is turned away before it has seen anything.
Begin(p) == owner # p /\ Answer(p, "none") /\ UNCHANGED <<doc, owner, base>>
TurnAway(p) ==
  /\ owner # p
  /\ \E o \in {"busy", "timeout", "invalid", "io"} : Answer(p, o)
  /\ UNCHANGED <<doc, owner, base>>

Take(p) ==
  /\ owner = Nobody
  /\ owner' = p /\ base' = doc
  /\ UNCHANGED <<doc, told>>

Publish(p) ==
  /\ owner = p /\ doc = base
  /\ doc' \in Docs \ {base}
  /\ UNCHANGED <<owner, base, told>>

\* The answer: an "ok" stands in the store, anything else but a residual risk
\* has left it as it was.
Yield(p) ==
  /\ owner = p /\ Part
  /\ \E o \in Unchanged \cup {"ok", "residual"} :
       /\ o = "ok" => doc \in Docs
       /\ o \in Unchanged => doc = base
       /\ Answer(p, o)
  /\ UNCHANGED doc

\* What was published is taken back; the answer may still be due.
TakeBack(p) ==
  /\ owner = p /\ doc # base
  /\ doc' = base /\ Part
  /\ UNCHANGED told \/ \E o \in {"restored", "residual"} : Answer(p, o)

\* Failures on the way out of the store.
Doubt(p) ==
  /\ owner # p
  /\ \E o \in {"io", "residual"} : Answer(p, o)
  /\ UNCHANGED <<doc, owner, base>>

Die(p) == owner = p /\ Part /\ Answer(p, "none") /\ UNCHANGED doc

ENext ==
  \E p \in Procs :
    \/ Begin(p) \/ TurnAway(p) \/ Take(p) \/ Publish(p) \/ Yield(p) \/ TakeBack(p)
    \/ Doubt(p) \/ Die(p)

ESpec == EInit /\ [][ENext]_evars
=============================================================================
