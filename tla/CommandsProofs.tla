--------------------------- MODULE CommandsProofs ---------------------------
(***************************************************************************)
(* What the commands of lore promise, of every instance of the constants:  *)
(* InstallIsTrue from InstallInv, ScreenIsTrue from ScreenInv and          *)
(* QuestionInv, LoginIsSafe from LoginInv and SessionInv, UpdateIsSafe     *)
(* from UpdateInv, and from all of them TypeOK.  Each invariant says what  *)
(* is known at every step of its command, and holds while another command  *)
(* runs.                                                                   *)
(***************************************************************************)
EXTENDS Commands, Integers, Sequences, SequenceTheorems, WellFoundedInduction, TLAPS

-----------------------------------------------------------------------------
(* lore install *)

Phases == {"prepare", "seal", "backup", "write", "finalize", "profile", "publish", "rollback"}
Kinds == {"started", "completed", "failed"}
Events == [seq : Nat, phase : Phases, kind : Kinds, done : Nat]

\* What an observer has seen: numbered without a gap, and never falling back but
\* in a failure, the last one.
Numbered(s) ==
  \A n \in 1..Len(s) :
    /\ s[n].seq = n
    /\ n > 1 /\ s[n].kind # "failed" => s[n].done >= s[n-1].done
    /\ s[n].kind = "failed" \/ s[n].phase = "rollback" => n = Len(s)

\* The first n events of an apply that has not failed, the last of them at d.
Story(s, n, d) ==
  /\ s \in Seq(Events) /\ Len(s) = n /\ Numbered(s)
  /\ n > 0 /\ s[n].done = d /\ s[n].kind # "failed" /\ s[n].phase # "rollback"
Seen(n, d) == IF call.format = "human" THEN Story(events, n, d) ELSE events = << >>

Results ==
  [status : {"ready", "succeeded", "cancelled", "rolled-back", "failed", "residual-risk"},
   admitted : BOOLEAN, changed : BOOLEAN, interrupted : BOOLEAN, residual : BOOLEAN,
   attempted : BOOLEAN, complete : BOOLEAN,
   error : {"", "canonical_route_disabled", "rejected", "confirmation_required", "apply_rejected",
            "legacy_execution_failed"}]

\* What the result of a canonical command says of the target, and what the
\* observer has seen last.
Calm == ~result.residual /\ ~result.interrupted
        /\ (Install!Succeeded \/ (result.status = "cancelled" /\ ~result.changed /\ ~result.attempted))
ResultTells ==
  /\ result.residual <=> files = "mixed"
  /\ result.interrupted => signalled # "no"
  /\ ~result.changed /\ ~result.residual => files = "prior"
  /\ Calm => files = (IF result.status = "succeeded" /\ Install!Mode(call) = "apply"
                      THEN "new" ELSE "prior")
LastTells ==
  call.format = "human" =>
    (files = "new" /\ result.error = "" <=>
       events # << >> /\ events[Len(events)] = Install!E(8, "publish", "completed", 7))

Consented == call.yes \/ said = "yes"
Untouched == files = "prior" /\ ~resolved /\ events = << >>

\* What is known of an install at each of its steps.
InstallInv ==
  /\ Install!TypeOK /\ Numbered(events) /\ result \in Results /\ resolved \in BOOLEAN
  /\ release \in [embedded : Install!Embedded, gate : {"off", "E", "D", "A"}]
  /\ at \in {"shell", "prepare", "confirm", "asking", "execute"} => Untouched
  /\ Install!Mode(call) # "apply" => Untouched
  /\ at \notin {"shell", "exited"} => ~Install!Conflicting(call)
  /\ at \in {"confirm", "asking"} => Install!Mode(call) = "apply"
  /\ at \in {"confirm", "asking", "execute", "write", "written", "finalized"} =>
       /\ result = Install!Ready /\ sealed = (IF call.legacy THEN "legacy" ELSE "canonical")
       /\ ~call.legacy => Install!Admitted /\ Install!Seals
  /\ at \in {"execute", "write", "written", "finalized"} /\ Install!Mode(call) = "apply" => Consented
  /\ at \in {"write", "written", "finalized"} => ~call.legacy /\ Install!Mode(call) = "apply"
  /\ at = "write" => files = "prior" /\ Seen(3, 2)
  /\ at = "written" => files = "mixed" /\ Seen(4, 4)
  /\ at = "finalized" => files = "mixed" /\ Seen(6, 5)
  /\ at = "present" /\ ~call.legacy => ResultTells /\ LastTells
  /\ at = "exited" /\ ~call.legacy => LastTells
  /\ Install!ExitTells
  /\ at = "shell" => result = Install!Blank /\ signalled = "no"

\* The gate an apply needs is the highest one.
LEMMA GateOpens ==
  ASSUME release \in [embedded : Install!Embedded, gate : {"off", "E", "D", "A"}],
         Install!Admitted, Install!Mode(call) = "apply"
  PROVE  release = [embedded |-> "genuine", gate |-> "A"]
<1>1. \A g \in {"off", "E", "D", "A"} : Install!Rank(g) >= 4 => g = "A"
  BY DEF Install!Rank, Install!Gates
<1>2. Install!ReleaseGate = "A"  BY <1>1 DEF Install!Admitted, Install!Needed, Install!ReleaseGate
<1> QED  BY <1>2 DEF Install!ReleaseGate

\* One more event.
LEMMA OneMore ==
  ASSUME NEW s, NEW n \in Nat, NEW d \in Nat, Story(s, n, d),
         NEW ph \in Phases, NEW k \in Kinds, NEW e \in Nat, k = "failed" \/ e >= d
  PROVE  LET t == s \o << Install!E(n + 1, ph, k, e) >>
         IN  /\ t \in Seq(Events) /\ Len(t) = n + 1 /\ Numbered(t)
             /\ t[n + 1] = Install!E(n + 1, ph, k, e)
             /\ k # "failed" /\ ph # "rollback" => Story(t, n + 1, e)
<1> DEFINE x == Install!E(n + 1, ph, k, e)
           t == s \o << x >>
<1>1. x \in Events /\ x.seq = n + 1 /\ x.phase = ph /\ x.kind = k /\ x.done = e
  BY DEF Events, Phases, Kinds, Install!E
<1>2. s \in Seq(Events) /\ Len(s) = n /\ n > 0 /\ s[n].done = d /\ Numbered(s)
      /\ s[n].kind # "failed" /\ s[n].phase # "rollback"
  BY DEF Story
<1> HIDE DEF x
<1>3. t \in Seq(Events) /\ Len(t) = n + 1 /\ t[n + 1] = x /\ \A i \in 1..n : t[i] = s[i]
  BY <1>1, <1>2
<1>4. \A i \in 1..n : s[i].kind # "failed" /\ s[i].phase # "rollback"
  BY <1>2 DEF Numbered
<1>5. Numbered(t)
  BY <1>1, <1>2, <1>3, <1>4 DEF Numbered
<1> QED  BY <1>1, <1>3, <1>5 DEF Story, x

\* What an observer sees of one event, and of two.
LEMMA EmitsOne ==
  ASSUME NEW n \in Nat, NEW d \in Nat, Seen(n, d), call' = call,
         NEW ph \in Phases, NEW k \in Kinds, NEW e \in Nat, k = "failed" \/ e >= d,
         Install!Emit(<< Install!E(n + 1, ph, k, e) >>)
  PROVE  /\ Numbered(events')
         /\ k # "failed" /\ ph # "rollback" => Seen(n + 1, e)'
         /\ call.format = "human" =>
              events' # << >> /\ events'[Len(events')] = Install!E(n + 1, ph, k, e)
<1>1. CASE call.format # "human"
  BY <1>1 DEF Seen, Install!Emit, Numbered
<1>2. CASE call.format = "human"
  <2>1. events' = events \o << Install!E(n + 1, ph, k, e) >> /\ Story(events, n, d)
    BY <1>2 DEF Seen, Install!Emit
  <2>2. /\ events' \in Seq(Events) /\ Len(events') = n + 1 /\ Numbered(events')
        /\ events'[n + 1] = Install!E(n + 1, ph, k, e)
        /\ k # "failed" /\ ph # "rollback" => Story(events', n + 1, e)
    <3> DEFINE t == events \o << Install!E(n + 1, ph, k, e) >>
    <3>1. /\ t \in Seq(Events) /\ Len(t) = n + 1 /\ Numbered(t)
          /\ t[n + 1] = Install!E(n + 1, ph, k, e)
          /\ k # "failed" /\ ph # "rollback" => Story(t, n + 1, e)
      BY <2>1, OneMore
    <3> HIDE DEF t
    <3> QED  BY <2>1, <3>1 DEF t
  <2> QED  BY <1>2, <2>2 DEF Seen
<1> QED  BY <1>1, <1>2

\* The second of two goes as far as the plan says.
LEMMA EmitsTwo ==
  ASSUME NEW n \in Nat, NEW d \in Nat, Seen(n, d), call' = call,
         NEW p1 \in Phases, p1 # "rollback", NEW ph \in Phases, NEW k \in Kinds, NEW e \in Nat,
         k = "failed" \/ e >= d,
         Install!Emit(<< Install!E(n + 1, p1, "started", d), Install!E(n + 2, ph, k, e) >>)
  PROVE  /\ Numbered(events')
         /\ k # "failed" /\ ph # "rollback" => Seen(n + 2, e)'
         /\ call.format = "human" =>
              events' # << >> /\ events'[Len(events')] = Install!E(n + 2, ph, k, e)
<1>1. CASE call.format # "human"
  BY <1>1 DEF Seen, Install!Emit, Numbered
<1>2. CASE call.format = "human"
  <2> DEFINE x == Install!E(n + 1, p1, "started", d)
             y == Install!E(n + 2, ph, k, e)
             u == events'
  <2>1. u = events \o << x, y >> /\ Story(events, n, d)
    BY <1>2 DEF Seen, Install!Emit
  <2>2. /\ x \in Events /\ x.seq = n + 1 /\ x.phase = p1 /\ x.kind = "started" /\ x.done = d
        /\ y \in Events /\ y.seq = n + 2 /\ y.phase = ph /\ y.kind = k /\ y.done = e
    BY DEF Events, Phases, Kinds, Install!E
  <2>3. events \in Seq(Events) /\ Len(events) = n /\ n > 0 /\ events[n].done = d /\ Numbered(events)
        /\ events[n].kind # "failed" /\ events[n].phase # "rollback"
    BY <2>1 DEF Story
  <2> HIDE DEF x, y, u
  <2>4. u \in Seq(Events) /\ Len(u) = n + 2 /\ u[n + 1] = x /\ u[n + 2] = y
        /\ \A i \in 1..n : u[i] = events[i]
    BY <2>1, <2>2, <2>3
  <2>5. \A i \in 1..n : events[i].kind # "failed" /\ events[i].phase # "rollback"
    BY <2>3 DEF Numbered
  <2>6. Numbered(u)  BY <2>2, <2>3, <2>4, <2>5 DEF Numbered
  <2>7. k # "failed" /\ ph # "rollback" => Story(u, n + 2, e)
    BY <2>2, <2>4, <2>6 DEF Story
  <2> QED  BY <1>2, <2>4, <2>6, <2>7 DEF Seen, y, u
<1> QED  BY <1>1, <1>2

\* The first events of an apply.
LEMMA EmitsFirst ==
  ASSUME events = << >>, call' = call,
         Install!Emit(<< Install!E(1, "prepare", "completed", 1),
                         Install!E(2, "seal", "completed", 2),
                         Install!E(3, "backup", "started", 2) >>)
  PROVE  Seen(3, 2)' /\ Numbered(events')
<1>1. CASE call.format # "human"
  BY <1>1 DEF Seen, Install!Emit, Numbered
<1>2. CASE call.format = "human"
  <2> DEFINE x == Install!E(1, "prepare", "completed", 1)
             y == Install!E(2, "seal", "completed", 2)
             z == Install!E(3, "backup", "started", 2)
  <2>1. x \in Events /\ y \in Events /\ z \in Events  BY DEF Events, Phases, Kinds, Install!E
  <2>2. events' = << >> \o << x, y, z >>  BY <1>2 DEF Install!Emit
  <2>3. events' \in Seq(Events) /\ Len(events') = 3 /\ events'[1] = x /\ events'[2] = y /\ events'[3] = z
    <3> HIDE DEF x, y, z
    <3> QED  BY <2>1, <2>2
  <2>4. Numbered(events')  BY <2>3 DEF Numbered, Install!E
  <2>5. Story(events', 3, 2)  BY <2>3, <2>4 DEF Story, Install!E
  <2> QED  BY <1>2, <2>4, <2>5 DEF Seen
<1> QED  BY <1>1, <1>2

-----------------------------------------------------------------------------
(* Results *)

\* The results that are made of no other, and what they say.
LEMMA PlainResults ==
  /\ Install!Ready \in Results /\ Install!Blank \in Results
  /\ Install!Ready.status = "ready" /\ Install!Ready.admitted /\ Install!Ready.error = ""
  /\ ~Install!Ready.changed /\ ~Install!Ready.interrupted /\ ~Install!Ready.residual
  /\ ~Install!Ready.attempted
  /\ ~Install!Blank.changed /\ ~Install!Blank.interrupted /\ ~Install!Blank.residual
<1>1. Install!Blank \in Results  BY DEF Install!Blank, Results
<1>2. /\ ~Install!Blank.changed /\ ~Install!Blank.interrupted /\ ~Install!Blank.residual
      /\ ~Install!Blank.attempted /\ Install!Blank.error = ""
  BY DEF Install!Blank
<1> QED  BY <1>1, <1>2 DEF Install!Ready, Results

\* A result that says nothing has happened is true of an untouched target.
LEMMA NothingHappened ==
  ASSUME Untouched', result' \in Results, ~result'.residual, ~result'.changed,
         result'.interrupted => signalled' # "no",
         result'.status = "succeeded" => Install!Mode(call') # "apply"
  PROVE  (ResultTells /\ LastTells)'
BY DEF Untouched, ResultTells, LastTells, Calm, Results

\* What a failure says of the target is what it left.
LEMMA FailureTells ==
  ASSUME NEW r \in Results, ~r.residual, ~r.changed, r.interrupted => signalled' # "no",
         NEW how \in Install!Failures, result' = Install!Failure(how, r),
         files' = Install!Left(how)
  PROVE  result' \in Results /\ ResultTells' /\ result'.error = "apply_rejected"
         /\ files' \in {"prior", "mixed", "new"}
<1>1. CASE how = "residual"
  BY <1>1 DEF Install!Failure, Install!Left, Results, ResultTells, Calm, Install!Succeeded
<1>2. CASE how = "cleanup"
  BY <1>2 DEF Install!Failure, Install!Left, Results, ResultTells, Calm, Install!Succeeded
<1>3. CASE how = "unbegun"
  BY <1>3 DEF Install!Failure, Install!Left, Results, ResultTells, Calm, Install!Succeeded
<1>4. CASE how \in {"undone", "unclean"}
  BY <1>4 DEF Install!Failure, Install!Left, Results, ResultTells, Calm, Install!Succeeded
<1> QED  BY <1>1, <1>2, <1>3, <1>4 DEF Install!Failures

\* The last event of something that went wrong, or was undone, is not the
\* publication.
LEMMA LastIsNot ==
  ASSUME NEW n \in Nat, NEW ph \in Phases, NEW k \in Kinds, NEW e \in Nat,
         k = "failed" \/ ph = "rollback",
         call'.format = "human" =>
           events' # << >> /\ events'[Len(events')] = Install!E(n, ph, k, e),
         files' # "new" \/ result'.error # ""
  PROVE  LastTells'
<1> DEFINE x == Install!E(n, ph, k, e)
           y == Install!E(8, "publish", "completed", 7)
<1>1. x.kind = k /\ x.phase = ph /\ y.kind = "completed" /\ y.phase = "publish"
  BY DEF Install!E
<1>2. x # y  BY <1>1
<1> HIDE DEF x, y
<1> QED  BY <1>2 DEF LastTells, x, y

\* A refusal before anything has begun.
LEMMA Refusals ==
  ASSUME NEW code \in {"canonical_route_disabled", "rejected", "confirmation_required"},
         NEW r, r = Install!Error(Install!Blank, code)
  PROVE  /\ r \in Results /\ ~r.residual /\ ~r.changed /\ ~r.interrupted
         /\ r.status = "failed"
BY DEF Install!Error, Install!Blank, Results

-----------------------------------------------------------------------------
(* The steps of an install *)

\* A step that leaves a result to be presented.
LEMMA Presents ==
  ASSUME InstallInv, at \notin {"shell", "exited"}, at' = "present",
         UNCHANGED <<release, input, call, signalled, exit>>,
         said' \in {"none", "yes", "no"}, sealed' \in {"none", "canonical", "legacy"},
         result' \in Results, resolved' \in BOOLEAN, Numbered(events'),
         files' \in {"prior", "mixed", "new"},
         Install!Mode(call) # "apply" => Untouched',
         ~call.legacy => (ResultTells /\ LastTells)'
  PROVE  InstallInv'
<1>1. Install!TypeOK'  BY DEF InstallInv, Install!TypeOK, Results
<1>2. Install!Mode(call)' = Install!Mode(call)  BY DEF Install!Mode
<1> QED  BY <1>1, <1>2 DEF InstallInv, Install!ExitTells

\* A step of a command that goes on untouched.
LEMMA GoesOn ==
  ASSUME InstallInv, at \in {"shell", "prepare", "confirm", "asking", "execute"},
         at' \in {"prepare", "confirm", "asking", "execute"},
         UNCHANGED <<release, input, signalled, exit, files, resolved, events>>,
         call' \in Install!Calls,
         at' = "prepare" => ~Install!Conflicting(call'), at = "shell" => at' = "prepare",
         said' \in {"none", "yes", "no"}, sealed' \in {"none", "canonical", "legacy"},
         result' \in Results,
         at' # "prepare" => /\ call' = call /\ result' = Install!Ready
                            /\ sealed' = (IF call.legacy THEN "legacy" ELSE "canonical")
                            /\ ~call.legacy => Install!Admitted /\ Install!Seals,
         at' \in {"confirm", "asking"} => Install!Mode(call) = "apply",
         at' = "execute" /\ Install!Mode(call) = "apply" => (Consented)'
  PROVE  InstallInv'
<1>1. Install!TypeOK'
  BY ZenonT(40) DEF InstallInv, Install!TypeOK, Results
<1>2. call' = call => Install!Mode(call)' = Install!Mode(call) /\ Install!Admitted' = Install!Admitted
                      /\ Install!Seals' = Install!Seals
  BY DEF Install!Mode, Install!Admitted, Install!Seals, Install!ReleaseGate
<1>3. Untouched'  BY DEF InstallInv, Untouched
<1>4. Numbered(events')  BY <1>3 DEF Numbered, Untouched
<1>5. Install!Ready' = Install!Ready  BY DEF Install!Ready, Install!Blank
<1>6. ~Install!Conflicting(call')
  <2>1. CASE at' = "prepare"  BY <2>1
  <2>2. CASE at' # "prepare"
    <3>1. call' = call /\ at \notin {"shell", "exited"}  BY <2>2
    <3>2. ~Install!Conflicting(call)  BY <3>1 DEF InstallInv
    <3> QED  BY <3>1, <3>2
  <2> QED  BY <2>1, <2>2
<1> QED
  BY <1>1, <1>2, <1>3, <1>4, <1>5, <1>6 DEF InstallInv, Install!ExitTells, Untouched, Consented

\* The step before an effect leaves the command and its plan alone.
LEMMA Advances ==
  ASSUME InstallInv, at \in {"execute", "write", "written"}, ~call.legacy, Install!Mode(call) = "apply",
         UNCHANGED <<release, input, call, signalled, said, sealed, exit, result>>,
         resolved' \in BOOLEAN, Numbered(events'),
         \/ at' = "write" /\ files' = "prior" /\ Seen(3, 2)'
         \/ at' = "written" /\ files' = "mixed" /\ Seen(4, 4)'
         \/ at' = "finalized" /\ files' = "mixed" /\ Seen(6, 5)'
  PROVE  InstallInv'
<1>1. Install!TypeOK'  BY DEF InstallInv, Install!TypeOK
<1>2. Install!Mode(call)' = Install!Mode(call) /\ Install!Admitted' = Install!Admitted
      /\ Install!Seals' = Install!Seals
  BY DEF Install!Mode, Install!Admitted, Install!Seals, Install!ReleaseGate
<1>3. Install!Ready' = Install!Ready  BY DEF Install!Ready, Install!Blank
<1> QED  BY <1>1, <1>2, <1>3 DEF InstallInv, Install!ExitTells, Consented

\* The command line is parsed, or refused.
LEMMA InvokeStep == InstallInv /\ Install!Invoke => InstallInv'
<1> SUFFICES ASSUME InstallInv, NEW c \in Install!Calls, at = "shell", call' = c,
                    UNCHANGED <<release, input, signalled, said, sealed, files, resolved, events, result>>,
                    \/ exit' \in {1, 2} /\ at' = "exited"
                    \/ UNCHANGED exit /\ at' = "prepare" /\ ~Install!Conflicting(c)
             PROVE  InstallInv'
  BY DEF Install!Invoke, Install!env, Install!effects
<1>1. CASE at' = "prepare"
  BY <1>1, GoesOn DEF InstallInv, Install!TypeOK
<1>2. CASE exit' \in {1, 2} /\ at' = "exited"
  <2>1. Untouched' /\ Numbered(events') /\ result' = Install!Blank
    BY DEF InstallInv, Untouched, Numbered
  <2>2. Install!TypeOK'  BY <1>2 DEF InstallInv, Install!TypeOK
  <2>3. LastTells'  BY <2>1 DEF LastTells, Untouched
  <2>4. Install!ExitTells'  BY <1>2, <2>1 DEF Install!ExitTells, Untouched
  <2> QED  BY <1>2, <2>1, <2>2, <2>3, <2>4 DEF InstallInv
<1> QED  BY <1>1, <1>2

\* A canonical prepare, with the gate before the sealing.
LEMMA PrepareSteps ==
  ASSUME InstallInv,
         Install!PrepareExplain \/ Install!PrepareDryRun \/ Install!PrepareApply \/ Install!PrepareLegacy
  PROVE  InstallInv'
<1>1. at = "prepare" /\ UNCHANGED <<release, input, call, signalled, said, files, resolved, events, exit>>
  BY
  DEF Install!PrepareExplain, Install!PrepareDryRun, Install!PrepareApply, Install!PrepareThen,
    Install!PrepareLegacy, Install!env, Install!effects, Install!console
<1>2. Untouched /\ Untouched' /\ Numbered(events')
  BY <1>1 DEF InstallInv, Untouched, Numbered
<1>3. \/ /\ at' = "present" /\ UNCHANGED sealed
         /\ result' \in {Install!Error(Install!Blank, "canonical_route_disabled"),
                         Install!Error(Install!Blank, "rejected")}
      \/ /\ ~call.legacy /\ Install!Admitted /\ Install!Seals /\ sealed' = "canonical"
         /\ result' = Install!Ready
         /\ \/ at' = "present" /\ Install!Mode(call) = "explain"
            \/ at' = "execute" /\ Install!Mode(call) = "dry"
            \/ at' = "confirm" /\ Install!Mode(call) = "apply"
      \/ /\ call.legacy /\ sealed' = "legacy" /\ result' = Install!Ready
         /\ at' = IF Install!Mode(call) = "dry" THEN "execute" ELSE "confirm"
  BY
  DEF Install!PrepareExplain, Install!PrepareDryRun, Install!PrepareApply, Install!PrepareThen,
    Install!PrepareLegacy, Install!Present, Install!Route, Install!NewPrepared
<1>4. Install!Mode(call)' = Install!Mode(call)  BY <1>1 DEF Install!Mode
<1>5. ASSUME at' = "present", ~result'.residual, ~result'.changed, ~result'.interrupted,
             result'.status # "succeeded", result' \in Results,
             sealed' \in {"none", "canonical", "legacy"}
      PROVE  InstallInv'
  <2>1. (ResultTells /\ LastTells)'  BY <1>2, <1>5, NothingHappened
  <2>2. files' \in {"prior", "mixed", "new"} /\ resolved' \in BOOLEAN /\ said' \in {"none", "yes", "no"}
    BY <1>1 DEF InstallInv, Install!TypeOK
  <2> QED  BY <1>1, <1>2, <1>5, <2>1, <2>2, Presents
<1>6. CASE /\ at' = "present" /\ UNCHANGED sealed
           /\ result' \in {Install!Error(Install!Blank, "canonical_route_disabled"),
                           Install!Error(Install!Blank, "rejected")}
  <2>1. PICK code \in {"canonical_route_disabled", "rejected"} :
          result' = Install!Error(Install!Blank, code)
    BY <1>6
  <2>2. /\ result' \in Results /\ ~result'.residual /\ ~result'.changed
        /\ ~result'.interrupted /\ result'.status = "failed"
    BY <2>1, Refusals
  <2>3. sealed' \in {"none", "canonical", "legacy"}  BY <1>6 DEF InstallInv, Install!TypeOK
  <2> QED  BY <1>5, <1>6, <2>2, <2>3
<1>7. CASE result' = Install!Ready /\ sealed' = "canonical" /\ at' = "present"
  BY <1>5, <1>7, PlainResults
<1>8. CASE /\ result' = Install!Ready /\ at' \in {"execute", "confirm"}
           /\ sealed' = (IF call.legacy THEN "legacy" ELSE "canonical")
           /\ ~call.legacy => Install!Admitted /\ Install!Seals
           /\ at' = "execute" => Install!Mode(call) = "dry"
           /\ at' = "confirm" => Install!Mode(call) = "apply"
  BY <1>1, <1>4, <1>8, GoesOn, PlainResults DEF InstallInv, Install!TypeOK
<1>9. call.legacy => Install!Mode(call) \in {"dry", "apply"}
  BY <1>1 DEF InstallInv, Install!Conflicting, Install!Mode
<1> QED  BY <1>3, <1>6, <1>7, <1>8, <1>9

\* The question and its answers.
LEMMA QuestionSteps ==
  ASSUME InstallInv,
         Install!Confirm \/ (\E a \in {"yes", "no"} : Install!Answer(a)) \/ Install!InterruptedAsking
  PROVE  InstallInv'
<1>1. /\ at \in {"confirm", "asking"} /\ UNCHANGED <<release, input, call, signalled, sealed>>
      /\ UNCHANGED <<files, resolved, events, exit>>
  BY
  DEF Install!Confirm, Install!Answer, Install!InterruptedAsking, Install!env, Install!effects,
    Install!console
<1>2. Untouched /\ Untouched' /\ Numbered(events')
  BY <1>1 DEF InstallInv, Untouched, Numbered
<1>3. \/ at' \in {"execute", "asking"} /\ UNCHANGED <<result, said>> /\ (at' = "execute" => call.yes)
      \/ at' = "execute" /\ UNCHANGED result /\ said' = "yes"
      \/ /\ at' = "present" /\ UNCHANGED said
         /\ result' = Install!Error(Install!Blank, "confirmation_required")
      \/ at' = "present" /\ said' \in {"yes", "no"} /\ result' = [result EXCEPT !.status = "cancelled"]
      \/ /\ at' = "present" /\ UNCHANGED said /\ signalled # "no"
         /\ result' = [result EXCEPT !.status = "cancelled", !.interrupted = TRUE]
  BY DEF Install!Confirm, Install!Answer, Install!InterruptedAsking, Install!Present
<1>4. Install!Mode(call)' = Install!Mode(call) /\ Install!Mode(call) = "apply" /\ result = Install!Ready
  BY <1>1 DEF Install!Mode, InstallInv
<1>5. /\ files' \in {"prior", "mixed", "new"} /\ resolved' \in BOOLEAN /\ said \in {"none", "yes", "no"}
      /\ sealed' \in {"none", "canonical", "legacy"}
    BY <1>1 DEF InstallInv, Install!TypeOK
<1>6. ASSUME at' = "present", result' \in Results, ~result'.residual, ~result'.changed,
             result'.interrupted => signalled # "no", result'.status # "succeeded",
             said' \in {"none", "yes", "no"}
      PROVE  InstallInv'
  <2>1. (ResultTells /\ LastTells)'  BY <1>1, <1>2, <1>6, NothingHappened
  <2> QED  BY <1>1, <1>2, <1>5, <1>6, <2>1, Presents
<1>7. CASE at' \in {"execute", "asking"}
  <2>1. at' = "execute" => Consented'  BY <1>1, <1>3, <1>7 DEF Consented
  <2>2. said' \in {"none", "yes", "no"} /\ result' = result  BY <1>3, <1>5, <1>7
  <2>3. /\ sealed' = (IF call.legacy THEN "legacy" ELSE "canonical")
        /\ ~call.legacy => Install!Admitted /\ Install!Seals
        /\ call \in Install!Calls
    BY <1>1 DEF InstallInv, Install!TypeOK
  <2> QED  BY <1>1, <1>4, <1>5, <1>7, <2>1, <2>2, <2>3, GoesOn, PlainResults
<1>8. CASE /\ at' = "present" /\ UNCHANGED said
           /\ result' = Install!Error(Install!Blank, "confirmation_required")
  BY <1>5, <1>6, <1>8, Refusals
<1>9. CASE at' = "present" /\ said' \in {"yes", "no"} /\ result' = [result EXCEPT !.status = "cancelled"]
  BY <1>4, <1>6, <1>9, PlainResults DEF Results
<1>10. CASE /\ at' = "present" /\ UNCHANGED said /\ signalled # "no"
            /\ result' = [result EXCEPT !.status = "cancelled", !.interrupted = TRUE]
  BY <1>4, <1>5, <1>6, <1>10, PlainResults DEF Results
<1> QED  BY <1>3, <1>7, <1>8, <1>9, <1>10

\* A dry run changes nothing.
LEMMA DryRunStep == InstallInv /\ Install!ExecuteDryRun => InstallInv'
<1> SUFFICES ASSUME InstallInv, Install!ExecuteDryRun  PROVE InstallInv'
  OBVIOUS
<1>1. /\ at = "execute" /\ at' = "present" /\ Install!Mode(call) = "dry"
      /\ UNCHANGED <<release, input, call, signalled, said, sealed, files, resolved, events, exit>>
      /\ result' = [Install!Ready EXCEPT !.status = "succeeded"]
  BY DEF Install!ExecuteDryRun, Install!Present, Install!env, Install!effects, Install!console
<1>2. Untouched' /\ Numbered(events')  BY <1>1 DEF InstallInv, Untouched, Numbered
<1>3. result' \in Results /\ ~result'.residual /\ ~result'.changed /\ ~result'.interrupted
  BY <1>1, PlainResults DEF Results
<1>4. Install!Mode(call') = Install!Mode(call)  BY <1>1 DEF Install!Mode
<1>5. (ResultTells /\ LastTells)'  BY <1>1, <1>2, <1>3, <1>4, NothingHappened
<1>6. files' \in {"prior", "mixed", "new"} /\ resolved' \in BOOLEAN /\ said' \in {"none", "yes", "no"}
      /\ sealed' \in {"none", "canonical", "legacy"}
  BY <1>1 DEF InstallInv, Install!TypeOK
<1> QED  BY <1>1, <1>2, <1>3, <1>5, <1>6, Presents

\* An apply is checked once more, and given up when it has been interrupted.
LEMMA CheckStep == InstallInv /\ Install!Check => InstallInv'
<1> SUFFICES ASSUME InstallInv, Install!Check  PROVE InstallInv'
  OBVIOUS
<1>1. /\ at = "execute" /\ sealed = "canonical" /\ Install!Mode(call) = "apply"
      /\ UNCHANGED <<release, input, call, signalled, said, sealed, files, resolved, exit>>
      /\ \/ /\ at' = "write" /\ UNCHANGED result
            /\ Install!Emit(<< Install!E(1, "prepare", "completed", 1),
                               Install!E(2, "seal", "completed", 2),
                               Install!E(3, "backup", "started", 2) >>)
         \/ /\ signalled # "no" /\ at' = "present" /\ UNCHANGED events
            /\ result' = [Install!Ready EXCEPT !.status = "cancelled", !.interrupted = TRUE]
  BY DEF Install!Check, Install!Present, Install!env, Install!console
<1>2. Untouched /\ ~call.legacy  BY <1>1 DEF InstallInv
<1>3. files' \in {"prior", "mixed", "new"} /\ resolved' \in BOOLEAN /\ said' \in {"none", "yes", "no"}
      /\ sealed' \in {"none", "canonical", "legacy"}
  BY <1>1 DEF InstallInv, Install!TypeOK
<1>4. CASE /\ at' = "write" /\ UNCHANGED result
           /\ Install!Emit(<< Install!E(1, "prepare", "completed", 1),
                              Install!E(2, "seal", "completed", 2),
                              Install!E(3, "backup", "started", 2) >>)
  <2>1. events = << >> /\ files' = "prior"  BY <1>1, <1>2 DEF Untouched
  <2>2. Seen(3, 2)' /\ Numbered(events')  BY <1>1, <1>4, <2>1, EmitsFirst
  <2> QED  BY <1>1, <1>2, <1>3, <1>4, <2>1, <2>2, Advances
<1>5. CASE /\ signalled # "no" /\ at' = "present" /\ UNCHANGED events
           /\ result' = [Install!Ready EXCEPT !.status = "cancelled", !.interrupted = TRUE]
  <2>1. Untouched' /\ Numbered(events')  BY <1>1, <1>2, <1>5 DEF Untouched, Numbered
  <2>2. result' \in Results /\ ~result'.residual /\ ~result'.changed /\ result'.status = "cancelled"
    BY <1>5, PlainResults DEF Results
  <2>3. (ResultTells /\ LastTells)'  BY <1>1, <1>5, <2>1, <2>2, NothingHappened
  <2> QED  BY <1>1, <1>3, <1>5, <2>1, <2>2, <2>3, Presents
<1> QED  BY <1>1, <1>4, <1>5

\* An apply that ends in an error, with the event that told of it.
LEMMA Fails ==
  ASSUME InstallInv, at \in {"write", "written", "finalized"}, at' = "present",
         UNCHANGED <<release, input, call, signalled, said, sealed, exit>>,
         resolved' \in BOOLEAN, NEW r \in Results, ~r.residual, ~r.changed,
         r.interrupted => signalled # "no",
         NEW how \in Install!Failures, result' = Install!Failure(how, r),
         files' = Install!Left(how), Numbered(events'),
         NEW n \in Nat, NEW ph \in Phases, NEW e \in Nat,
         call.format = "human" =>
           events' # << >> /\ events'[Len(events')] = Install!E(n, ph, "failed", e)
  PROVE  InstallInv'
<1>1. Install!Mode(call) = "apply"  BY DEF InstallInv
<1>2. /\ said' \in {"none", "yes", "no"} /\ sealed' \in {"none", "canonical", "legacy"}
  BY DEF InstallInv, Install!TypeOK
<1>3. /\ result' \in Results /\ ResultTells' /\ result'.error = "apply_rejected"
      /\ files' \in {"prior", "mixed", "new"}
  BY FailureTells
<1>4. LastTells'
  <2>1. "failed" \in Kinds /\ result'.error # ""  BY <1>3 DEF Kinds
  <2>2. call'.format = "human" =>
          events' # << >> /\ events'[Len(events')] = Install!E(n, ph, "failed", e)
    OBVIOUS
  <2> QED  BY <2>1, <2>2, LastIsNot
<1> QED  BY <1>1, <1>2, <1>3, <1>4, Presents

\* As above, of an apply that was not interrupted.
LEMMA FailsPlainly ==
  ASSUME InstallInv, at \in {"write", "written", "finalized"}, at' = "present",
         UNCHANGED <<release, input, call, signalled, said, sealed, exit>>,
         resolved' \in BOOLEAN,
         NEW how \in Install!Failures, result' = Install!Failure(how, Install!Ready),
         files' = Install!Left(how), Numbered(events'),
         NEW n \in Nat, NEW ph \in Phases,
         call.format = "human" =>
           events' # << >> /\ events'[Len(events')] = Install!E(n, ph, "failed", 0)
  PROVE  InstallInv'
<1>1. 0 \in Nat  OBVIOUS
<1> QED  BY <1>1, PlainResults, Fails

\* The writes, made or failed.
LEMMA WriteStep == InstallInv /\ Install!Write => InstallInv'
<1> SUFFICES ASSUME InstallInv, Install!Write  PROVE InstallInv'
  OBVIOUS
<1>1. /\ at = "write"
      /\ UNCHANGED <<release, input, call, signalled, said, sealed, resolved, exit>>
      /\ \/ /\ files' = "mixed" /\ at' = "written" /\ UNCHANGED result
            /\ Install!Emit(<< Install!E(3 + 1, "write", "completed", 4) >>)
         \/ /\ at' = "present" /\ Install!Emit(<< Install!E(3 + 1, "write", "failed", 0) >>)
            /\ \E how \in {"unbegun", "undone", "unclean", "residual"} :
                 files' = Install!Left(how) /\ result' = Install!Failure(how, Install!Ready)
  BY DEF Install!Write, Install!Present, Install!env, Install!console
<1>2. Seen(3, 2) /\ Install!Mode(call) = "apply" /\ ~call.legacy /\ resolved' \in BOOLEAN
  BY <1>1 DEF InstallInv
<1>3. "write" \in Phases /\ "completed" \in Kinds /\ "failed" \in Kinds  BY DEF Phases, Kinds
<1>4. CASE /\ files' = "mixed" /\ at' = "written" /\ UNCHANGED result
           /\ Install!Emit(<< Install!E(3 + 1, "write", "completed", 4) >>)
  <2>1. Seen(3 + 1, 4)' /\ Numbered(events')  BY <1>1, <1>2, <1>3, <1>4, EmitsOne
  <2>2. Seen(4, 4)'  BY <2>1
  <2> QED  BY <1>1, <1>2, <1>4, <2>1, <2>2, Advances
<1>5. CASE /\ at' = "present" /\ Install!Emit(<< Install!E(3 + 1, "write", "failed", 0) >>)
           /\ \E how \in {"unbegun", "undone", "unclean", "residual"} :
                files' = Install!Left(how) /\ result' = Install!Failure(how, Install!Ready)
  <2>1. /\ Numbered(events')
        /\ call.format = "human" =>
             events' # << >> /\ events'[Len(events')] = Install!E(3 + 1, "write", "failed", 0)
    BY <1>1, <1>2, <1>3, <1>5, EmitsOne
  <2>2. PICK how \in Install!Failures :
          files' = Install!Left(how) /\ result' = Install!Failure(how, Install!Ready)
    BY <1>5 DEF Install!Failures
  <2> QED  BY <1>1, <1>2, <1>3, <1>5, <2>1, <2>2, FailsPlainly
<1> QED  BY <1>1, <1>4, <1>5

\* An interrupt between two effects undoes what has been done.
LEMMA UndoStep ==
  ASSUME InstallInv, at \in {"written", "finalized"}, signalled # "no",
         UNCHANGED <<release, input, call, signalled, said, sealed, resolved, exit>>,
         NEW n \in Nat, NEW d \in Nat, d <= 7, Seen(n, d),
         NEW how \in {"undone", "unclean", "residual"}, Install!Undo(n + 1, how)
  PROVE  InstallInv'
<1> DEFINE r == [Install!Ready EXCEPT !.interrupted = TRUE, !.attempted = TRUE]
<1>1. /\ at' = "present" /\ files' = Install!Left(how)
      /\ \/ /\ how = "undone" /\ result' = [r EXCEPT !.status = "cancelled", !.complete = TRUE]
            /\ Install!Emit(<< Install!E(n + 1, "rollback", "completed", 7) >>)
         \/ /\ result' = Install!Failure(how, r)
            /\ Install!Emit(<< Install!E(n + 1, "rollback", "failed", 0) >>)
  BY DEF Install!Undo, Install!Present, Install!UndoneUnder
<1>2. r \in Results /\ ~r.residual /\ ~r.changed /\ r.interrupted /\ r.attempted
  BY PlainResults DEF Results
<1>3. "rollback" \in Phases /\ "completed" \in Kinds /\ "failed" \in Kinds  BY DEF Phases, Kinds
<1>4. /\ Install!Mode(call) = "apply" /\ resolved' \in BOOLEAN
      /\ said' \in {"none", "yes", "no"} /\ sealed' \in {"none", "canonical", "legacy"}
  BY DEF InstallInv, Install!TypeOK
<1>5. CASE /\ result' = Install!Failure(how, r)
           /\ Install!Emit(<< Install!E(n + 1, "rollback", "failed", 0) >>)
  <2>1. /\ Numbered(events')
        /\ call.format = "human" =>
             events' # << >> /\ events'[Len(events')] = Install!E(n + 1, "rollback", "failed", 0)
    <3>1. call' = call /\ Seen(n, d)  OBVIOUS
    <3>2. Install!Emit(<< Install!E(n + 1, "rollback", "failed", 0) >>)  BY <1>5
    <3> HIDE DEF r
    <3> QED  BY <1>3, <3>1, <3>2, EmitsOne
  <2>2. how \in Install!Failures  BY DEF Install!Failures
  <2> HIDE DEF r
  <2> QED  BY <1>1, <1>2, <1>3, <1>4, <1>5, <2>1, <2>2, Fails
<1>6. CASE /\ how = "undone" /\ result' = [r EXCEPT !.status = "cancelled", !.complete = TRUE]
           /\ Install!Emit(<< Install!E(n + 1, "rollback", "completed", 7) >>)
  <2>1. /\ Numbered(events')
        /\ call.format = "human" =>
             events' # << >> /\ events'[Len(events')] = Install!E(n + 1, "rollback", "completed", 7)
    <3>1. call' = call /\ Seen(n, d)  OBVIOUS
    <3>2. Install!Emit(<< Install!E(n + 1, "rollback", "completed", 7) >>)  BY <1>6
    <3> HIDE DEF r
    <3> QED  BY <1>3, <3>1, <3>2, EmitsOne
  <2>2. files' = "prior"  BY <1>1, <1>6 DEF Install!Left
  <2>3. /\ result' \in Results /\ ~result'.residual /\ ~result'.changed
        /\ result'.interrupted /\ result'.status = "cancelled"
    <3> HIDE DEF r
    <3> QED  BY <1>2, <1>6 DEF Results
  <2>4. ResultTells'  BY <2>2, <2>3 DEF ResultTells, Calm
  <2>5. LastTells'
    <3>1. n + 1 \in Nat /\ call'.format = call.format  OBVIOUS
    <3> QED  BY <1>3, <2>1, <2>2, <3>1, LastIsNot
  <2> QED  BY <1>1, <1>4, <2>1, <2>2, <2>3, <2>4, <2>5, Presents
<1> QED  BY <1>1, <1>5, <1>6

\* The interrupt after the writes, and after the finalization.
LEMMA UndoSteps ==
  ASSUME InstallInv, Install!UndoWrites \/ Install!UndoFinalization
  PROVE  InstallInv'
<1>1. CASE Install!UndoWrites
  <2>1. /\ at = "written" /\ signalled # "no"
        /\ UNCHANGED <<release, input, call, signalled, said, sealed, resolved, exit>>
        /\ \E how \in {"undone", "unclean", "residual"} : Install!Undo(4 + 1, how)
    BY <1>1 DEF Install!UndoWrites, Install!env, Install!console
  <2>2. Seen(4, 4)  BY <2>1 DEF InstallInv
  <2> QED  BY <2>1, <2>2, UndoStep
<1>2. CASE Install!UndoFinalization
  <2>1. /\ at = "finalized" /\ signalled # "no"
        /\ UNCHANGED <<release, input, call, signalled, said, sealed, resolved, exit>>
        /\ \E how \in {"undone", "unclean", "residual"} : Install!Undo(6 + 1, how)
    BY <1>2 DEF Install!UndoFinalization, Install!env, Install!console
  <2>2. Seen(6, 5)  BY <2>1 DEF InstallInv
  <2> QED  BY <2>1, <2>2, UndoStep
<1> QED  BY <1>1, <1>2

\* The finalization, where the credential is resolved.
LEMMA FinalizeStep == InstallInv /\ Install!Finalize => InstallInv'
<1> SUFFICES ASSUME InstallInv, Install!Finalize  PROVE InstallInv'
  OBVIOUS
<1>1. /\ at = "written" /\ resolved' = TRUE
      /\ UNCHANGED <<release, input, call, signalled, said, sealed, exit>>
      /\ \/ /\ UNCHANGED <<files, result>> /\ at' = "finalized"
            /\ Install!Emit(<< Install!E(4 + 1, "finalize", "started", 4),
                               Install!E(4 + 2, "finalize", "completed", 5) >>)
         \/ /\ at' = "present"
            /\ Install!Emit(<< Install!E(4 + 1, "finalize", "started", 4),
                               Install!E(4 + 2, "finalize", "failed", 0) >>)
            /\ \E how \in {"undone", "unclean", "residual"} :
                 files' = Install!Left(how) /\ result' = Install!Failure(how, Install!Ready)
  BY DEF Install!Finalize, Install!Present, Install!env, Install!console
<1>2. Seen(4, 4) /\ Install!Mode(call) = "apply" /\ ~call.legacy /\ files = "mixed"
  BY <1>1 DEF InstallInv
<1>3. "finalize" \in Phases /\ "completed" \in Kinds /\ "failed" \in Kinds  BY DEF Phases, Kinds
<1>4. CASE /\ UNCHANGED <<files, result>> /\ at' = "finalized"
           /\ Install!Emit(<< Install!E(4 + 1, "finalize", "started", 4),
                              Install!E(4 + 2, "finalize", "completed", 5) >>)
  <2>1. Seen(4 + 2, 5)' /\ Numbered(events')  BY <1>1, <1>2, <1>3, <1>4, EmitsTwo
  <2>2. Seen(6, 5)'  BY <2>1
  <2> QED  BY <1>1, <1>2, <1>4, <2>1, <2>2, Advances
<1>5. CASE /\ at' = "present"
           /\ Install!Emit(<< Install!E(4 + 1, "finalize", "started", 4),
                              Install!E(4 + 2, "finalize", "failed", 0) >>)
           /\ \E how \in {"undone", "unclean", "residual"} :
                files' = Install!Left(how) /\ result' = Install!Failure(how, Install!Ready)
  <2>1. /\ Numbered(events')
        /\ call.format = "human" =>
             events' # << >> /\ events'[Len(events')] = Install!E(4 + 2, "finalize", "failed", 0)
    BY <1>1, <1>2, <1>3, <1>5, EmitsTwo
  <2>2. PICK how \in Install!Failures :
          files' = Install!Left(how) /\ result' = Install!Failure(how, Install!Ready)
    BY <1>5 DEF Install!Failures
  <2> QED  BY <1>1, <1>2, <1>3, <1>5, <2>1, <2>2, FailsPlainly
<1> QED  BY <1>1, <1>4, <1>5

\* The completion, after which the new target stays.
LEMMA CompleteStep == InstallInv /\ Install!Complete => InstallInv'
<1> SUFFICES ASSUME InstallInv, Install!Complete  PROVE InstallInv'
  OBVIOUS
<1>1. /\ at = "finalized" /\ at' = "present"
      /\ UNCHANGED <<release, input, call, signalled, said, sealed, resolved, exit>>
      /\ \/ /\ files' = "new"
            /\ result' = [Install!Ready EXCEPT !.status = "succeeded", !.changed = TRUE]
            /\ Install!Emit(<< Install!E(6 + 1, "profile", "started", 5),
                               Install!E(6 + 2, "publish", "completed", 7) >>)
         \/ /\ Install!Emit(<< Install!E(6 + 1, "profile", "started", 5),
                               Install!E(6 + 2, "publish", "failed", 0) >>)
            /\ \E how \in {"undone", "unclean", "residual", "cleanup"} :
                 files' = Install!Left(how) /\ result' = Install!Failure(how, Install!Ready)
  BY DEF Install!Complete, Install!Present, Install!env, Install!console
<1>2. /\ Seen(6, 5) /\ Install!Mode(call) = "apply" /\ ~call.legacy /\ resolved' \in BOOLEAN
      /\ said' \in {"none", "yes", "no"} /\ sealed' \in {"none", "canonical", "legacy"}
  BY <1>1 DEF InstallInv, Install!TypeOK
<1>3. /\ "profile" \in Phases /\ "publish" \in Phases /\ "completed" \in Kinds
      /\ "failed" \in Kinds
  BY DEF Phases, Kinds
<1>4. CASE /\ files' = "new"
           /\ result' = [Install!Ready EXCEPT !.status = "succeeded", !.changed = TRUE]
           /\ Install!Emit(<< Install!E(6 + 1, "profile", "started", 5),
                              Install!E(6 + 2, "publish", "completed", 7) >>)
  <2>1. /\ Numbered(events')
        /\ call.format = "human" =>
             events' # << >> /\ events'[Len(events')] = Install!E(6 + 2, "publish", "completed", 7)
    <3>1. call' = call /\ Seen(6, 5)  BY <1>1, <1>2
    <3>2. Install!Emit(<< Install!E(6 + 1, "profile", "started", 5),
                          Install!E(6 + 2, "publish", "completed", 7) >>)
      BY <1>4
    <3> QED  BY <1>3, <3>1, <3>2, EmitsTwo
  <2>2. result' \in Results /\ ~result'.residual /\ result'.changed /\ ~result'.interrupted
        /\ result'.error = "" /\ result'.status = "succeeded"
    BY <1>4, PlainResults DEF Results
  <2>3. Install!Mode(call') = "apply"  BY <1>1, <1>2
  <2>4. ResultTells'  BY <1>4, <2>2, <2>3 DEF ResultTells, Calm
  <2>5. LastTells'
    <3>1. Install!E(6 + 2, "publish", "completed", 7) = Install!E(8, "publish", "completed", 7)
      OBVIOUS
    <3>2. call.format = "human" =>
            events' # << >> /\ events'[Len(events')] = Install!E(8, "publish", "completed", 7)
      BY <2>1, <3>1
    <3> QED  BY <1>1, <1>4, <2>2, <3>2 DEF LastTells
  <2> QED  BY <1>1, <1>2, <1>4, <2>1, <2>2, <2>4, <2>5, Presents
<1>5. CASE /\ Install!Emit(<< Install!E(6 + 1, "profile", "started", 5),
                              Install!E(6 + 2, "publish", "failed", 0) >>)
           /\ \E how \in {"undone", "unclean", "residual", "cleanup"} :
                files' = Install!Left(how) /\ result' = Install!Failure(how, Install!Ready)
  <2>1. /\ Numbered(events')
        /\ call.format = "human" =>
             events' # << >> /\ events'[Len(events')] = Install!E(6 + 2, "publish", "failed", 0)
    <3>1. call' = call /\ Seen(6, 5)  BY <1>1, <1>2
    <3>2. Install!Emit(<< Install!E(6 + 1, "profile", "started", 5),
                          Install!E(6 + 2, "publish", "failed", 0) >>)
      BY <1>5
    <3> QED  BY <1>3, <3>1, <3>2, EmitsTwo
  <2>2. PICK how \in Install!Failures :
          files' = Install!Left(how) /\ result' = Install!Failure(how, Install!Ready)
    BY <1>5 DEF Install!Failures
  <2>3. /\ at \in {"write", "written", "finalized"} /\ at' = "present" /\ resolved' \in BOOLEAN
        /\ UNCHANGED <<release, input, call, signalled, said, sealed, exit>>
        /\ 6 + 2 \in Nat
    BY <1>1, <1>2
  <2> QED  BY <1>3, <2>1, <2>2, <2>3, FailsPlainly
<1> QED  BY <1>1, <1>4, <1>5

\* The legacy route, which has no journal and tells the observer nothing.
LEMMA LegacyStep == InstallInv /\ Install!ExecuteLegacy => InstallInv'
<1> SUFFICES ASSUME InstallInv, Install!ExecuteLegacy  PROVE InstallInv'
  OBVIOUS
<1>1. /\ at = "execute" /\ sealed = "legacy" /\ at' = "present"
      /\ UNCHANGED <<release, input, call, signalled, said, sealed, resolved, events, exit>>
      /\ files' \in {files, "prior", "mixed", "new"}
      /\ Install!Mode(call) # "apply" => files' = files
      /\ result' \in {Install!Legacy(TRUE), Install!Legacy(FALSE)}
  BY DEF Install!ExecuteLegacy, Install!Present, Install!env, Install!console
<1>2. /\ Untouched /\ call.legacy /\ Numbered(events)
      /\ said' \in {"none", "yes", "no"} /\ sealed' \in {"none", "canonical", "legacy"}
      /\ files' \in {"prior", "mixed", "new"} /\ resolved' \in BOOLEAN
  BY <1>1 DEF InstallInv, Install!TypeOK
<1>3. Install!Mode(call) # "apply" => Untouched'  BY <1>1, <1>2 DEF Untouched
<1>4. Install!Legacy(TRUE) \in Results /\ Install!Legacy(FALSE) \in Results
  BY PlainResults DEF Install!Legacy, Results
<1> QED  BY <1>1, <1>2, <1>3, <1>4, Presents

\* The exit status says what the result says.
LEMMA PresentStep == InstallInv /\ Install!PresentResult => InstallInv'
<1> SUFFICES ASSUME InstallInv, Install!PresentResult  PROVE InstallInv'
  OBVIOUS
<1>1. /\ at = "present" /\ at' = "exited" /\ exit' = Install!ExitCode
      /\ UNCHANGED <<release, input, call, signalled, said, sealed, files, resolved, events, result>>
  BY DEF Install!PresentResult, Install!env, Install!effects
<1>2. result \in Results  BY DEF InstallInv
<1>3. /\ exit' \in {0, 1, 3, 130} /\ (exit' = 3 <=> result.residual)
      /\ exit' = 130 <=> ~result.residual /\ result.interrupted
      /\ exit' = 0 <=> Calm
  <2>1. result.residual \in BOOLEAN /\ result.interrupted \in BOOLEAN  BY <1>2 DEF Results
  <2>2. CASE result.residual
    <3>1. exit' = 3  BY <1>1, <2>2 DEF Install!ExitCode
    <3> QED  BY <2>2, <3>1 DEF Calm
  <2>3. CASE ~result.residual /\ result.interrupted
    <3>1. exit' = 130  BY <1>1, <2>3 DEF Install!ExitCode
    <3> QED  BY <2>3, <3>1 DEF Calm
  <2>4. CASE Calm
    <3>1. exit' = 0  BY <1>1, <2>4 DEF Install!ExitCode, Calm
    <3> QED  BY <2>4, <3>1 DEF Calm
  <2>5. CASE ~Calm /\ ~result.residual /\ ~result.interrupted
    <3>1. exit' = 1  BY <1>1, <2>5 DEF Install!ExitCode, Calm
    <3> QED  BY <2>5, <3>1
  <2> QED  BY <2>1, <2>2, <2>3, <2>4, <2>5
<1>4. Install!TypeOK'  BY <1>1, <1>3 DEF InstallInv, Install!TypeOK
<1>5. Install!Mode(call') = Install!Mode(call)  BY <1>1 DEF Install!Mode
<1>6. Install!ExitTells'
  <2> SUFFICES ASSUME ~call.legacy  PROVE Install!ExitTells'
    BY <1>1 DEF Install!ExitTells
  <2>1. ResultTells  BY <1>1 DEF InstallInv
  <2> QED  BY <1>1, <1>3, <1>5, <2>1 DEF Install!ExitTells, ResultTells, Calm
<1>7. ~call'.legacy => LastTells'
  BY <1>1 DEF InstallInv, LastTells
<1>8. Untouched' <=> Untouched  BY <1>1 DEF Untouched
<1> QED  BY <1>1, <1>4, <1>5, <1>6, <1>7, <1>8 DEF InstallInv

\* An interrupt ends an explanation or a dry run, and is noted by an apply.
LEMMA InterruptStep == InstallInv /\ Install!Interrupt => InstallInv'
<1> SUFFICES ASSUME InstallInv, Install!Interrupt  PROVE InstallInv'
  OBVIOUS
<1>1. /\ at \notin {"shell", "exited"} /\ signalled' \in {"early", "late"}
      /\ UNCHANGED <<release, input, call, said, sealed, files, resolved, events, result>>
      /\ \/ UNCHANGED <<at, exit>>
         \/ Install!Mode(call) # "apply" /\ at' = "exited" /\ exit' = 130
  BY DEF Install!Interrupt, Install!env, Install!effects
<1>2. Install!TypeOK'  BY <1>1 DEF InstallInv, Install!TypeOK
<1>3. /\ Install!Mode(call') = Install!Mode(call) /\ Install!Admitted' = Install!Admitted
      /\ Install!Seals' = Install!Seals /\ Install!Ready' = Install!Ready
      /\ (Untouched' <=> Untouched) /\ (Consented' <=> Consented)
  BY <1>1 DEF Install!Mode, Install!Admitted, Install!Seals, Install!ReleaseGate, Install!Ready,
    Install!Blank, Untouched, Consented
<1>4. ~call.legacy /\ at = "present" => (ResultTells /\ LastTells)'
  <2> SUFFICES ASSUME ~call.legacy, at = "present"  PROVE (ResultTells /\ LastTells)'
    OBVIOUS
  <2>1. ResultTells /\ LastTells  BY DEF InstallInv
  <2>2. Calm' = Calm  BY <1>1 DEF Calm, Install!Succeeded
  <2> QED  BY <1>1, <1>3, <2>1, <2>2 DEF ResultTells, LastTells
<1>5. \A n, d : Seen(n, d)' <=> Seen(n, d)
  BY <1>1 DEF Seen, Story
<1>6. CASE UNCHANGED <<at, exit>>
  BY <1>1, <1>2, <1>3, <1>4, <1>5, <1>6 DEF InstallInv, Install!ExitTells
<1>7. CASE Install!Mode(call) # "apply" /\ at' = "exited" /\ exit' = 130
  <2>1. Untouched'  BY <1>1, <1>3, <1>7 DEF InstallInv
  <2>2. LastTells'  BY <2>1 DEF LastTells, Untouched
  <2>3. Install!ExitTells'  BY <1>1, <1>7, <2>1 DEF Install!ExitTells, Untouched
  <2> QED  BY <1>1, <1>2, <1>3, <1>7, <2>1, <2>2, <2>3 DEF InstallInv
<1> QED  BY <1>1, <1>6, <1>7

\* InstallInv holds at the start, whichever command runs.
LEMMA InstallStarts == Init => InstallInv
<1> SUFFICES ASSUME Install!Init  PROVE InstallInv
  BY DEF Init
<1>1. /\ release \in [embedded : Install!Embedded, gate : {Install!Gates[n] : n \in 1..4}]
      /\ call = [argv |-> "ok", explain |-> FALSE, dry |-> FALSE, legacy |-> FALSE, yes |-> FALSE,
                 format |-> "human", target |-> CHOOSE t \in Supported : TRUE]
      /\ at = "shell" /\ signalled = "no" /\ said = "none" /\ sealed = "none"
      /\ files = "prior" /\ resolved = FALSE /\ events = << >>
      /\ result = Install!Blank /\ exit = -1
  BY DEF Install!Init
<1>2. {Install!Gates[n] : n \in 1..4} \subseteq {"off", "E", "D", "A"}  BY DEF Install!Gates
<1>3. (CHOOSE t \in Supported : TRUE) \in Supported  BY TargetsAreInstallable
<1>4. call \in Install!Calls  BY <1>1, <1>3 DEF Install!Calls
<1>5. Untouched /\ Numbered(events)  BY <1>1 DEF Untouched, Numbered
<1>6. Install!TypeOK  BY <1>1, <1>4, PlainResults DEF Install!TypeOK, Results
<1>7. result \in Results  BY <1>1, PlainResults
<1>8. release \in [embedded : Install!Embedded, gate : {"off", "E", "D", "A"}]
  BY <1>1, <1>2
<1> QED  BY <1>1, <1>5, <1>6, <1>7, <1>8 DEF InstallInv, Install!ExitTells

\* Every step keeps it.
LEMMA InstallSteps == InstallInv /\ Install!Next => InstallInv'
BY InvokeStep, PrepareSteps, QuestionSteps, DryRunStep, CheckStep, WriteStep, UndoSteps,
  FinalizeStep, CompleteStep, LegacyStep, PresentStep, InterruptStep
  DEF Install!Next, Install!Step

\* It holds while nothing happens, and while another command runs.
LEMMA InstallRests == InstallInv /\ UNCHANGED installVars => InstallInv'
<1> SUFFICES ASSUME InstallInv, UNCHANGED installVars  PROVE InstallInv'
  OBVIOUS
<1>1. /\ UNCHANGED <<release, input, tty, preflight, call, at, signalled, said, sealed, files>>
      /\ UNCHANGED <<resolved, events, result, stdout, stderr, exit>>
  BY DEF installVars
<1>2. /\ Install!Mode(call') = Install!Mode(call) /\ Install!Admitted' = Install!Admitted
      /\ Install!Seals' = Install!Seals /\ Install!Ready' = Install!Ready
      /\ (Untouched' <=> Untouched) /\ (Consented' <=> Consented)
      /\ Install!TypeOK' <=> Install!TypeOK
  BY <1>1 DEF Install!Mode, Install!Admitted, Install!Seals, Install!ReleaseGate, Install!Ready,
    Install!Blank, Untouched, Consented, Install!TypeOK
<1>3. \A n, d : Seen(n, d)' <=> Seen(n, d)
  BY <1>1 DEF Seen, Story
<1>4. (ResultTells' <=> ResultTells) /\ (LastTells' <=> LastTells)
  BY <1>1, <1>2 DEF ResultTells, LastTells, Calm, Install!Succeeded
<1>5. Install!ExitTells' <=> Install!ExitTells
  BY <1>1, <1>2 DEF Install!ExitTells
<1>6. Install!Blank' = Install!Blank  BY DEF Install!Blank
<1> QED  BY <1>1, <1>2, <1>3, <1>4, <1>5, <1>6 DEF InstallInv

\* Of every behaviour of the commands, InstallInv is an invariant.
LEMMA InstallInvariant == Spec => []InstallInv
<1>1. InstallInv /\ [Next]_<<command, tuiVars, installVars, updateVars, authVars>> => InstallInv'
  BY InstallSteps, InstallRests DEF Next
<1> QED  BY <1>1, InstallStarts, PTL DEF Spec

\* The events it knows are the ones EventsTell speaks of.
LEMMA EventsAreTold == InstallInv => Install!ExitTells /\ Install!EventsTell
<1> SUFFICES ASSUME InstallInv  PROVE Install!ExitTells /\ Install!EventsTell
  OBVIOUS
<1>1. Install!Last(events) = events[Len(events)]  BY DEF Install!Last
<1>2. Numbered(events) /\ (at = "exited" /\ ~call.legacy => LastTells) /\ Install!ExitTells
  BY DEF InstallInv
<1> QED  BY <1>1, <1>2 DEF Numbered, LastTells, Install!EventsTell

\* What happens to the target, the credential and the observer happens to an
\* apply with the user's consent and an open gate.
LEMMA EffectsAreConsented ==
  ASSUME InstallInv, Install!Next, Install!effects' # Install!effects
  PROVE  /\ Install!Mode(call) = "apply" /\ (call.yes \/ said = "yes")
         /\ \/ call.legacy /\ UNCHANGED <<resolved, events>>
            \/ /\ ~call.legacy /\ release = [embedded |-> "genuine", gate |-> "A"]
               /\ input = "sound"
<1>1. \/ /\ Install!Check \/ Install!Write \/ Install!UndoWrites \/ Install!Finalize
            \/ Install!UndoFinalization \/ Install!Complete
      \/ Install!ExecuteLegacy
  BY
  DEF Install!Next, Install!Step, Install!Invoke, Install!PrepareExplain, Install!PrepareDryRun,
    Install!PrepareApply, Install!PrepareThen, Install!PrepareLegacy, Install!Confirm,
    Install!InterruptedAsking, Install!ExecuteDryRun, Install!PresentResult, Install!Answer,
    Install!Interrupt
<1>2. CASE Install!ExecuteLegacy
  <2>1. at = "execute" /\ sealed = "legacy" /\ UNCHANGED <<resolved, events>>
        /\ (Install!Mode(call) # "apply" => UNCHANGED files)
    BY <1>2 DEF Install!ExecuteLegacy
  <2>2. Install!Mode(call) = "apply"  BY <2>1 DEF Install!effects
  <2> QED  BY <2>1, <2>2 DEF InstallInv, Consented
<1>3. CASE \/ Install!Check \/ Install!Write \/ Install!UndoWrites \/ Install!Finalize
           \/ Install!UndoFinalization \/ Install!Complete
  <2>1. \/ at = "execute" /\ sealed = "canonical" /\ Install!Mode(call) = "apply"
        \/ at \in {"write", "written", "finalized"}
    BY <1>3 DEF Install!Check, Install!Write, Install!UndoWrites, Install!Finalize,
      Install!UndoFinalization, Install!Complete
  <2>2. /\ ~call.legacy /\ Install!Mode(call) = "apply" /\ Consented
        /\ Install!Admitted /\ Install!Seals
        /\ release \in [embedded : Install!Embedded, gate : {"off", "E", "D", "A"}]
    BY <2>1 DEF InstallInv
  <2> QED  BY <2>2, GateOpens DEF Consented, Install!Seals
<1> QED  BY <1>1, <1>2, <1>3

\* What lore install tells its caller and its observer is true of the target,
\* whichever effect failed and whenever the interrupt came, and nothing is
\* touched without an open gate and the user's consent (cli/actions.go,
\* install/apply.go).
THEOREM InstallsAreTrue == Spec => InstallIsTrue
<1>1. InstallInv /\ [Next]_<<command, tuiVars, installVars, updateVars, authVars>> =>
        [Install!effects' # Install!effects =>
           /\ Install!Mode(call) = "apply" /\ (call.yes \/ said = "yes")
           /\ \/ call.legacy /\ UNCHANGED <<resolved, events>>
              \/ /\ ~call.legacy /\ release = [embedded |-> "genuine", gate |-> "A"]
                 /\ input = "sound"]_(Install!vars)
  <2> SUFFICES ASSUME InstallInv, Install!Next \/ UNCHANGED installVars,
                      Install!effects' # Install!effects
               PROVE  /\ Install!Mode(call) = "apply" /\ (call.yes \/ said = "yes")
                      /\ \/ call.legacy /\ UNCHANGED <<resolved, events>>
                         \/ /\ ~call.legacy /\ release = [embedded |-> "genuine", gate |-> "A"]
                            /\ input = "sound"
    BY DEF Next
  <2>1. CASE Install!Next  BY <2>1, EffectsAreConsented
  <2>2. CASE UNCHANGED installVars  BY <2>2 DEF installVars, Install!effects
  <2> QED  BY <2>1, <2>2
<1> QED
  BY <1>1, InstallInvariant, EventsAreTold, PTL
  DEF InstallIsTrue, Spec, Install!ConsentedEffects

-----------------------------------------------------------------------------
(* The shell and its install screen *)

\* What the shell, a result, a prepared request, an execution and the install
\* screen are.
Roots == [focus : {"menu", "detail", "login"}, item : DOMAIN Items \cup {1},
          loading : {"none", "status", "doctor", "logout", "login", "install", "update"},
          pending : SUBSET Tui!Questions, details : BOOLEAN, target : DOMAIN Targets,
          screen : Tui!Questions \cup {"welcome", "wait", "login", "unavailable", "checking",
                     "current", "failed", "cancelled", "report"},
          plan : {"none", "full", "plain"}, checked : BOOLEAN, available : BOOLEAN, field : 1..3]
Replies == [mode : Tui!Modes \cup {"none"}, target : Tui!Ids \cup {"none"},
            status : {"none", "ready", "succeeded", "failed", "rolled-back", "residual-risk",
                      "cancelled"},
            admitted : BOOLEAN, retryable : BOOLEAN]
Requests == [token : 0..MaxPrepares, mode : Tui!Modes, target : Tui!Ids, result : Replies]
Executions == [id : 0..MaxPrepares, cancelled : BOOLEAN, mode : Tui!Modes, target : Tui!Ids]
Screens == [mode : Tui!Modes, target : Tui!Ids,
            stage : {"preparing", "prepared", "executing", "result"}, token : 0..MaxPrepares,
            of : Replies, result : Replies, cancelling : BOOLEAN, holds : 0..MaxPrepares]

\* The messages that are on their way are of the request on the screen.
Screened ==
  /\ \A p \in flying : /\ tui # Tui!NoTui /\ tui.stage = "preparing" /\ flying = {p}
                       /\ p.mode = tui.mode /\ p.target = tui.target
                       /\ p.result.status # "residual-risk"
  /\ \A e \in running : /\ tui # Tui!NoTui /\ tui.stage = "executing" /\ running = {e}
                        /\ finished = {} /\ e.id = tui.holds /\ e.mode = tui.mode
                        /\ tui.cancelling => e.cancelled
  /\ \A d \in finished : /\ tui # Tui!NoTui /\ tui.stage = "executing" /\ finished = {d}
                         /\ d.status = "residual-risk" => tui.mode = "apply"
  /\ tui # Tui!NoTui =>
       /\ tui.stage = "prepared" =>
            tui.of.mode = tui.mode /\ tui.of.target = tui.target /\ tui.token # 0
       /\ tui.stage = "result" /\ tui.result.status = "residual-risk" => tui.mode = "apply"
       /\ tui.stage # "executing" => ~tui.cancelling

\* What is known of the shell, with the install workflow or without it.
ScreenInv ==
  /\ root \in Roots /\ tui \in {Tui!NoTui} \cup Screens /\ count \in 0..MaxPrepares
  /\ flying \subseteq Requests /\ running \subseteq Executions /\ finished \subseteq Replies
  /\ Screened
  /\ root.loading # "none" => root.focus = "detail" /\ tui = Tui!NoTui

\* Without it, there is no install screen, and at most one question is asked, the
\* one on screen.
Questioned ==
  /\ \A q \in root.pending : root.pending = {q} /\ root.screen \in {q, "unavailable"}
  /\ root.focus = "menu" => root.pending \subseteq {"select"}
  /\ root.focus = "login" \/ root.loading # "none" => root.pending = {}
QuestionInv == command = "shell" => tui = Tui!NoTui /\ Questioned

\* The targets of the picker.
LEMMA PickerTargets ==
  /\ Len(Targets) \in Nat \ {0} /\ DOMAIN Targets = 1..Len(Targets)
  /\ 1 \in DOMAIN Targets /\ Targets[1].available
  /\ \A i \in DOMAIN Targets : Targets[i].id \in Tui!Ids
  /\ MaxPrepares \in Nat
<1> DEFINE S == {Targets[i] : i \in DOMAIN Targets}
<1>1. Targets \in Seq(S) /\ Targets # << >> /\ Targets[1].available /\ MaxPrepares \in Nat
  BY TargetsAreUsable DEF Tui!TargetsAreUsable
<1> HIDE DEF S
<1>2. Len(Targets) \in Nat /\ DOMAIN Targets = 1..Len(Targets) /\ Len(Targets) # 0
  BY <1>1, EmptySeq, LenProperties
<1> QED  BY <1>1, <1>2 DEF Tui!Ids

\* A set of numbers that is not empty has a least one.
LEMMA LeastExists ==
  ASSUME NEW S \in SUBSET Nat, S # {}
  PROVE  \E k \in S : \A l \in S : k <= l
<1>1. IsWellFoundedOn(OpToRel(<, Nat), Nat)  BY NatLessThanWellFounded
<1>2. PICK k \in S : \A l \in S : ~(<<l, k>> \in OpToRel(<, Nat))
  <2> DEFINE R == OpToRel(<, Nat)
  <2> HIDE DEF R
  <2>1. IsWellFoundedOn(R, Nat)  BY <1>1 DEF R
  <2>2. \E k \in S : \A l \in S : ~(<<l, k>> \in R)  BY <2>1, WFMin
  <2> QED  BY <2>2 DEF R
<1>3. k \in S /\ \A l \in S : ~(l < k)  BY <1>2 DEF OpToRel
<1> QED  BY <1>3

\* The remainder of a multiple is nothing.
LEMMA NoRemainder ==
  ASSUME NEW a \in Nat, NEW n \in Nat \ {0}  PROVE (a * n) % n = 0
OBVIOUS

\* A key of the picker ends on a target.
LEMMA PickerMoves ==
  ASSUME root \in Roots, Tui!MoveTarget
  PROVE  \E t \in DOMAIN Targets : root' = [root EXCEPT !.screen = "select", !.target = t]
<1> DEFINE n == Len(Targets)
           At(step, k) == ((root.target - 1 + k * step) % n) + 1
           Free(step) == {k \in 1..n : Targets[At(step, k)].available}
           Pick(step) == CHOOSE k \in Free(step) : \A l \in Free(step) : k <= l
<1>1. PICK step \in {1, n - 1} :
        root' = [root EXCEPT !.screen = "select", !.target = At(step, Pick(step))]
  BY DEF Tui!MoveTarget
<1>2. n \in Nat \ {0} /\ root.target \in 1..n /\ Targets[1].available
  BY PickerTargets DEF Roots
<1>3. \E k \in 1..n : At(step, k) = 1
  <2>1. CASE step = 1
    <3>1. n - root.target + 1 \in 1..n /\ root.target - 1 + (n - root.target + 1) * 1 = 1 * n
      BY <1>2
    <3>2. At(1, n - root.target + 1) = 1  BY <1>2, <3>1, NoRemainder
    <3> QED  BY <2>1, <3>1, <3>2
  <2>2. CASE step = n - 1 /\ root.target = 1
    <3>1. root.target - 1 + n * (n - 1) = (n - 1) * n  BY <1>2, <2>2
    <3>2. ((n - 1) * n) % n = 0
      <4>1. n - 1 \in Nat  BY <1>2
      <4> HIDE DEF At, Free, Pick
      <4> QED  BY <1>2, <4>1, NoRemainder
    <3>3. At(n - 1, n) = 1  BY <3>1, <3>2
    <3> QED  BY <1>2, <2>2, <3>3
  <2>3. CASE step = n - 1 /\ root.target # 1
    <3>1. root.target - 1 \in 1..n
          /\ root.target - 1 + (root.target - 1) * (n - 1) = (root.target - 1) * n
      BY <1>2, <2>3
    <3>2. At(n - 1, root.target - 1) = 1  BY <1>2, <3>1, NoRemainder
    <3> QED  BY <2>3, <3>1, <3>2
  <2> QED  BY <2>1, <2>2, <2>3
<1>4. Pick(step) \in Free(step)
  <2>1. PICK k \in 1..n : At(step, k) = 1  BY <1>3
  <2>2. k \in Free(step)  BY <1>2, <2>1
  <2>3. Free(step) \in SUBSET Nat  BY <1>2
  <2> HIDE DEF Free
  <2>4. \E x \in Free(step) : \A l \in Free(step) : x <= l  BY <2>2, <2>3, LeastExists
  <2> QED  BY <2>4
<1>5. At(step, Pick(step)) \in 1..n
  <2> DEFINE k == Pick(step)
             x == root.target - 1 + k * step
  <2>1. k \in Int
    <3>1. Free(step) \subseteq 1..n  OBVIOUS
    <3> HIDE DEF Free, Pick
    <3> QED  BY <1>2, <1>4, <3>1
  <2> HIDE DEF k
  <2>2. x \in Int  BY <1>2, <2>1
  <2> HIDE DEF x
  <2>3. x % n \in 0..(n - 1)  BY <1>2, <2>2
  <2> QED  BY <1>2, <2>3 DEF x, k
<1> QED  BY <1>1, <1>5, PickerTargets

-----------------------------------------------------------------------------
(* The shell by itself *)

\* What an action of the shell leaves.
RootMoves ==
  /\ root' \in Roots /\ (root'.loading # "none" => root'.focus = "detail")
  /\ tui = Tui!NoTui /\ (Questioned => Questioned')

\* What an action that runs beside the shell leaves.
LEMMA RunsAsync ==
  ASSUME root \in Roots, tui = Tui!NoTui, NEW cleared \in SUBSET Tui!Questions,
         NEW kind \in {"status", "doctor", "logout", "login", "install", "update"},
         NEW plan \in {"none", "full", "plain"}, Tui!RunAsync(cleared, kind, plan),
         Questioned => root.pending \subseteq cleared
  PROVE  RootMoves
BY DEF Tui!RunAsync, Tui!Flags, RootMoves, Roots, Questioned

\* What a question leaves.
LEMMA Asks ==
  ASSUME root \in Roots, tui = Tui!NoTui, NEW cleared \in SUBSET Tui!Questions,
         NEW q \in Tui!Questions, Tui!Ask(cleared, q), root.loading = "none",
         Questioned => root.pending \subseteq cleared
  PROVE  RootMoves
BY DEF Tui!Ask, Tui!Flags, RootMoves, Roots, Questioned

\* The menu.
LEMMA MenuKeys ==
  ASSUME root \in Roots, Tui!MoveItem \/ Tui!Tab \/ Tui!Details \/ Tui!Login
  PROVE  RootMoves
<1>1. tui = Tui!NoTui /\ root.loading = "none"
  BY DEF Tui!MoveItem, Tui!Tab, Tui!Details, Tui!Login, Tui!InMenu, Tui!InDetail, Tui!RootKey
<1>2. CASE Tui!MoveItem
  <2>1. /\ root.focus = "menu"
        /\ \E i \in DOMAIN Items :
             root' = [root EXCEPT !.item = i, !.pending = (root.pending \ {"select", "confirm"}) \cup {},
                                  !.details = FALSE]
    BY <1>2 DEF Tui!MoveItem, Tui!InMenu, Tui!Flags
  <2>2. PICK i \in DOMAIN Items :
          root' = [root EXCEPT !.item = i, !.pending = (root.pending \ {"select", "confirm"}) \cup {},
                               !.details = FALSE]
    BY <2>1
  <2>3. /\ root' \in Roots /\ root'.loading = "none" /\ root'.focus = "menu"
        /\ root'.pending = root.pending \ {"select", "confirm"}
    BY <1>1, <2>1, <2>2 DEF Roots
  <2> QED  BY <1>1, <2>1, <2>3 DEF RootMoves, Questioned
<1>3. CASE Tui!Tab
  BY <1>1, <1>3 DEF Tui!Tab, RootMoves, Roots, Questioned
<1>4. CASE Tui!Details
  <2>1. PICK q \in {"select", "confirm"} :
          root.pending = {q} /\ root' = [root EXCEPT !.details = ~root.details, !.screen = q]
    BY <1>4 DEF Tui!Details
  <2>2. /\ root' \in Roots /\ root'.loading = "none" /\ root'.focus = root.focus
        /\ root'.pending = {q} /\ root'.screen = q
    BY <1>1, <2>1 DEF Tui!Questions, Roots
  <2> QED  BY <1>1, <2>1, <2>2 DEF RootMoves, Questioned
<1>5. CASE Tui!Login
  <2>1. CASE Tui!RunAsync({}, "login", root.plan)
    <3>1. root.plan \in {"none", "full", "plain"}  BY DEF Roots
    <3>2. Questioned => root.pending \subseteq {}  BY <1>5 DEF Questioned, Tui!Login
    <3> QED  BY <1>1, <2>1, <3>1, <3>2, RunsAsync
  <2>2. CASE \/ \E i \in 1..3 : root' = [root EXCEPT !.field = i]
             \/ root' = [root EXCEPT !.focus = "menu"]
    BY <1>1, <1>5, <2>2 DEF Tui!Login, RootMoves, Roots, Questioned
  <2> QED  BY <1>5, <2>1, <2>2 DEF Tui!Login
<1> QED  BY <1>2, <1>3, <1>4, <1>5

\* The picker, the answers to a question, and the end of an action.
LEMMA DetailKeys ==
  ASSUME root \in Roots, root.loading # "none" => tui = Tui!NoTui,
         Tui!MoveTarget \/ Tui!Yes \/ Tui!No \/ Tui!Esc \/ Tui!HearAction
  PROVE  RootMoves
<1>1. tui = Tui!NoTui /\ (~Tui!HearAction => root.loading = "none" /\ root.focus = "detail")
  BY DEF Tui!MoveTarget, Tui!Yes, Tui!No, Tui!Esc, Tui!HearAction, Tui!InDetail, Tui!RootKey
<1>p. root.plan \in {"none", "full", "plain"}  BY DEF Roots
<1>q. Tui!Questions = {"select", "confirm", "backup", "update"}  BY DEF Tui!Questions
<1>2. CASE Tui!MoveTarget
  <2>1. root.pending = {"select"}  BY <1>2 DEF Tui!MoveTarget
  <2>2. PICK t \in DOMAIN Targets : root' = [root EXCEPT !.screen = "select", !.target = t]
    BY <1>2, PickerMoves
  <2>3. /\ root' \in Roots /\ root'.loading = root.loading /\ root'.focus = root.focus
        /\ root'.pending = root.pending /\ root'.screen = "select"
    BY <2>2, <1>q DEF Roots
  <2>4. root.loading = "none"  BY <1>2 DEF Tui!MoveTarget, Tui!InDetail, Tui!RootKey
  <2> QED  BY <1>1, <2>1, <2>3, <2>4 DEF RootMoves, Questioned
<1>3. CASE Tui!Yes
  <2>4. root.loading = "none" /\ root.focus = "detail"
    BY <1>3 DEF Tui!Yes, Tui!InDetail, Tui!RootKey
  <2>1. CASE "confirm" \in root.pending
    <3>1. CASE \E k \in {root.plan, "plain"} : Tui!RunAsync({"confirm"}, "install", k)
      BY <1>1, <1>p, <1>q, <2>1, <3>1, RunsAsync DEF Questioned
    <3>2. CASE root' = [root EXCEPT !.pending = Tui!Flags({"confirm"}, {}), !.screen = "failed"]
      <4>1. /\ root' \in Roots /\ root'.loading = "none" /\ root'.focus = "detail"
            /\ root'.pending = root.pending \ {"confirm"} /\ root'.screen = "failed"
        BY <2>4, <3>2 DEF Tui!Flags, Roots
      <4> QED  BY <1>1, <2>1, <4>1 DEF RootMoves, Questioned
    <3>3. CASE root' = [root EXCEPT !.pending = Tui!Flags({"confirm"}, {"backup"}),
                                    !.screen = "backup", !.plan = "full"]
      <4>1. /\ root' \in Roots /\ root'.loading = "none" /\ root'.focus = "detail"
            /\ root'.pending = (root.pending \ {"confirm"}) \cup {"backup"}
            /\ root'.screen = "backup"
        BY <1>q, <2>4, <3>3 DEF Tui!Flags, Roots
      <4> QED  BY <1>1, <2>1, <4>1 DEF RootMoves, Questioned
    <3> QED  BY <1>3, <2>1, <3>1, <3>2, <3>3 DEF Tui!Yes, Tui!StartInstall, Tui!Asked
  <2>2. CASE Tui!RunAsync({"backup"}, "install", root.plan) /\ "backup" \in root.pending
    BY <1>1, <1>p, <1>q, <2>2, RunsAsync DEF Questioned
  <2>3. CASE Tui!RunAsync({"update"}, "update", root.plan) /\ "update" \in root.pending
    BY <1>1, <1>p, <1>q, <2>3, RunsAsync DEF Questioned
  <2> QED  BY <1>3, <2>1, <2>2, <2>3 DEF Tui!Yes, Tui!Asked
<1>4. CASE Tui!No
  <2>1. CASE Tui!Ask({"confirm"}, "select") /\ "confirm" \in root.pending
    BY <1>1, <1>4, <1>q, <2>1, Asks
    DEF Questioned, Tui!No, Tui!HearAction, Tui!InDetail, Tui!RootKey
  <2>2. CASE Tui!RunAsync({"backup"}, "install", "plain") /\ "backup" \in root.pending
    BY <1>1, <1>q, <2>2, RunsAsync DEF Questioned
  <2>3. CASE /\ root' = [root EXCEPT !.pending = Tui!Flags({"update"}, {}), !.screen = "cancelled"]
             /\ "update" \in root.pending /\ root.loading = "none"
    BY <1>1, <2>3 DEF RootMoves, Roots, Questioned, Tui!Flags
  <2> QED  BY <1>4, <2>1, <2>2, <2>3 DEF Tui!No, Tui!Asked, Tui!InDetail, Tui!RootKey
<1>5. CASE Tui!Esc
  <2>1. root.loading = "none" /\ root.pending \subseteq {"select", "backup"}
    BY <1>5 DEF Tui!Esc, Tui!InDetail, Tui!RootKey
  <2>2. CASE root' = [root EXCEPT !.pending = Tui!Flags({"backup"}, {"select"}), !.plan = "none",
                                  !.screen = "select"] /\ "backup" \in root.pending
    BY ZenonT(40), <1>1, <1>q, <2>1, <2>2 DEF RootMoves, Roots, Questioned, Tui!Flags
  <2>3. CASE root' = [root EXCEPT !.focus = "menu"] /\ root.pending = {}
    BY <1>1, <2>1, <2>3 DEF RootMoves, Roots, Questioned
  <2>4. CASE root' = [root EXCEPT !.details = FALSE, !.screen = "select"]
             /\ "backup" \notin root.pending
    BY ZenonT(40), <1>1, <1>q, <2>1, <2>4 DEF RootMoves, Roots, Questioned
  <2>5. CASE root' = [root EXCEPT !.pending = Tui!Flags({"select"}, {}), !.focus = "menu",
                                  !.screen = "welcome"] /\ "backup" \notin root.pending
    BY ZenonT(40), <1>1, <2>1, <2>5 DEF RootMoves, Roots, Questioned, Tui!Flags
  <2> QED  BY <1>5, <2>2, <2>3, <2>4, <2>5 DEF Tui!Esc, Tui!Asked
<1>6. CASE Tui!HearAction
  <2>1. Questioned => root.pending = {}  BY <1>6 DEF Tui!HearAction, Questioned
  <2>2. /\ root' \in Roots /\ root'.loading = "none" /\ root'.focus = "detail"
        /\ root'.pending \subseteq root.pending
    <3> DEFINE done == [root EXCEPT !.loading = "none", !.focus = "detail", !.screen = "report"]
    <3>1. /\ done \in Roots /\ done.loading = "none" /\ done.focus = "detail"
          /\ done.pending = root.pending
      BY DEF Roots
    <3>2. \/ root' = [done EXCEPT !.pending = root.pending \ Tui!InstallFlow, !.details = FALSE,
                                   !.plan = "none"]
          \/ root' = [done EXCEPT !.pending = root.pending \ {"update"}]
          \/ root' = done
      BY <1>6 DEF Tui!HearAction, Tui!Flags
    <3> HIDE DEF done
    <3>3. CASE root' = [done EXCEPT !.pending = root.pending \ Tui!InstallFlow, !.details = FALSE,
                                    !.plan = "none"]
      BY <3>1, <3>3 DEF Roots
    <3>4. CASE root' = [done EXCEPT !.pending = root.pending \ {"update"}]
      BY <3>1, <3>4 DEF Roots
    <3> QED  BY <3>1, <3>2, <3>3, <3>4
  <2> QED  BY <1>1, <2>1, <2>2 DEF RootMoves, Questioned
<1> QED  BY <1>2, <1>3, <1>4, <1>5, <1>6

\* Enter, but for what it does with a target.
LEMMA EnterKeys ==
  ASSUME root \in Roots, tui = Tui!NoTui, root.loading = "none",
         root.focus = "menu" \/ root.pending \subseteq {"select"},
         NEW item, \/ Tui!ActivateAtOnce(item) \/ Tui!ActivateLogin \/ Tui!ActivateUpdate
  PROVE  RootMoves
<1>q. Tui!Questions = {"select", "confirm", "backup", "update"}  BY DEF Tui!Questions
<1>1. CASE Tui!ActivateAtOnce(item)
  BY <1>1, <1>q, RunsAsync DEF Tui!ActivateAtOnce, Roots
<1>2. CASE Tui!ActivateLogin
  <2> DEFINE calm == [root EXCEPT !.pending = {}, !.details = FALSE, !.plan = "none", !.field = 1]
  <2>2. calm \in Roots /\ calm.loading = "none" /\ calm.pending = {}
    <3>1. 1 \in 1..3  OBVIOUS
    <3> QED  BY <3>1 DEF Roots
  <2>3. root' = [calm EXCEPT !.focus = "login", !.screen = "login"]
    BY <1>2 DEF Tui!ActivateLogin, Roots
  <2> HIDE DEF calm
  <2>1. root' \in Roots /\ root'.loading = "none" /\ root'.focus = "login" /\ root'.pending = {}
    BY <2>2, <2>3 DEF Roots
  <2> QED  BY <2>1 DEF RootMoves, Questioned
<1>3. CASE Tui!ActivateUpdate
  <2> DEFINE calm == [root EXCEPT !.pending = root.pending \ Tui!InstallFlow, !.details = FALSE,
                                  !.plan = "none", !.focus = "detail"]
             asks == [calm EXCEPT !.pending = calm.pending \cup {"update"}, !.screen = "update"]
  <2>1. /\ calm \in Roots /\ calm.loading = "none" /\ calm.focus = "detail"
        /\ calm.pending = root.pending \ {"select", "confirm", "backup"}
    BY DEF Roots, Tui!InstallFlow
  <2>2. \/ root' = [calm EXCEPT !.screen = "checking"]
        \/ root' = [calm EXCEPT !.screen = "current"]
        \/ root' = asks
    BY <1>3 DEF Tui!ActivateUpdate, Tui!Flags
  <2>3. Questioned => root.pending \subseteq {"select"}  BY DEF Questioned
  <2> HIDE DEF calm
  <2>4. CASE root' = asks
    <3>1. /\ root' \in Roots /\ root'.loading = "none" /\ root'.focus = "detail"
          /\ root'.pending = calm.pending \cup {"update"} /\ root'.screen = "update"
      BY ZenonT(40), <1>q, <2>1, <2>4 DEF Roots
    <3> QED  BY <2>1, <2>3, <3>1 DEF RootMoves, Questioned
  <2>5. CASE root' \in {[calm EXCEPT !.screen = "checking"], [calm EXCEPT !.screen = "current"]}
    <3>1. /\ root' \in Roots /\ root'.loading = "none" /\ root'.focus = "detail"
          /\ root'.pending = calm.pending
      BY <2>1, <2>5 DEF Roots
    <3> QED  BY <2>1, <2>3, <3>1 DEF RootMoves, Questioned
  <2> QED  BY <2>2, <2>4, <2>5
<1> QED  BY <1>1, <1>2, <1>3

-----------------------------------------------------------------------------
(* The install screen *)

\* An action of the shell by itself keeps what is known of the two.
LEMMA RootKeeps ==
  ASSUME ScreenInv, RootMoves, UNCHANGED <<tui, flying, running, finished, count>>
  PROVE  ScreenInv' /\ (Questioned => Questioned')
BY DEF ScreenInv, RootMoves, Screened

\* A prepared request.
LEMMA PreparedIs ==
  ASSUME NEW mode \in Tui!Modes, NEW t \in Tui!Ids, NEW n \in 0..MaxPrepares, n # 0
  PROVE  LET p == Tui!Prepared(mode, t, n)
         IN  p \in Requests /\ p.mode = mode /\ p.target = t /\ p.result.status # "residual-risk"
<1> DEFINE ok == Tui!Admits(mode, t)
           p == Tui!Prepared(mode, t, n)
           r == [mode |-> mode, target |-> t, admitted |-> ok, retryable |-> FALSE,
                 status |-> IF ok THEN "ready" ELSE "failed"]
<1>1. ok \in BOOLEAN  BY DEF Tui!Admits
<1>2. 0 \in 0..MaxPrepares  BY PickerTargets
<1>3. p = [token |-> IF ok THEN n ELSE 0, mode |-> mode, target |-> t, result |-> r]
  BY DEF Tui!Prepared
<1> HIDE DEF ok
<1>4. r \in Replies /\ r.status # "residual-risk"  BY <1>1 DEF Replies
<1> HIDE DEF r
<1> QED  BY <1>1, <1>2, <1>3, <1>4 DEF Requests

\* A screen that is prepared anew waits for one request, its own.
LEMMA Prepares ==
  ASSUME ScreenInv, flying = {}, running = {}, finished = {}, NEW mode \in Tui!Modes,
         NEW t \in Tui!Ids, Tui!Prepare(mode, t), UNCHANGED <<running, finished>>,
         root' \in Roots, root'.loading = "none"
  PROVE  ScreenInv'
<1> DEFINE p == Tui!Prepared(mode, t, count + 1)
           s == [mode |-> mode, target |-> t, stage |-> "preparing", token |-> 0,
                 of |-> Tui!NoResult, result |-> Tui!NoResult, cancelling |-> FALSE, holds |-> 0]
<1>1. /\ count' = count + 1 /\ flying' = flying \cup {p} /\ tui' = s /\ count < MaxPrepares
  BY DEF Tui!Prepare
<1>2. count' \in 0..MaxPrepares /\ count' # 0  BY <1>1, PickerTargets DEF ScreenInv
<1>3. p \in Requests /\ p.mode = mode /\ p.target = t /\ p.result.status # "residual-risk"
  BY <1>1, <1>2, PreparedIs
<1>4. Tui!NoResult \in Replies  BY DEF Tui!NoResult, Replies
<1>5. /\ s \in Screens /\ s.stage = "preparing" /\ s.mode = mode /\ s.target = t
      /\ ~s.cancelling
  BY <1>4, PickerTargets DEF Screens
<1>6. s # Tui!NoTui
  <2>1. s.mode # "none"  BY <1>5 DEF Tui!Modes
  <2> QED  BY <2>1 DEF Tui!NoTui
<1> HIDE DEF p, s
<1>7. flying' = {p} /\ running' = {} /\ finished' = {}  BY <1>1
<1>8. Screened'  BY <1>1, <1>3, <1>5, <1>6, <1>7 DEF Screened
<1> QED  BY <1>1, <1>2, <1>3, <1>5, <1>7, <1>8 DEF ScreenInv

\* The two screens are told apart by their mode.
LEMMA ScreensAreScreens ==
  /\ \A s \in Screens : s # Tui!NoTui
  /\ Tui!NoResult \in Replies
<1>1. ASSUME NEW s \in Screens  PROVE s # Tui!NoTui
  <2>1. s.mode # "none"  BY DEF Screens, Tui!Modes
  <2> QED  BY <2>1 DEF Tui!NoTui
<1> QED  BY <1>1 DEF Tui!NoResult, Replies

\* A key on the install screen finds nothing on its way.
LEMMA ScreenKeys ==
  ASSUME ScreenInv, Tui!TuiKey
  PROVE  /\ tui \in Screens /\ flying = {} /\ root.loading = "none" /\ root \in Roots
         /\ tui.stage # "executing" => running = {} /\ finished = {}
BY ScreensAreScreens DEF ScreenInv, Screened, Tui!TuiKey, Tui!Key

\* The keys that prepare the next request.
LEMMA PrepareKeys ==
  ASSUME ScreenInv, Tui!Retry \/ Tui!ChooseLegacy \/ Tui!ChooseLegacyDryRun \/ Tui!GoOn
  PROVE  ScreenInv' /\ UNCHANGED running
<1>1. /\ Tui!TuiKey /\ tui.stage # "executing"
      /\ \E mode \in {tui.mode, "legacy-apply", "legacy-dry-run", "apply", "dry-run"} :
           Tui!TuiPrepare(mode)
  BY DEF Tui!Retry, Tui!ChooseLegacy, Tui!ChooseLegacyDryRun, Tui!GoOn, Tui!CanRetry
<1>2. /\ tui \in Screens /\ flying = {} /\ root.loading = "none" /\ root \in Roots
      /\ running = {} /\ finished = {}
  BY <1>1, ScreenKeys
<1>3. tui.mode \in Tui!Modes /\ tui.target \in Tui!Ids  BY <1>2 DEF Screens
<1>4. PICK mode \in Tui!Modes : Tui!TuiPrepare(mode)
  BY <1>1, <1>3 DEF Tui!Modes
<1>5. Tui!Prepare(mode, tui.target) /\ UNCHANGED <<root, running, finished>>
  BY <1>4 DEF Tui!TuiPrepare
<1>6. root' \in Roots /\ root'.loading = "none"  BY <1>2, <1>5
<1> QED  BY <1>2, <1>3, <1>5, <1>6, Prepares

\* An execution begins.
LEMMA ExecuteKey ==
  ASSUME ScreenInv, Tui!Execute
  PROVE  /\ ScreenInv'
         /\ \A e \in running' : e \in running \/ (e.mode = tui.mode /\ e.target = tui.target)
<1> DEFINE e == [id |-> tui.token, cancelled |-> FALSE, mode |-> tui.of.mode, target |-> tui.of.target]
<1>1. /\ Tui!TuiKey /\ tui.stage = "prepared" /\ running' = running \cup {e}
      /\ tui' = [tui EXCEPT !.stage = "executing", !.holds = tui.token]
      /\ UNCHANGED <<root, flying, finished, count>>
  BY DEF Tui!Execute
<1>2. /\ tui \in Screens /\ flying = {} /\ root.loading = "none" /\ root \in Roots
      /\ running = {} /\ finished = {}
  BY <1>1, ScreenKeys
<1>3. tui.of.mode = tui.mode /\ tui.of.target = tui.target /\ tui # Tui!NoTui /\ ~tui.cancelling
  BY <1>1, <1>2, ScreensAreScreens DEF ScreenInv, Screened
<1>4. e \in Executions /\ e.id = tui.token /\ e.mode = tui.mode /\ e.target = tui.target
  BY <1>2, <1>3 DEF Executions, Screens
<1>5. /\ tui' \in Screens /\ tui'.stage = "executing" /\ tui'.holds = tui.token
      /\ tui'.mode = tui.mode /\ ~tui'.cancelling
  BY <1>1, <1>2, <1>3 DEF Screens
<1> HIDE DEF e
<1>6. running' = {e} /\ flying' = {} /\ finished' = {}  BY <1>1, <1>2
<1>7. Screened'  BY <1>4, <1>5, <1>6, ScreensAreScreens DEF Screened
<1> QED  BY <1>1, <1>2, <1>4, <1>5, <1>6, <1>7 DEF ScreenInv

\* A cancellation is asked for.
LEMMA CancelKey ==
  ASSUME ScreenInv, Tui!Cancel
  PROVE  ScreenInv' /\ \A e \in running' : \E r \in running : r.id = e.id
<1>1. /\ Tui!TuiKey /\ tui.stage = "executing" /\ tui' = [tui EXCEPT !.cancelling = TRUE]
      /\ running' = {IF e.id = tui.holds THEN [e EXCEPT !.cancelled = TRUE] ELSE e : e \in running}
      /\ UNCHANGED <<root, flying, finished, count>>
  BY DEF Tui!Cancel
<1>2. tui \in Screens /\ flying = {} /\ root.loading = "none" /\ root \in Roots
  BY <1>1, ScreenKeys
<1>3. /\ tui' \in Screens /\ tui'.stage = "executing" /\ tui'.holds = tui.holds
      /\ tui'.mode = tui.mode
  BY <1>1, <1>2 DEF Screens
<1>4. ASSUME NEW e \in Executions
      PROVE  /\ [e EXCEPT !.cancelled = TRUE] \in Executions
             /\ [e EXCEPT !.cancelled = TRUE].id = e.id /\ [e EXCEPT !.cancelled = TRUE].mode = e.mode
             /\ [e EXCEPT !.cancelled = TRUE].cancelled
  BY DEF Executions
<1>5. CASE running = {}
  <2>1. running' = {}  BY <1>1, <1>5
  <2>2. Screened'  BY <1>1, <1>2, <1>3, <2>1, ScreensAreScreens DEF ScreenInv, Screened
  <2> QED  BY <1>1, <1>2, <1>3, <2>1, <2>2 DEF ScreenInv
<1>6. CASE running # {}
  <2>1. PICK e \in Executions : /\ running = {e} /\ finished = {} /\ e.id = tui.holds
                                /\ e.mode = tui.mode
    BY <1>6 DEF ScreenInv, Screened
  <2> DEFINE c == [e EXCEPT !.cancelled = TRUE]
  <2>2. running' = {c}  BY <1>1, <2>1
  <2>3. c \in Executions /\ c.id = e.id /\ c.mode = e.mode /\ c.cancelled  BY <1>4
  <2> HIDE DEF c
  <2>4. flying' = {} /\ finished' = {}  BY <1>1, <1>2, <2>1
  <2>5. Screened'  BY <1>3, <2>1, <2>2, <2>3, <2>4, ScreensAreScreens DEF Screened
  <2> QED  BY <1>1, <1>2, <1>3, <2>1, <2>2, <2>3, <2>4, <2>5 DEF ScreenInv
<1> QED  BY <1>5, <1>6

\* The screen is left for the picker.
LEMMA BackKey == ScreenInv /\ Tui!Back => ScreenInv' /\ UNCHANGED running
<1> SUFFICES ASSUME ScreenInv, Tui!Back  PROVE ScreenInv' /\ UNCHANGED running
  OBVIOUS
<1>1. /\ Tui!TuiKey /\ tui.stage # "executing" /\ tui' = Tui!NoTui
      /\ root' = [root EXCEPT !.pending = root.pending \cup {"select"}, !.screen = "select"]
      /\ UNCHANGED <<flying, running, finished, count>>
  BY DEF Tui!Back
<1>2. /\ flying = {} /\ root.loading = "none" /\ root \in Roots /\ running = {} /\ finished = {}
  BY <1>1, ScreenKeys
<1>3. "select" \in Tui!Questions  BY DEF Tui!Questions
<1>4. root' \in Roots /\ root'.loading = "none"  BY <1>1, <1>2, <1>3 DEF Roots
<1> QED  BY <1>1, <1>2, <1>4 DEF ScreenInv, Screened

\* What was prepared is heard by the screen it was prepared for.
LEMMA PreparedHeard == ScreenInv /\ Tui!HearPrepared => ScreenInv' /\ UNCHANGED running
<1> SUFFICES ASSUME ScreenInv, Tui!HearPrepared  PROVE ScreenInv' /\ UNCHANGED running
  OBVIOUS
<1>1. PICK p \in flying :
        /\ flying' = flying \ {p} /\ UNCHANGED <<root, running, finished, count>>
        /\ tui' = IF tui = Tui!NoTui THEN tui
                  ELSE [tui EXCEPT !.token = p.token, !.result = p.result,
                                   !.of = [Tui!NoResult EXCEPT !.mode = p.mode, !.target = p.target],
                                   !.stage = IF p.token = 0 THEN "result" ELSE "prepared"]
  BY DEF Tui!HearPrepared
<1>2. /\ tui \in Screens /\ tui # Tui!NoTui /\ tui.stage = "preparing" /\ flying = {p}
      /\ p.mode = tui.mode /\ p.target = tui.target /\ p.result.status # "residual-risk"
      /\ p \in Requests /\ running = {} /\ finished = {} /\ ~tui.cancelling
  BY DEF ScreenInv, Screened
<1> DEFINE o == [Tui!NoResult EXCEPT !.mode = p.mode, !.target = p.target]
           st == IF p.token = 0 THEN "result" ELSE "prepared"
<1>3. p.token \in 0..MaxPrepares /\ p.mode \in Tui!Modes /\ p.target \in Tui!Ids /\ p.result \in Replies
  BY <1>2 DEF Requests
<1>4. o \in Replies /\ o.mode = p.mode /\ o.target = p.target
  BY <1>3 DEF Replies, Tui!NoResult
<1>5. st \in {"prepared", "result"} /\ (st = "prepared" => p.token # 0)  OBVIOUS
<1> HIDE DEF o, st
<1>6. tui' = [tui EXCEPT !.token = p.token, !.result = p.result, !.of = o, !.stage = st]
  BY <1>1, <1>2 DEF o, st
<1>7. /\ tui' \in Screens /\ tui'.stage = st /\ tui'.of = o /\ tui'.result = p.result
      /\ tui'.token = p.token /\ tui'.mode = tui.mode /\ tui'.target = tui.target
      /\ tui'.cancelling = tui.cancelling
  BY <1>2, <1>3, <1>4, <1>5, <1>6 DEF Screens
<1>8. flying' = {} /\ running' = {} /\ finished' = {}  BY <1>1, <1>2
<1>9. Screened'
  BY <1>2, <1>4, <1>5, <1>7, <1>8, ScreensAreScreens DEF Screened
<1>10. root.loading = "none" /\ root' = root /\ count' = count  BY <1>1, <1>2 DEF ScreenInv
<1> QED  BY <1>1, <1>7, <1>8, <1>9, <1>10 DEF ScreenInv

\* An execution ends.
LEMMA Finishes == ScreenInv /\ Tui!Finish => ScreenInv' /\ running' = {}
<1> SUFFICES ASSUME ScreenInv, Tui!Finish  PROVE ScreenInv' /\ running' = {}
  OBVIOUS
<1>0. PICK e \in running : \E s \in Tui!Outcomes(e) :
        /\ running' = running \ {e} /\ UNCHANGED <<root, tui, flying, count>>
        /\ finished' = finished \cup
             {[Tui!NoResult EXCEPT !.mode = e.mode, !.target = e.target, !.status = s,
                                   !.admitted = TRUE, !.retryable = (s = "rolled-back")]}
  BY DEF Tui!Finish
<1>1. PICK s \in Tui!Outcomes(e) :
        /\ running' = running \ {e} /\ UNCHANGED <<root, tui, flying, count>>
        /\ finished' = finished \cup
             {[Tui!NoResult EXCEPT !.mode = e.mode, !.target = e.target, !.status = s,
                                   !.admitted = TRUE, !.retryable = (s = "rolled-back")]}
  BY <1>0
<1> DEFINE d == [Tui!NoResult EXCEPT !.mode = e.mode, !.target = e.target, !.status = s,
                                     !.admitted = TRUE, !.retryable = (s = "rolled-back")]
<1>2. /\ tui \in Screens /\ tui # Tui!NoTui /\ tui.stage = "executing" /\ running = {e}
      /\ finished = {} /\ e.mode = tui.mode /\ e \in Executions /\ flying = {}
  BY DEF ScreenInv, Screened
<1>3. e.mode \in Tui!Modes /\ e.target \in Tui!Ids  BY <1>2 DEF Executions
<1>4. /\ s \in {"succeeded", "failed", "rolled-back", "residual-risk", "cancelled"}
      /\ s = "residual-risk" => e.mode = "apply"
  BY <1>1, <1>3 DEF Tui!Outcomes, Tui!Modes, Tui!Legacy
<1>5. d \in Replies /\ d.status = s  BY <1>3, <1>4 DEF Replies, Tui!NoResult
<1> HIDE DEF d
<1>6. running' = {} /\ finished' = {d} /\ flying' = {} /\ tui' = tui
  BY <1>1, <1>2 DEF d
<1>7. Screened'  BY <1>2, <1>4, <1>5, <1>6 DEF Screened
<1>8. root' = root /\ count' = count  BY <1>1
<1> QED  BY <1>2, <1>5, <1>6, <1>7, <1>8 DEF ScreenInv

\* Its result is heard by the screen that waits for it.
LEMMA DoneHeard == ScreenInv /\ Tui!HearDone => ScreenInv' /\ UNCHANGED running
<1> SUFFICES ASSUME ScreenInv, Tui!HearDone  PROVE ScreenInv' /\ UNCHANGED running
  OBVIOUS
<1>1. PICK d \in finished :
        /\ finished' = finished \ {d} /\ UNCHANGED <<root, flying, running, count>>
        /\ tui' = IF tui = Tui!NoTui THEN tui
                  ELSE [tui EXCEPT !.result = d, !.stage = "result", !.holds = 0,
                                   !.cancelling = FALSE]
  BY DEF Tui!HearDone
<1>2. /\ tui \in Screens /\ tui # Tui!NoTui /\ finished = {d} /\ d \in Replies
      /\ d.status = "residual-risk" => tui.mode = "apply"
      /\ running = {} /\ flying = {} /\ root.loading = "none"
  BY DEF ScreenInv, Screened
<1>3. /\ tui' \in Screens /\ tui'.stage = "result" /\ tui'.result = d /\ tui'.mode = tui.mode
      /\ ~tui'.cancelling
  <2>1. 0 \in 0..MaxPrepares  BY PickerTargets
  <2> QED  BY <1>1, <1>2, <2>1 DEF Screens
<1>4. flying' = {} /\ running' = {} /\ finished' = {} /\ root' = root /\ count' = count
  BY <1>1, <1>2
<1>5. Screened'  BY <1>2, <1>3, <1>4 DEF Screened
<1> QED  BY <1>1, <1>2, <1>3, <1>4, <1>5 DEF ScreenInv

\* The check for updates, which knows no screen, and leaving the shell.
LEMMA OtherMessages ==
  ASSUME ScreenInv, Tui!HearUpdate \/ Tui!Quit
  PROVE  /\ ScreenInv' /\ UNCHANGED <<tui, running>>
         /\ Questioned => Questioned'
<1>1. UNCHANGED <<tui, flying, running, finished, count>>
  BY DEF Tui!HearUpdate, Tui!Quit
<1>2. \/ UNCHANGED root
      \/ \E new \in BOOLEAN : root' = [root EXCEPT !.checked = TRUE, !.available = new]
  BY DEF Tui!HearUpdate, Tui!Quit
<1>3. /\ root' \in Roots /\ root'.loading = root.loading /\ root'.focus = root.focus
      /\ root'.pending = root.pending /\ root'.screen = root.screen
  BY <1>2 DEF ScreenInv, Roots
<1>4. Screened'  BY <1>1 DEF ScreenInv, Screened
<1> QED  BY <1>1, <1>3, <1>4 DEF ScreenInv, Questioned

\* Enter on the item that installs, with the workflow: it opens the picker, and
\* takes its target to the install screen.
LEMMA InstallOpens ==
  ASSUME ScreenInv, tui = Tui!NoTui, root.loading = "none", flying = {},
         root.focus = "menu" \/ root.pending \subseteq {"select"}, Tui!ActivateInstall
  PROVE  ScreenInv' /\ UNCHANGED running
<1>1. root \in Roots /\ running = {} /\ finished = {}
  BY DEF ScreenInv, Screened
<1>q. Tui!Questions = {"select", "confirm", "backup", "update"}  BY DEF Tui!Questions
<1>2. CASE "select" \notin root.pending
  <2>1. Tui!Ask({"confirm", "update"}, "select") /\ Tui!OnlyRoot
    BY <1>2 DEF Tui!ActivateInstall, Tui!Asked
  <2>2. Questioned => root.pending \subseteq {"confirm", "update"}
    BY <1>2 DEF Questioned
  <2>3. RootMoves  BY <1>1, <1>q, <2>1, <2>2, Asks
  <2> QED  BY <2>1, <2>3, RootKeeps DEF Tui!OnlyRoot
<1>3. CASE /\ "select" \in root.pending /\ ~Targets[root.target].available
  <2>1. root' = [root EXCEPT !.screen = "unavailable"] /\ Tui!OnlyRoot
    BY <1>3 DEF Tui!ActivateInstall, Tui!Asked
  <2>2. /\ root' \in Roots /\ root'.loading = "none" /\ root'.focus = root.focus
        /\ root'.pending = root.pending /\ root'.screen = "unavailable"
    BY <1>1, <2>1 DEF Roots
  <2>3. RootMoves  BY <2>2 DEF RootMoves, Questioned
  <2> QED  BY <2>1, <2>3, RootKeeps DEF Tui!OnlyRoot
<1>4. CASE /\ "select" \in root.pending /\ Targets[root.target].available
  <2>1. /\ Tui!Prepare("explain", Targets[root.target].id)
        /\ root' = [root EXCEPT !.pending = root.pending \ {"select", "update"}]
        /\ UNCHANGED <<running, finished>>
    BY <1>4 DEF Tui!ActivateInstall, Tui!Asked, Tui!Flags
  <2>2. root' \in Roots /\ root'.loading = "none"  BY <1>1, <2>1 DEF Roots
  <2>3. Targets[root.target].id \in Tui!Ids  BY <1>1, PickerTargets DEF Roots
  <2>4. "explain" \in Tui!Modes  BY DEF Tui!Modes
  <2> QED  BY <1>1, <2>1, <2>2, <2>3, <2>4, Prepares
<1> QED  BY <1>2, <1>3, <1>4

\* The same without the workflow, where the target is confirmed.
LEMMA InstallAsks ==
  ASSUME root \in Roots, tui = Tui!NoTui, root.loading = "none",
         root.focus = "menu" \/ root.pending \subseteq {"select"}, Shell!ActivateInstall
  PROVE  RootMoves /\ Tui!OnlyRoot
<1>q. Tui!Questions = {"select", "confirm", "backup", "update"}  BY DEF Tui!Questions
<1>1. Shell!OnlyRoot <=> Tui!OnlyRoot  BY DEF Shell!OnlyRoot, Tui!OnlyRoot
<1>2. \A c, q : Shell!Ask(c, q) <=> Tui!Ask(c, q)
  BY DEF Shell!Ask, Shell!Flags, Tui!Ask, Tui!Flags
<1>3. CASE "select" \notin root.pending
  <2>1. Tui!Ask({"confirm", "update"}, "select") /\ Tui!OnlyRoot
    BY <1>1, <1>2, <1>3 DEF Shell!ActivateInstall, Shell!Asked
  <2>2. Questioned => root.pending \subseteq {"confirm", "update"}
    BY <1>3 DEF Questioned
  <2> QED  BY <1>q, <2>1, <2>2, Asks
<1>4. CASE "select" \in root.pending /\ ~Targets[root.target].available
  <2>1. root' = [root EXCEPT !.screen = "unavailable"] /\ Tui!OnlyRoot
    BY <1>1, <1>4 DEF Shell!ActivateInstall, Shell!Asked
  <2>2. /\ root' \in Roots /\ root'.loading = "none" /\ root'.focus = root.focus
        /\ root'.pending = root.pending /\ root'.screen = "unavailable"
    BY <2>1 DEF Roots
  <2> QED
    BY <1>4, <2>1, <2>2 DEF RootMoves, Questioned
<1>5. CASE "select" \in root.pending /\ Targets[root.target].available
  <2>1. Tui!Ask({"select", "update"}, "confirm") /\ Tui!OnlyRoot
    BY <1>1, <1>2, <1>5 DEF Shell!ActivateInstall, Shell!Asked
  <2>2. Questioned => root.pending \subseteq {"select", "update"}
    BY <1>5 DEF Questioned
  <2> QED  BY <1>q, <2>1, <2>2, Asks
<1> QED  BY <1>3, <1>4, <1>5

\* The actions of the shell by itself, but for Enter.
RootKeys ==
  \/ Tui!MoveItem \/ Tui!Tab \/ Tui!Details \/ Tui!Login
  \/ Tui!MoveTarget \/ Tui!Yes \/ Tui!No \/ Tui!Esc \/ Tui!HearAction

\* They leave the install screen alone.
LEMMA RootActs ==
  ASSUME ScreenInv, RootKeys
  PROVE  RootMoves /\ Tui!OnlyRoot
<1>1. root \in Roots /\ (root.loading # "none" => tui = Tui!NoTui)  BY DEF ScreenInv
<1>2. RootMoves  BY <1>1, MenuKeys, DetailKeys DEF RootKeys
<1>3. Tui!OnlyRoot
  BY
  DEF RootKeys, Tui!MoveItem, Tui!Tab, Tui!Details, Tui!Login, Tui!MoveTarget, Tui!Yes, Tui!No,
    Tui!Esc, Tui!HearAction
<1> QED  BY <1>2, <1>3

\* Every step of the shell with the workflow keeps what is known of it.
LEMMA ScreenSteps == ScreenInv /\ Tui!Next => ScreenInv'
<1> SUFFICES ASSUME ScreenInv, Tui!Next  PROVE ScreenInv'
  OBVIOUS
<1>1. CASE RootKeys
  BY <1>1, RootActs, RootKeeps DEF Tui!OnlyRoot
<1>2. CASE Tui!Enter
  <2>1. /\ tui = Tui!NoTui /\ root.loading = "none" /\ flying = {} /\ root \in Roots
        /\ root.focus = "menu" \/ root.pending \subseteq {"select"}
    BY <1>2 DEF Tui!Enter, Tui!InMenu, Tui!InDetail, Tui!RootKey, Tui!Key, ScreenInv
  <2>2. ASSUME NEW item, Tui!ActivateAtOnce(item) \/ Tui!ActivateLogin \/ Tui!ActivateUpdate
        PROVE ScreenInv'
    <3>1. RootMoves  BY <2>1, <2>2, EnterKeys
    <3>2. Tui!OnlyRoot
      BY <2>2 DEF Tui!ActivateAtOnce, Tui!ActivateLogin, Tui!ActivateUpdate
    <3> QED  BY <3>1, <3>2, RootKeeps DEF Tui!OnlyRoot
  <2>3. CASE Tui!ActivateInstall  BY <2>1, <2>3, InstallOpens
  <2> QED  BY <1>2, <2>2, <2>3 DEF Tui!Enter
<1> QED
  BY <1>1, <1>2, PrepareKeys, ExecuteKey, CancelKey, BackKey, PreparedHeard, Finishes,
      DoneHeard,
    OtherMessages DEF Tui!Next, Tui!Keys, Tui!Messages, RootKeys

\* What is executed is what the screen shows, and residual risk leads nowhere.
ScreenActs ==
  /\ \A e \in running' : e.id \notin {r.id : r \in running} =>
       e.mode = tui.mode /\ e.target = tui.target
  /\ (tui # Tui!NoTui /\ tui.stage = "result" /\ tui.result.status = "residual-risk" /\ flying = {})
       => tui' \in {tui, Tui!NoTui}

\* No step does otherwise.
LEMMA ScreenActsSo == ScreenInv /\ Tui!Next => ScreenActs
<1> SUFFICES ASSUME ScreenInv, Tui!Next  PROVE ScreenActs
  OBVIOUS
<1>1. CASE Tui!OnlyRoot \/ Tui!HearUpdate \/ Tui!Quit \/ Tui!Back
  BY <1>1, BackKey DEF ScreenActs, Tui!OnlyRoot, Tui!HearUpdate, Tui!Quit, Tui!Back
<1>2. CASE Tui!Retry \/ Tui!ChooseLegacy \/ Tui!ChooseLegacyDryRun \/ Tui!GoOn
  <2>1. UNCHANGED running  BY <1>2, PrepareKeys
  <2>2. ~(tui.stage = "result" /\ tui.result.status = "residual-risk")
    <3> SUFFICES ASSUME tui.stage = "result", tui.result.status = "residual-risk"  PROVE FALSE
      OBVIOUS
    <3>1. tui # Tui!NoTui
      BY <1>2 DEF Tui!Retry, Tui!ChooseLegacy, Tui!ChooseLegacyDryRun, Tui!GoOn, Tui!TuiKey
    <3>2. tui.mode = "apply"  BY <3>1 DEF ScreenInv, Screened
    <3> QED
      BY <1>2, <3>2
      DEF Tui!Retry, Tui!ChooseLegacy, Tui!ChooseLegacyDryRun, Tui!GoOn, Tui!CanRetry
  <2> QED  BY <2>1, <2>2 DEF ScreenActs
<1>3. CASE Tui!Execute
  <2>1. \A e \in running' : e \in running \/ (e.mode = tui.mode /\ e.target = tui.target)
    BY <1>3, ExecuteKey
  <2>2. tui.stage = "prepared"  BY <1>3 DEF Tui!Execute
  <2> QED  BY <2>1, <2>2 DEF ScreenActs
<1>4. CASE Tui!Cancel
  <2>1. \A e \in running' : \E r \in running : r.id = e.id  BY <1>4, CancelKey
  <2>2. tui.stage = "executing"  BY <1>4 DEF Tui!Cancel
  <2> QED  BY <2>1, <2>2 DEF ScreenActs
<1>5. CASE Tui!HearPrepared
  <2>1. UNCHANGED running /\ flying # {}  BY <1>5, PreparedHeard DEF Tui!HearPrepared
  <2> QED  BY <2>1 DEF ScreenActs
<1>6. CASE Tui!Finish
  <2>1. running' = {} /\ UNCHANGED tui  BY <1>6, Finishes DEF Tui!Finish
  <2> QED  BY <2>1 DEF ScreenActs
<1>7. CASE Tui!HearDone
  <2>1. UNCHANGED running  BY <1>7, DoneHeard
  <2>2. tui.stage = "executing"  BY <1>7 DEF Tui!HearDone, ScreenInv, Screened
  <2> QED  BY <2>1, <2>2 DEF ScreenActs
<1>8. CASE RootKeys  BY <1>1, <1>8, RootActs
<1>9. CASE Tui!Enter
  <2>1. tui = Tui!NoTui /\ flying = {} /\ root.loading = "none"
        /\ (root.focus = "menu" \/ root.pending \subseteq {"select"})
    BY <1>9 DEF Tui!Enter, Tui!InMenu, Tui!InDetail, Tui!RootKey, Tui!Key
  <2>2. CASE Tui!ActivateInstall
    <3>1. UNCHANGED running  BY <2>1, <2>2, InstallOpens
    <3> QED  BY <2>1, <3>1 DEF ScreenActs
  <2>3. CASE Tui!OnlyRoot  BY <1>1, <2>3
  <2> QED
    BY <1>9, <2>2, <2>3 DEF Tui!Enter, Tui!ActivateAtOnce, Tui!ActivateLogin, Tui!ActivateUpdate
<1> QED
  BY <1>1, <1>2, <1>3, <1>4, <1>5, <1>6, <1>7, <1>8, <1>9
  DEF Tui!Next, Tui!Keys, Tui!Messages, RootKeys

\* A shell without the workflow has no install screen, and takes the steps the
\* other takes without one.
LEMMA ShellIsTui ==
  ASSUME ScreenInv, tui = Tui!NoTui, Shell!Next
  PROVE  \/ RootKeys \/ Tui!HearUpdate \/ Tui!Quit
         \/ /\ root.loading = "none" /\ (root.focus = "menu" \/ root.pending \subseteq {"select"})
            /\ \/ \E item : Tui!ActivateAtOnce(item)
               \/ Tui!ActivateLogin \/ Tui!ActivateUpdate \/ Shell!ActivateInstall
<1>1. flying = {} /\ running = {} /\ finished = {}  BY DEF ScreenInv, Screened
<1>2. Shell!NoTui = Tui!NoTui  BY DEF Shell!NoTui, Tui!NoTui
<1>3. ~(Shell!Retry \/ Shell!ChooseLegacy \/ Shell!ChooseLegacyDryRun \/ Shell!GoOn \/ Shell!Execute
        \/ Shell!Cancel \/ Shell!Back)
  BY <1>2
  DEF Shell!Retry, Shell!ChooseLegacy, Shell!ChooseLegacyDryRun, Shell!GoOn, Shell!Execute,
    Shell!Cancel, Shell!Back, Shell!TuiKey
<1>4. ~(Shell!HearPrepared \/ Shell!Finish \/ Shell!HearDone)
  BY <1>1 DEF Shell!HearPrepared, Shell!Finish, Shell!HearDone
<1> USE DEF Shell!NoTui, Tui!NoTui, Shell!Key, Tui!Key, Shell!RootKey, Tui!RootKey, Shell!InMenu,
  Tui!InMenu, Shell!InDetail, Tui!InDetail, Shell!OnlyRoot, Tui!OnlyRoot, Shell!Flags, Tui!Flags,
  Shell!Asked, Tui!Asked, Shell!RunAsync, Tui!RunAsync, Shell!Ask, Tui!Ask, Shell!Questions,
  Tui!Questions, Shell!InstallFlow, Tui!InstallFlow
<1>5. Shell!MoveItem => Tui!MoveItem  BY DEF Shell!MoveItem, Tui!MoveItem
<1>6. Shell!Tab => Tui!Tab  BY DEF Shell!Tab, Tui!Tab
<1>7. Shell!MoveTarget => Tui!MoveTarget  BY DEF Shell!MoveTarget, Tui!MoveTarget
<1>8. Shell!Details => Tui!Details  BY DEF Shell!Details, Tui!Details
<1>9. Shell!Yes => Tui!Yes  BY DEF Shell!Yes, Tui!Yes, Shell!StartInstall, Tui!StartInstall
<1>10. Shell!No => Tui!No  BY DEF Shell!No, Tui!No
<1>11. Shell!Esc => Tui!Esc  BY DEF Shell!Esc, Tui!Esc
<1>12. Shell!Login => Tui!Login  BY DEF Shell!Login, Tui!Login
<1>13. Shell!Quit => Tui!Quit  BY DEF Shell!Quit, Tui!Quit
<1>14. Shell!HearUpdate => Tui!HearUpdate  BY DEF Shell!HearUpdate, Tui!HearUpdate
<1>15. Shell!HearAction => Tui!HearAction  BY DEF Shell!HearAction, Tui!HearAction
<1>16. Shell!Enter =>
         /\ root.loading = "none" /\ (root.focus = "menu" \/ root.pending \subseteq {"select"})
         /\ \/ \E item : Tui!ActivateAtOnce(item)
            \/ Tui!ActivateLogin \/ Tui!ActivateUpdate \/ Shell!ActivateInstall
  <2>1. \A item : Shell!ActivateAtOnce(item) => Tui!ActivateAtOnce(item)
    BY DEF Shell!ActivateAtOnce, Tui!ActivateAtOnce
  <2>2. Shell!ActivateLogin => Tui!ActivateLogin  BY DEF Shell!ActivateLogin, Tui!ActivateLogin
  <2>3. Shell!ActivateUpdate => Tui!ActivateUpdate
    BY DEF Shell!ActivateUpdate, Tui!ActivateUpdate
  <2> QED  BY <2>1, <2>2, <2>3 DEF Shell!Enter
<1> QED
  BY <1>3, <1>4, <1>5, <1>6, <1>7, <1>8, <1>9, <1>10, <1>11, <1>12, <1>13, <1>14, <1>15, <1>16
  DEF Shell!Next, Shell!Keys, Shell!Messages, RootKeys

\* Every step of it keeps what is known of it.
LEMMA ShellSteps ==
  ASSUME ScreenInv, tui = Tui!NoTui, Questioned, Shell!Next
  PROVE  ScreenInv' /\ tui' = Tui!NoTui /\ Questioned' /\ UNCHANGED running
<1>1. CASE RootMoves /\ Tui!OnlyRoot
  BY <1>1, RootKeeps DEF Tui!OnlyRoot
<1>2. CASE RootKeys  BY <1>1, <1>2, RootActs
<1>3. CASE Tui!HearUpdate \/ Tui!Quit  BY <1>3, OtherMessages
<1>4. CASE /\ root.loading = "none" /\ (root.focus = "menu" \/ root.pending \subseteq {"select"})
           /\ \/ \E item : Tui!ActivateAtOnce(item)
              \/ Tui!ActivateLogin \/ Tui!ActivateUpdate \/ Shell!ActivateInstall
  <2>1. root \in Roots  BY DEF ScreenInv
  <2>2. CASE Shell!ActivateInstall  BY <1>1, <1>4, <2>1, <2>2, InstallAsks
  <2>3. ASSUME NEW item, Tui!ActivateAtOnce(item) \/ Tui!ActivateLogin \/ Tui!ActivateUpdate
        PROVE RootMoves /\ Tui!OnlyRoot
    <3>1. RootMoves  BY <1>4, <2>1, <2>3, EnterKeys
    <3> QED  BY <2>3, <3>1 DEF Tui!ActivateAtOnce, Tui!ActivateLogin, Tui!ActivateUpdate
  <2> QED  BY <1>1, <1>4, <2>2, <2>3
<1> QED  BY <1>2, <1>3, <1>4, ShellIsTui

\* At the start there is a menu and nothing else.
LEMMA ScreenStarts == Init => ScreenInv /\ QuestionInv
<1> SUFFICES ASSUME Tui!Init  PROVE ScreenInv /\ QuestionInv
  BY DEF Init
<1>1. /\ root = [focus |-> "menu", item |-> 1, loading |-> "none", pending |-> {}, details |-> FALSE,
                 target |-> 1, screen |-> "welcome", plan |-> "none", checked |-> FALSE,
                 available |-> FALSE, field |-> 1]
      /\ tui = Tui!NoTui /\ flying = {} /\ running = {} /\ finished = {} /\ count = 0
  BY DEF Tui!Init
<1>2. 1 \in DOMAIN Targets /\ 0 \in 0..MaxPrepares /\ 1 \in 1..3  BY PickerTargets
<1>3. root \in Roots /\ root.loading = "none" /\ root.focus = "menu" /\ root.pending = {}
  BY <1>1, <1>2 DEF Roots
<1> QED  BY <1>1, <1>2, <1>3 DEF ScreenInv, Screened, QuestionInv, Questioned

\* Both hold in every behaviour of the commands.
LEMMA ScreenInvariant == Spec => [](ScreenInv /\ QuestionInv)
<1>1. ScreenInv /\ QuestionInv /\ [Next]_<<command, tuiVars, installVars, updateVars, authVars>>
        => (ScreenInv /\ QuestionInv)'
  <2> SUFFICES ASSUME ScreenInv, QuestionInv,
                      [Next]_<<command, tuiVars, installVars, updateVars, authVars>>
               PROVE  (ScreenInv /\ QuestionInv)'
    OBVIOUS
  <2>1. CASE UNCHANGED <<command, tuiVars>>
    BY <2>1 DEF tuiVars, ScreenInv, Screened, QuestionInv, Questioned
  <2>2. CASE command = "tui" /\ command' = command /\ Tui!Next
    BY <2>2, ScreenSteps DEF QuestionInv
  <2>3. CASE command = "shell" /\ command' = command /\ Shell!Next
    BY <2>3, ShellSteps DEF QuestionInv
  <2> QED  BY <2>1, <2>2, <2>3 DEF Next
<1> QED  BY <1>1, ScreenStarts, PTL DEF Spec

\* What the screen says is so: what runs is what it shows and says it executes,
\* none is abandoned, residual risk is not tried again, and at most one question
\* is asked, the one on screen (tui/root.go, install_update.go).
THEOREM ScreensAreTrue == Spec => ScreenIsTrue
<1>1. ScreenInv /\ QuestionInv /\ [Next]_<<command, tuiVars, installVars, updateVars, authVars>>
        => [ScreenActs]_(Tui!vars)
  <2> SUFFICES ASSUME ScreenInv, QuestionInv, Next  PROVE ScreenActs \/ UNCHANGED Tui!vars
    BY DEF tuiVars, Tui!vars
  <2>1. CASE Tui!Next  BY <2>1, ScreenActsSo
  <2>2. CASE command = "shell" /\ Shell!Next
    <3>1. tui = Tui!NoTui /\ UNCHANGED running  BY <2>2, ShellSteps DEF QuestionInv
    <3> QED  BY <3>1 DEF ScreenActs
  <2>3. CASE UNCHANGED tuiVars  BY <2>3 DEF tuiVars, Tui!vars
  <2> QED  BY <2>1, <2>2, <2>3 DEF Next
<1>2. [ScreenActs]_(Tui!vars) =>
        [\A e \in running' : e.id \notin {r.id : r \in running} =>
           e.mode = tui.mode /\ e.target = tui.target]_(Tui!vars)
  BY DEF ScreenActs
<1>3. [ScreenActs]_(Tui!vars) =>
        [(tui # Tui!NoTui /\ tui.stage = "result" /\ tui.result.status = "residual-risk"
            /\ flying = {}) => tui' \in {tui, Tui!NoTui}]_(Tui!vars)
  BY DEF ScreenActs
<1>4. ScreenInv => (command = "tui" => Tui!NothingAbandoned)
  BY DEF ScreenInv, Screened, Tui!NothingAbandoned
<1>5. QuestionInv => (command = "shell" => Shell!QuestionShown)
  BY DEF QuestionInv, Questioned, Shell!QuestionShown
<1> QED
  BY <1>1, <1>2, <1>3, <1>4, <1>5, ScreenInvariant, PTL
  DEF Spec, ScreenIsTrue, Tui!ExecutesWhatIsShown, Tui!ResidualStops

-----------------------------------------------------------------------------
(* Logins and sessions *)

\* A token, and the server it is for.
Owned(t, s) == t # NoToken => t \in Auth!Tokens /\ t[1] = s

\* Every token is where its server is: in the file, under its account and in
\* the hands of a command.
TokensInPlace ==
  /\ Auth!IsFile(config) => /\ Owned(config.token, config.server)
                             /\ config.account \in {NoAccount, config.server}
  /\ \A s \in Servers : Owned(keychain[s], s)

\* A file of that server, with that token.
Holds(f, s, t) == Auth!IsFile(f) /\ f.server = s /\ f.token = t

LoginInv ==
  /\ Auth!TypeOK /\ TokensInPlace
  /\ \A c \in Clients :
       /\ Owned(token[c], server[c]) /\ account[c] = server[c]
       /\ pc[c] \in {"set", "save", "migrate", "scrub"} \/ answer[c] = "session" => token[c] # NoToken
       /\ pc[c] = "get" => ~Auth!Legacy

\* What a command by itself has left in the file and under its account, at each
\* step.
SessionInv ==
  /\ Solo!TypeOK /\ TokensInPlace
  /\ Owned(token[Alone], server[Alone]) /\ account[Alone] = server[Alone]
  /\ pc[Alone] \in {"set", "save", "migrate", "scrub", "unmigrate"} => token[Alone] # NoToken
  /\ pc[Alone] \in {"save", "scrub", "unmigrate"} => keychain[server[Alone]] = token[Alone]
  /\ pc[Alone] \in {"migrate", "scrub", "unmigrate"} =>
       Holds(config, server[Alone], token[Alone])
  /\ pc[Alone] = "get" => ~Solo!Legacy
  /\ pc[Alone] = "revoke" /\ Solo!IsFile(config) => config.server = server[Alone]
  /\ pc[Alone] = "delete" /\ Solo!IsFile(config) => keychain[config.server] = NoToken

\* What a file that is saved holds.
LEMMA AuthFiles ==
  /\ \A s \in Servers : /\ Auth!Written(s, s) \in Auth!Configs
                       /\ Auth!Written(s, s).server = s /\ Auth!Written(s, s).account = s
                       /\ Auth!Written(s, s).token = NoToken
  /\ \A f \in Auth!Configs : f.server \in Servers /\ f.token \in Auth!Tokens \cup {NoToken}
  /\ Auth!Blanks \cap Auth!Configs = {}
BY AuthAssumption DEF Auth!Written, Auth!Configs, Auth!NameAssumption, Auth!Blanks

\* A token belongs to the server that minted it, and no token to everyone.
LEMMA AuthTokens ==
  /\ \A s \in Servers, n \in Serials : /\ <<s, n>> \in Auth!Tokens /\ Owned(<<s, n>>, s)
                                     /\ <<s, n>> # NoToken
  /\ \A s \in Servers : Owned(NoToken, s)
  /\ Auth!AnyServer \in Servers
BY AuthAssumption DEF Auth!Tokens, Owned, Auth!NameAssumption, Auth!AnyServer, Auth!Tokens

\* The account of a file is that of its server, named or not.
LEMMA OwnAccount ==
  ASSUME TokensInPlace, Auth!IsFile(config)
  PROVE  Auth!CredentialAccount(config) = config.server
BY DEF TokensInPlace, Auth!CredentialAccount, Auth!Account

\* A command moves to a step, with a server and its account, a token and an answer.
AuthMoves(c, p, s, t, a) ==
  /\ pc' = [pc EXCEPT ![c] = p]
  /\ server' = [server EXCEPT ![c] = s] /\ account' = [account EXCEPT ![c] = s]
  /\ token' = [token EXCEPT ![c] = t] /\ answer' = [answer EXCEPT ![c] = a]

\* The ways a step of a command moves it.
LEMMA AuthWays ==
  ASSUME Auth!TypeOK, NEW c \in Clients, account[c] = server[c]
  PROVE  /\ \A p : Auth!GoTo(c, p) => AuthMoves(c, p, server[c], token[c], answer[c])
         /\ \A p, s, t : Auth!Takes(c, p, s, s, t) => AuthMoves(c, p, s, t, "none") /\ pc[c] = "idle"
         /\ \A a : Auth!Ends(c, a) => AuthMoves(c, "idle", Auth!AnyServer, NoToken, a)
         /\ \A t : Auth!EndsWith(c, t) => AuthMoves(c, "idle", server[c], t, "session")
BY DEF Auth!GoTo, Auth!Takes, Auth!Ends, Auth!EndsWith, AuthMoves, Auth!TypeOK

\* Where a step leads keeps every token in place.
LEMMA LoginKept ==
  ASSUME LoginInv, NEW c \in Clients, NEW p \in Auth!Steps, NEW s \in Servers,
         NEW t \in Auth!Tokens \cup {NoToken}, NEW a \in Auth!Answers, AuthMoves(c, p, s, t, a),
         Owned(t, s), p \in {"set", "save", "migrate", "scrub"} \/ a = "session" => t # NoToken,
         p = "get" => ~Auth!Legacy,
         config' \in Auth!Configs \cup Auth!Blanks,
         keychain' \in [Servers -> Auth!Tokens \cup {NoToken}],
         TokensInPlace', Auth!Legacy' => Auth!Legacy
  PROVE  LoginInv'
<1>1. Auth!TypeOK'  BY DEF LoginInv, Auth!TypeOK, AuthMoves
<1>2. ASSUME NEW d \in Clients
      PROVE  /\ Owned(token'[d], server'[d]) /\ account'[d] = server'[d]
             /\ pc'[d] \in {"set", "save", "migrate", "scrub"} \/ answer'[d] = "session" =>
                  token'[d] # NoToken
             /\ pc'[d] = "get" => ~Auth!Legacy'
  <2>1. CASE d = c  BY <2>1 DEF LoginInv, Auth!TypeOK, AuthMoves
  <2>2. CASE d # c  BY <2>2 DEF LoginInv, Auth!TypeOK, AuthMoves
  <2> QED  BY <2>1, <2>2
<1> QED  BY <1>1, <1>2 DEF LoginInv

\* What a step does to the file and the accounts.
LEMMA StoresKept ==
  ASSUME config \in Auth!Configs \cup Auth!Blanks,
         keychain \in [Servers -> Auth!Tokens \cup {NoToken}], TokensInPlace,
         NEW s \in Servers, NEW t \in Auth!Tokens \cup {NoToken}, Owned(t, s),
         config' \in {config, NoConfig, Auth!Written(s, s)},
         keychain' \in {keychain, [keychain EXCEPT ![s] = t], [keychain EXCEPT ![s] = NoToken]}
  PROVE  /\ config' \in Auth!Configs \cup Auth!Blanks
         /\ keychain' \in [Servers -> Auth!Tokens \cup {NoToken}]
         /\ TokensInPlace' /\ (Auth!Legacy' => Auth!Legacy)
<1>1. config' \in Auth!Configs \cup Auth!Blanks /\ (Auth!Legacy' => Auth!Legacy)
  BY AuthFiles DEF Auth!Legacy, Auth!IsFile, Auth!Blanks
<1>2. keychain' \in [Servers -> Auth!Tokens \cup {NoToken}]
  OBVIOUS
<1>3. (Auth!IsFile(config) => /\ Owned(config.token, config.server)
                             /\ config.account \in {NoAccount, config.server})'
  BY AuthFiles, AuthTokens DEF TokensInPlace, Auth!IsFile, Auth!Blanks
<1>4. \A r \in Servers : Owned(keychain'[r], r)
  BY AuthTokens DEF TokensInPlace
<1> QED  BY <1>1, <1>2, <1>3, <1>4 DEF TokensInPlace

\* The same of several commands.
LEMMA LoginStores ==
  ASSUME LoginInv, NEW s \in Servers, NEW t \in Auth!Tokens \cup {NoToken}, Owned(t, s),
         config' \in {config, NoConfig, Auth!Written(s, s)},
         keychain' \in {keychain, [keychain EXCEPT ![s] = t], [keychain EXCEPT ![s] = NoToken]}
  PROVE  /\ config' \in Auth!Configs \cup Auth!Blanks
         /\ keychain' \in [Servers -> Auth!Tokens \cup {NoToken}]
         /\ TokensInPlace' /\ (Auth!Legacy' => Auth!Legacy)
BY StoresKept DEF LoginInv, Auth!TypeOK

\* Every token stays where its server is, whatever the commands do at once.
LEMMA LoginSteps == LoginInv /\ Auth!Next => LoginInv'
<1> SUFFICES ASSUME LoginInv, NEW c \in Clients,
                    \/ \E s \in Servers, n \in Serials : Auth!Login(c, s, n)
                    \/ Auth!SetCredential(c) \/ Auth!SaveConfig(c)
                    \/ Auth!UndoCredential(c) \/ Auth!LoadConfig(c)
                    \/ Auth!GetCredential(c) \/ Auth!Migrate(c) \/ Auth!Scrub(c) \/ Auth!Unmigrate(c)
                    \/ Auth!Rewrite(c) \/ Auth!Drop(c) \/ Auth!Logout(c) \/ Auth!Revoke(c)
                    \/ Auth!Delete(c) \/ Auth!Die(c)
             PROVE  LoginInv'
  BY DEF Auth!Next
<1>a. /\ Auth!TypeOK /\ pc[c] \in Auth!Steps /\ server[c] \in Servers
      /\ token[c] \in Auth!Tokens \cup {NoToken} /\ answer[c] \in Auth!Answers
      /\ Owned(token[c], server[c]) /\ account[c] = server[c] /\ TokensInPlace
      /\ pc[c] \in {"set", "save", "migrate", "scrub"} => token[c] # NoToken
  BY DEF LoginInv, Auth!TypeOK
<1>b. Auth!IsFile(config) => /\ config.server \in Servers /\ Owned(config.token, config.server)
                             /\ config.token \in Auth!Tokens \cup {NoToken}
                             /\ Auth!CredentialAccount(config) = config.server
  BY AuthFiles, OwnAccount DEF LoginInv, TokensInPlace, Auth!IsFile
<1>c. ASSUME NEW a \in Auth!Answers \ {"session"}, Auth!Ends(c, a), NEW s \in Servers,
             config' \in {config, NoConfig, Auth!Written(s, s)},
             keychain' \in {keychain, [keychain EXCEPT ![s] = NoToken]}
      PROVE  LoginInv'
  <2>1. AuthMoves(c, "idle", Auth!AnyServer, NoToken, a)  BY <1>a, <1>c, AuthWays
  <2> QED  BY <1>c, <2>1, LoginStores, LoginKept, AuthTokens DEF Auth!Steps
<1>d. ASSUME NEW p \in Auth!Steps \ {"get"}, Auth!GoTo(c, p),
             answer[c] # "session" \/ token[c] # NoToken,
             p \in {"save", "scrub"} => token[c] # NoToken, p \notin {"set", "migrate"},
             config' \in {config, Auth!Written(server[c], server[c])},
             keychain' \in {keychain, [keychain EXCEPT ![server[c]] = token[c]],
                            [keychain EXCEPT ![server[c]] = NoToken]}
      PROVE  LoginInv'
  <2>1. AuthMoves(c, p, server[c], token[c], answer[c])  BY <1>a, <1>d, AuthWays
  <2> QED  BY <1>a, <1>d, <2>1, LoginStores, LoginKept
<1>e. answer[c] = "session" => token[c] # NoToken  BY DEF LoginInv
<1>f. ASSUME NEW t \in Auth!Tokens, Auth!EndsWith(c, t), Owned(t, server[c]), t # NoToken,
             config' \in {config, Auth!Written(server[c], server[c])}, UNCHANGED keychain
      PROVE  LoginInv'
  <2>1. AuthMoves(c, "idle", server[c], t, "session")  BY <1>a, <1>f, AuthWays
  <2> QED  BY <1>a, <1>f, <2>1, LoginStores, LoginKept DEF Auth!Steps, Auth!Answers
<1>g. ASSUME NEW p \in Auth!Steps, NEW s \in Servers, NEW t \in Auth!Tokens \cup {NoToken},
             Auth!Takes(c, p, s, s, t), Owned(t, s), p \in {"set", "save", "migrate", "scrub"} => t # NoToken,
             p = "get" => ~Auth!Legacy, UNCHANGED <<config, keychain>>
      PROVE  LoginInv'
  <2>1. AuthMoves(c, p, s, t, "none")  BY <1>a, <1>g, AuthWays
  <2> QED  BY <1>g, <2>1, LoginStores, LoginKept DEF Auth!Answers
<1> USE DEF Auth!Steps, Auth!Answers
<1>1. CASE \E s \in Servers, n \in Serials : Auth!Login(c, s, n)
  BY <1>1, <1>g, AuthTokens DEF Auth!Login, Auth!Account
<1>2. CASE Auth!SetCredential(c)
  BY <1>2, <1>a, <1>c, <1>d, <1>e DEF Auth!SetCredential, Auth!Store
<1>3. CASE Auth!SaveConfig(c)
  BY <1>3, <1>a, <1>c, <1>d, <1>e DEF Auth!SaveConfig, Auth!SaveWorks, Auth!SaveFails
<1>4. CASE Auth!UndoCredential(c)
  BY <1>4, <1>a, <1>c DEF Auth!UndoCredential, Auth!Erase
<1>5. CASE Auth!LoadConfig(c)
  BY <1>5, <1>b, <1>c, <1>g, AuthTokens DEF Auth!LoadConfig, Auth!Legacy
<1>6. CASE Auth!GetCredential(c)
  <2>1. keychain[server[c]] \in Auth!Tokens \cup {NoToken} /\ Owned(keychain[server[c]], server[c])
    BY <1>a DEF Auth!TypeOK, LoginInv, TokensInPlace
  <2> QED  BY <1>6, <1>a, <1>c, <1>f, <2>1 DEF Auth!GetCredential
<1>7. CASE Auth!Migrate(c)
  BY <1>7, <1>a, <1>d, <1>e DEF Auth!Migrate, Auth!Store
<1>8. CASE Auth!Scrub(c)
  BY <1>8, <1>a, <1>d, <1>e, <1>f DEF Auth!Scrub, Auth!SaveWorks, Auth!SaveFails
<1>9. CASE Auth!Unmigrate(c)
  BY <1>9, <1>a, <1>c DEF Auth!Unmigrate, Auth!Erase
<1>10. CASE Auth!Rewrite(c)
  BY <1>10, <1>a, <1>c, <1>d, <1>e DEF Auth!Rewrite, Auth!SaveWorks, Auth!SaveFails
<1>11. CASE Auth!Drop(c)
  BY <1>11, <1>a, <1>c DEF Auth!Drop
<1>12. CASE Auth!Logout(c)
  BY <1>12, <1>b, <1>c, <1>g, AuthTokens DEF Auth!Logout
<1>13. CASE Auth!Revoke(c)
  BY <1>13, <1>a, <1>c, <1>d, <1>e DEF Auth!Revoke
<1>14. CASE Auth!Delete(c)
  BY <1>14, <1>a, <1>c DEF Auth!Delete
<1>15. CASE Auth!Die(c)
  BY <1>15, <1>a, <1>c DEF Auth!Die
<1> QED
  BY <1>1, <1>2, <1>3, <1>4, <1>5, <1>6, <1>7, <1>8, <1>9, <1>10, <1>11, <1>12, <1>13, <1>14,
      <1>15
\* What a file that is saved holds.
LEMMA SoloFiles ==
  /\ \A s \in Servers : /\ Solo!Written(s, s) \in Solo!Configs
                       /\ Solo!Written(s, s).server = s /\ Solo!Written(s, s).account = s
                       /\ Solo!Written(s, s).token = NoToken
  /\ \A f \in Solo!Configs : f.server \in Servers /\ f.token \in Solo!Tokens \cup {NoToken}
  /\ Solo!Blanks \cap Solo!Configs = {}
BY AuthAssumption DEF Solo!Written, Solo!Configs, Solo!NameAssumption, Solo!Blanks

\* A token belongs to the server that minted it, and no token to everyone.
LEMMA SoloTokens ==
  /\ \A s \in Servers, n \in Serials : /\ <<s, n>> \in Solo!Tokens /\ Owned(<<s, n>>, s)
                                     /\ <<s, n>> # NoToken
  /\ \A s \in Servers : Owned(NoToken, s)
  /\ Solo!AnyServer \in Servers
BY AuthAssumption DEF Solo!Tokens, Owned, Solo!NameAssumption, Solo!AnyServer, Auth!Tokens

\* A command moves to a step, with a server and its account, a token and an answer.
SoloMoves(c, p, s, t, a) ==
  /\ pc' = [pc EXCEPT ![c] = p]
  /\ server' = [server EXCEPT ![c] = s] /\ account' = [account EXCEPT ![c] = s]
  /\ token' = [token EXCEPT ![c] = t] /\ answer' = [answer EXCEPT ![c] = a]

\* The ways a step of a command moves it.
LEMMA SoloWays ==
  ASSUME Solo!TypeOK, NEW c \in {Alone}, account[c] = server[c]
  PROVE  /\ \A p : Solo!GoTo(c, p) => SoloMoves(c, p, server[c], token[c], answer[c])
         /\ \A p, s, t : Solo!Takes(c, p, s, s, t) => SoloMoves(c, p, s, t, "none") /\ pc[c] = "idle"
         /\ \A a : Solo!Ends(c, a) => SoloMoves(c, "idle", Solo!AnyServer, NoToken, a)
         /\ \A t : Solo!EndsWith(c, t) => SoloMoves(c, "idle", server[c], t, "session")
BY DEF Solo!GoTo, Solo!Takes, Solo!Ends, Solo!EndsWith, SoloMoves, Solo!TypeOK

-----------------------------------------------------------------------------
(* A command by itself *)

\* The two commands have the same stores.
LEMMA SameStores ==
  /\ Solo!Tokens = Auth!Tokens /\ Solo!Configs = Auth!Configs /\ Solo!Legacy = Auth!Legacy
  /\ Solo!Blanks = Auth!Blanks
  /\ \A s : Solo!Written(s, s) = Auth!Written(s, s)
  /\ \A f : Solo!IsFile(f) = Auth!IsFile(f) /\ Solo!CredentialAccount(f) = Auth!CredentialAccount(f)
BY DEF Solo!Tokens, Auth!Tokens, Solo!Configs, Auth!Configs, Solo!Legacy, Auth!Legacy,
  Solo!IsFile, Auth!IsFile, Solo!Written, Auth!Written, Solo!Blanks, Auth!Blanks,
  Solo!CredentialAccount, Auth!CredentialAccount, Solo!Account, Auth!Account

\* Where a step of a command by itself leads.
LEMMA SessionKept ==
  ASSUME SessionInv, NEW p \in Solo!Steps, NEW s \in Servers,
         NEW t \in Solo!Tokens \cup {NoToken}, NEW a \in Solo!Answers, SoloMoves(Alone, p, s, t, a),
         Owned(t, s), p \in {"set", "save", "migrate", "scrub", "unmigrate"} => t # NoToken,
         config' \in Solo!Configs \cup Solo!Blanks,
         keychain' \in [Servers -> Solo!Tokens \cup {NoToken}], TokensInPlace',
         p \in {"save", "scrub", "unmigrate"} => keychain'[s] = t,
         p \in {"migrate", "scrub", "unmigrate"} => Holds(config', s, t),
         p = "get" => ~Solo!Legacy',
         p = "revoke" /\ Solo!IsFile(config') => config'.server = s,
         p = "delete" /\ Solo!IsFile(config') => keychain'[config'.server] = NoToken
  PROVE  SessionInv'
<1>1. Solo!TypeOK'  BY DEF SessionInv, Solo!TypeOK, SoloMoves
<1>2. pc'[Alone] = p /\ server'[Alone] = s /\ account'[Alone] = s /\ token'[Alone] = t
  BY DEF SessionInv, Solo!TypeOK, SoloMoves
<1> QED  BY <1>1, <1>2 DEF SessionInv, Solo!IsFile

\* The step of a command by itself keeps the file and the account together.
LEMMA SessionSteps == SessionInv /\ Solo!Next => SessionInv'
<1> DEFINE c == Alone
<1> SUFFICES ASSUME SessionInv,
                    \/ \E s \in Servers, n \in Serials : Solo!Login(c, s, n)
                    \/ Solo!SetCredential(c) \/ Solo!SaveConfig(c)
                    \/ Solo!UndoCredential(c) \/ Solo!LoadConfig(c)
                    \/ Solo!GetCredential(c) \/ Solo!Migrate(c) \/ Solo!Scrub(c) \/ Solo!Unmigrate(c)
                    \/ Solo!Rewrite(c) \/ Solo!Drop(c) \/ Solo!Logout(c) \/ Solo!Revoke(c)
                    \/ Solo!Delete(c) \/ Solo!Die(c)
             PROVE  SessionInv'
  BY DEF Solo!Next
<1>a. /\ Solo!TypeOK /\ pc[c] \in Solo!Steps /\ server[c] \in Servers
      /\ token[c] \in Solo!Tokens \cup {NoToken} /\ answer[c] \in Solo!Answers
      /\ Owned(token[c], server[c]) /\ account[c] = server[c] /\ TokensInPlace
      /\ config \in Solo!Configs \cup Solo!Blanks
      /\ keychain \in [Servers -> Solo!Tokens \cup {NoToken}]
  BY DEF SessionInv, Solo!TypeOK
<1>b. Solo!IsFile(config) => /\ config.server \in Servers /\ Owned(config.token, config.server)
                             /\ config.token \in Solo!Tokens \cup {NoToken}
                             /\ Solo!CredentialAccount(config) = config.server
  BY <1>a, SoloFiles, OwnAccount, SameStores DEF TokensInPlace, Solo!IsFile, Auth!IsFile
<1>s. ASSUME NEW s \in Servers, NEW t \in Solo!Tokens \cup {NoToken}, Owned(t, s),
             config' \in {config, NoConfig, Solo!Written(s, s)},
             keychain' \in {keychain, [keychain EXCEPT ![s] = t], [keychain EXCEPT ![s] = NoToken]}
      PROVE  /\ config' \in Solo!Configs \cup Solo!Blanks
             /\ keychain' \in [Servers -> Solo!Tokens \cup {NoToken}] /\ TokensInPlace'
  BY <1>a, <1>s, SameStores, StoresKept
<1>c. ASSUME NEW a \in Solo!Answers, Solo!Ends(c, a), NEW s \in Servers,
             config' \in {config, NoConfig, Solo!Written(s, s)},
             keychain' \in {keychain, [keychain EXCEPT ![s] = NoToken]}
      PROVE  SessionInv'
  <2>1. SoloMoves(c, "idle", Solo!AnyServer, NoToken, a)  BY <1>a, <1>c, SoloWays
  <2> QED  BY <1>c, <1>s, <2>1, SessionKept, SoloTokens DEF Solo!Steps
<1>d. ASSUME NEW p \in Solo!Steps \ {"get"}, Solo!GoTo(c, p),
             p \in {"set", "save", "migrate", "scrub", "unmigrate"} => token[c] # NoToken,
             config' \in {config, Solo!Written(server[c], server[c])},
             keychain' \in {keychain, [keychain EXCEPT ![server[c]] = token[c]],
                            [keychain EXCEPT ![server[c]] = NoToken]},
             p \in {"save", "scrub", "unmigrate"} => keychain'[server[c]] = token[c],
             p \in {"migrate", "scrub", "unmigrate"} =>
               Holds(config', server[c], token[c]),
             p = "revoke" /\ Solo!IsFile(config') => config'.server = server[c],
             p = "delete" /\ Solo!IsFile(config') => keychain'[config'.server] = NoToken
      PROVE  SessionInv'
  <2>1. SoloMoves(c, p, server[c], token[c], answer[c])  BY <1>a, <1>d, SoloWays
  <2> QED  BY <1>a, <1>d, <1>s, <2>1, SessionKept
<1>f. ASSUME NEW t \in Solo!Tokens, Solo!EndsWith(c, t), Owned(t, server[c]),
             config' \in {config, Solo!Written(server[c], server[c])}, UNCHANGED keychain
      PROVE  SessionInv'
  <2>1. SoloMoves(c, "idle", server[c], t, "session")  BY <1>a, <1>f, SoloWays
  <2> QED  BY <1>a, <1>f, <1>s, <2>1, SessionKept DEF Solo!Steps, Solo!Answers
<1>g. ASSUME NEW p \in {"set", "get", "migrate", "revoke", "delete"}, NEW s \in Servers,
             NEW t \in Solo!Tokens \cup {NoToken}, Solo!Takes(c, p, s, s, t), Owned(t, s),
             p \in {"set", "migrate"} => t # NoToken, UNCHANGED <<config, keychain>>,
             p = "migrate" => Holds(config, s, t),
             p = "get" => ~Solo!Legacy,
             p = "revoke" => config.server = s, p = "delete" => ~Solo!IsFile(config)
      PROVE  SessionInv'
  <2>1. SoloMoves(c, p, s, t, "none")  BY <1>a, <1>g, SoloWays
  <2>2. p \in Solo!Steps /\ "none" \in Solo!Answers  BY DEF Solo!Steps, Solo!Answers
  <2>3. ~Solo!Legacy => ~Solo!Legacy'  BY <1>g DEF Solo!Legacy, Solo!IsFile
  <2> QED  BY <1>g, <1>s, <2>1, <2>2, <2>3, SessionKept
<1> USE DEF Solo!Steps, Solo!Answers
<1>1. CASE \E s \in Servers, n \in Serials : Solo!Login(c, s, n)
  BY <1>1, <1>g, SoloTokens DEF Solo!Login, Solo!Account
<1>2. CASE Solo!SetCredential(c)
  <2>1. token[c] # NoToken  BY <1>2 DEF SessionInv, Solo!SetCredential
  <2> QED  BY <1>2, <1>a, <1>c, <1>d, <2>1 DEF Solo!SetCredential, Solo!Store
<1>3. CASE Solo!SaveConfig(c)
  BY <1>3, <1>a, <1>c, <1>d DEF Solo!SaveConfig, Solo!SaveWorks, Solo!SaveFails
<1>4. CASE Solo!UndoCredential(c)
  BY <1>4, <1>a, <1>c DEF Solo!UndoCredential, Solo!Erase
<1>5. CASE Solo!LoadConfig(c)
  <2>1. CASE Solo!Ends(c, "not_found") \/ Solo!Ends(c, "invalid")
    BY <1>5, <1>a, <1>c, <2>1 DEF Solo!LoadConfig
  <2>2. CASE Solo!IsFile(config) /\ ~Solo!Legacy /\ Solo!Takes(c, "get", config.server, config.server, NoToken)
    BY <1>5, <1>b, <1>g, <2>2, SoloTokens DEF Solo!LoadConfig
  <2>3. CASE Solo!Legacy /\ Solo!Takes(c, "migrate", config.server, config.server, config.token)
    <3>1. /\ Solo!IsFile(config) /\ config.token # NoToken
          /\ Holds(config, config.server, config.token)
      BY <2>3, SameStores DEF Solo!Legacy, Holds
    <3> QED  BY <1>5, <1>b, <1>g, <2>3, <3>1 DEF Solo!LoadConfig
  <2>4. Solo!Legacy => Solo!IsFile(config)  BY DEF Solo!Legacy
  <2> QED  BY <1>5, <1>b, <2>1, <2>2, <2>3, <2>4 DEF Solo!LoadConfig
<1>6. CASE Solo!GetCredential(c)
  <2>1. /\ keychain[server[c]] \in Solo!Tokens \cup {NoToken}
        /\ Owned(keychain[server[c]], server[c])
    BY <1>a DEF TokensInPlace
  <2> QED  BY <1>6, <1>a, <1>c, <1>f, <2>1 DEF Solo!GetCredential
<1>7. CASE Solo!Migrate(c)
  <2>1. token[c] # NoToken /\ Holds(config, server[c], token[c])
    BY <1>7 DEF SessionInv, Solo!Migrate
  <2> QED  BY <1>7, <1>a, <1>d, <2>1 DEF Solo!Migrate, Solo!Store
<1>8. CASE Solo!Scrub(c)
  <2>1. /\ token[c] # NoToken /\ Holds(config, server[c], token[c])
        /\ keychain[server[c]] = token[c]
    BY <1>8 DEF SessionInv, Solo!Scrub
  <2> QED  BY <1>8, <1>a, <1>d, <1>f, <2>1 DEF Solo!Scrub, Solo!SaveWorks, Solo!SaveFails
<1>9. CASE Solo!Unmigrate(c)
  BY <1>9, <1>a, <1>c DEF Solo!Unmigrate, Solo!Erase
<1>10. CASE Solo!Rewrite(c)
  BY <1>10, <1>a, <1>c, <1>d DEF Solo!Rewrite, Solo!SaveWorks, Solo!SaveFails
<1>11. CASE Solo!Drop(c)
  BY <1>11, <1>a, <1>c DEF Solo!Drop
<1>12. CASE Solo!Logout(c)
  <2>1. config \in {NoConfig, Addressless} => ~Solo!IsFile(config)
    BY SoloFiles DEF Solo!IsFile, Solo!Blanks
  <2>2. CASE /\ Solo!Takes(c, "delete", Solo!AnyServer, Solo!AnyServer, NoToken)
             /\ config \in {NoConfig, Addressless}
    BY <1>12, <1>g, <2>1, <2>2, SoloTokens DEF Solo!Logout
  <2>3. CASE Solo!Ends(c, "invalid")  BY <1>12, <1>a, <1>c, <2>3 DEF Solo!Logout
  <2>4. CASE Solo!IsFile(config) /\ Solo!Takes(c, "revoke", config.server, config.server, NoToken)
    BY <1>12, <1>b, <1>g, <2>4, SoloTokens DEF Solo!Logout
  <2> QED  BY <1>12, <1>b, <2>2, <2>3, <2>4 DEF Solo!Logout
<1>13. CASE Solo!Revoke(c)
  <2>1. Solo!IsFile(config) => config.server = server[c]
    BY <1>13 DEF SessionInv, Solo!Revoke
  <2> QED  BY <1>13, <1>a, <1>c, <1>d, <2>1 DEF Solo!Revoke
<1>14. CASE Solo!Delete(c)
  BY <1>14, <1>a, <1>c DEF Solo!Delete
<1>15. CASE Solo!Die(c)
  BY <1>15, <1>a, <1>c DEF Solo!Die
<1> QED
  BY <1>1, <1>2, <1>3, <1>4, <1>5, <1>6, <1>7, <1>8, <1>9, <1>10, <1>11, <1>12, <1>13, <1>14,
      <1>15

-----------------------------------------------------------------------------
(* What the two invariants are for *)

\* How a step of one command ends it.
LEMMA LoginEnds ==
  ASSUME LoginInv, Auth!Next
  PROVE  Auth!PlaintextGone
<1> SUFFICES ASSUME NEW c \in Clients, Auth!Ended(c),
                    answer'[c] \in {"session", "unavailable", "missing"},
                    pc[c] \notin {"set", "revoke"}
             PROVE  ~Auth!Legacy'
  BY DEF Auth!PlaintextGone
<1>1. PICK d \in Clients :
        \/ \E s \in Servers, n \in Serials : Auth!Login(d, s, n)
        \/ Auth!SetCredential(d) \/ Auth!SaveConfig(d) \/ Auth!UndoCredential(d) \/ Auth!LoadConfig(d)
        \/ Auth!GetCredential(d) \/ Auth!Migrate(d) \/ Auth!Scrub(d) \/ Auth!Unmigrate(d)
        \/ Auth!Rewrite(d) \/ Auth!Drop(d) \/ Auth!Logout(d) \/ Auth!Revoke(d)
        \/ Auth!Delete(d) \/ Auth!Die(d)
  BY DEF Auth!Next
<1>2. pc \in [Clients -> Auth!Steps] /\ answer \in [Clients -> Auth!Answers]
  BY DEF LoginInv, Auth!TypeOK
<1>3. d = c
  BY <1>1, <1>2
  DEF Auth!Ended, Auth!Login, Auth!SetCredential, Auth!SaveConfig, Auth!UndoCredential,
    Auth!LoadConfig, Auth!GetCredential, Auth!Migrate, Auth!Scrub, Auth!Unmigrate, Auth!Rewrite,
    Auth!Drop, Auth!Logout, Auth!Revoke, Auth!Delete, Auth!Die, Auth!Takes, Auth!GoTo, Auth!Ends,
    Auth!EndsWith
<1>4. CASE Auth!GetCredential(c)
  BY <1>4 DEF Auth!GetCredential, LoginInv, Auth!Legacy, Auth!IsFile
<1>5. CASE config' = NoConfig \/ \E s \in Servers : config' = Auth!Written(s, s)
  BY <1>5, AuthFiles DEF Auth!Legacy, Auth!IsFile, Auth!Blanks
<1>6. CASE Auth!Scrub(c) \/ Auth!Rewrite(c) \/ Auth!Drop(c)
  <2>1. server[c] \in Servers /\ account[c] = server[c]  BY DEF LoginInv, Auth!TypeOK
  <2> QED
    BY <1>2, <1>5, <1>6, <2>1
    DEF Auth!Ended, Auth!Scrub, Auth!Rewrite, Auth!Drop, Auth!SaveWorks,
      Auth!GoTo, Auth!Ends
<1>7. ~( \/ \E s \in Servers, n \in Serials : Auth!Login(c, s, n)
         \/ Auth!SetCredential(c) \/ Auth!SaveConfig(c) \/ Auth!UndoCredential(c) \/ Auth!LoadConfig(c)
         \/ Auth!Migrate(c) \/ Auth!Unmigrate(c) \/ Auth!Logout(c) \/ Auth!Revoke(c)
         \/ Auth!Delete(c) \/ Auth!Die(c))
  BY <1>2 DEF Auth!Ended, Auth!Login, Auth!SetCredential, Auth!SaveConfig, Auth!UndoCredential,
    Auth!LoadConfig, Auth!Migrate, Auth!Unmigrate, Auth!Logout, Auth!Revoke, Auth!Delete, Auth!Die,
    Auth!Takes, Auth!GoTo, Auth!Ends
<1> QED  BY <1>1, <1>3, <1>4, <1>6, <1>7

\* What a command by itself has saved, moved or removed.
LEMMA SessionEnds ==
  ASSUME SessionInv, Solo!Next
  PROVE  Solo!OkMeansSaved /\ Solo!MigrationKeepsToken /\ Solo!LogoutRemovesBoth
<1>1. \/ \E s \in Servers, n \in Serials : Solo!Login(Alone, s, n)
      \/ Solo!SetCredential(Alone) \/ Solo!SaveConfig(Alone) \/ Solo!UndoCredential(Alone)
      \/ Solo!LoadConfig(Alone) \/ Solo!GetCredential(Alone) \/ Solo!Migrate(Alone) \/ Solo!Scrub(Alone)
      \/ Solo!Unmigrate(Alone) \/ Solo!Rewrite(Alone) \/ Solo!Drop(Alone) \/ Solo!Logout(Alone)
      \/ Solo!Revoke(Alone) \/ Solo!Delete(Alone) \/ Solo!Die(Alone)
  BY DEF Solo!Next
<1>2. /\ pc \in [{Alone} -> Solo!Steps] /\ answer \in [{Alone} -> Solo!Answers]
      /\ server[Alone] \in Servers /\ keychain \in [Servers -> Solo!Tokens \cup {NoToken}]
  BY DEF SessionInv, Solo!TypeOK
<1>3. ASSUME Solo!Ended(Alone), answer'[Alone] = "ok"
      PROVE  Solo!SaveConfig(Alone) /\ config' = Solo!Written(server[Alone], account[Alone])
  BY <1>1, <1>2, <1>3
  DEF Solo!Ended, Solo!Login, Solo!SetCredential, Solo!SaveConfig, Solo!UndoCredential,
    Solo!LoadConfig, Solo!GetCredential, Solo!Migrate, Solo!Scrub, Solo!Unmigrate, Solo!Rewrite,
    Solo!Drop, Solo!Logout, Solo!Revoke, Solo!Delete, Solo!Die, Solo!Takes, Solo!GoTo, Solo!Ends,
    Solo!EndsWith, Solo!SaveWorks
<1>4. Solo!OkMeansSaved
  <2>1. account[Alone] = server[Alone]  BY DEF SessionInv
  <2>2. ASSUME Solo!Ended(Alone), answer'[Alone] = "ok"
        PROVE  /\ Solo!IsFile(config') /\ config'.server = server[Alone] /\ config'.token = NoToken
               /\ Solo!CredentialAccount(config') = server[Alone]
    BY <1>2, <1>3, <2>1, <2>2, SoloFiles DEF Solo!IsFile, Solo!CredentialAccount, Solo!Account
  <2>3. ASSUME Solo!Ended(Alone), answer'[Alone] = "ok"
        PROVE  keychain'[server[Alone]] = token[Alone]
    BY <1>3, <2>3 DEF SessionInv, Solo!SaveConfig
  <2> QED  BY <2>2, <2>3 DEF Solo!OkMeansSaved
<1>5. ASSUME Solo!Ended(Alone), answer'[Alone] = "signed out"
      PROVE  Solo!Delete(Alone) /\ config' = NoConfig
  BY <1>1, <1>2, <1>5
  DEF Solo!Ended, Solo!Login, Solo!SetCredential, Solo!SaveConfig, Solo!UndoCredential,
    Solo!LoadConfig, Solo!GetCredential, Solo!Migrate, Solo!Scrub, Solo!Unmigrate, Solo!Rewrite,
    Solo!Drop, Solo!Logout, Solo!Revoke, Solo!Delete, Solo!Die, Solo!Takes, Solo!GoTo, Solo!Ends,
    Solo!EndsWith
<1>6. Solo!LogoutRemovesBoth
  BY <1>5, OwnAccount, SameStores DEF Solo!LogoutRemovesBoth, SessionInv, Solo!Delete
<1>7. ASSUME NEW t \in Solo!Tokens,
             t = keychain[t[1]] \/ (Solo!IsFile(config) /\ config.token = t),
             ~(t = keychain'[t[1]] \/ (Solo!IsFile(config') /\ config'.token = t)),
             pc[Alone] \notin {"save", "undo", "revoke", "delete", "rewrite", "drop"}
      PROVE  keychain'[t[1]] # NoToken
  <2>1. t[1] \in Servers /\ t # NoToken
    BY AuthAssumption DEF Solo!Tokens, Solo!NameAssumption
  <2>2. Solo!SetCredential(Alone) \/ Solo!Migrate(Alone) \/ Solo!Scrub(Alone) \/ Solo!Unmigrate(Alone)
    BY <1>1, <1>7 DEF Solo!Login, Solo!SaveConfig, Solo!UndoCredential,
      Solo!LoadConfig, Solo!GetCredential, Solo!Rewrite, Solo!Drop, Solo!Logout, Solo!Revoke,
      Solo!Delete, Solo!Die
  <2>3. CASE Solo!SetCredential(Alone) \/ Solo!Migrate(Alone)
    BY <1>2, <1>7, <2>1, <2>3
    DEF SessionInv, Solo!SetCredential, Solo!Migrate, Solo!Store
  <2>4. CASE Solo!Scrub(Alone)
    <3>1. /\ keychain[server[Alone]] = token[Alone] /\ token[Alone] # NoToken
          /\ config.token = token[Alone] /\ token[Alone][1] = server[Alone] /\ UNCHANGED keychain
      BY <2>4 DEF SessionInv, Solo!Scrub, Owned, Holds
    <3> QED  BY <1>7, <3>1
  <2>5. CASE Solo!Unmigrate(Alone)
    <3>1. /\ keychain[server[Alone]] = token[Alone] /\ token[Alone] # NoToken
          /\ config.server = server[Alone] /\ config.token = token[Alone] /\ UNCHANGED config
          /\ keychain' \in {keychain, [keychain EXCEPT ![server[Alone]] = NoToken]}
      BY <2>5 DEF SessionInv, Solo!Unmigrate, Solo!Erase, Holds
    <3>2. t = keychain[t[1]] /\ t[1] # server[Alone] => t = keychain'[t[1]]
      BY <1>2, <2>1, <3>1
    <3>3. Solo!IsFile(config)
      BY <2>5, SameStores DEF SessionInv, Solo!Unmigrate, Holds
    <3> QED  BY <1>7, <3>1, <3>2, <3>3
  <2> QED  BY <2>2, <2>3, <2>4, <2>5
<1>8. Solo!MigrationKeepsToken
  BY <1>7 DEF Solo!MigrationKeepsToken
<1> QED  BY <1>4, <1>6, <1>8

\* The stores of the commands, whichever of them runs.
AuthInv == (command # "session" => LoginInv) /\ (command = "session" => SessionInv)

\* Every token stays in its place.
LEMMA AuthInvariant == Spec => []AuthInv
<1>1. Init => AuthInv
  <2>1. ASSUME config \in Auth!Blanks \cup
                            {[server |-> t[1], account |-> NoAccount, token |-> t] : t \in Auth!Tokens},
               keychain = [s \in Servers |-> NoToken]
        PROVE  /\ config \in Auth!Configs \cup Auth!Blanks
               /\ keychain \in [Servers -> Auth!Tokens \cup {NoToken}] /\ TokensInPlace
    <3>1. ASSUME NEW t \in Auth!Tokens, config = [server |-> t[1], account |-> NoAccount, token |-> t]
          PROVE  config \in Auth!Configs /\ Owned(config.token, config.server)
      <4>1. t[1] \in Servers  BY DEF Auth!Tokens
      <4> QED  BY <3>1, <4>1 DEF Auth!Configs, Owned
    <3>2. config \in Auth!Blanks => ~Auth!IsFile(config)
      BY AuthFiles DEF Auth!IsFile
    <3> QED  BY <2>1, <3>1, <3>2, AuthTokens DEF TokensInPlace
  <2>2. ASSUME Auth!Init  PROVE LoginInv
    <3>1. /\ config \in Auth!Configs \cup Auth!Blanks
          /\ keychain \in [Servers -> Auth!Tokens \cup {NoToken}] /\ TokensInPlace
      BY <2>1, <2>2 DEF Auth!Init
    <3> QED
      BY <2>2, <3>1, AuthTokens DEF Auth!Init, LoginInv, Auth!TypeOK, Auth!Steps, Auth!Answers
  <2>3. ASSUME Solo!Init  PROVE SessionInv
    <3>1. /\ config \in Solo!Configs \cup Solo!Blanks
          /\ keychain \in [Servers -> Solo!Tokens \cup {NoToken}] /\ TokensInPlace
      BY <2>1, <2>3, SameStores DEF Solo!Init
    <3> QED
      BY <2>3, <3>1, SoloTokens DEF Solo!Init, SessionInv, Solo!TypeOK, Solo!Steps, Solo!Answers
  <2> QED  BY <2>2, <2>3 DEF Init, AuthInv
<1>2. AuthInv /\ [Next]_<<command, tuiVars, installVars, updateVars, authVars>> => AuthInv'
  <2>1. ASSUME AuthInv, UNCHANGED <<command, authVars>>  PROVE AuthInv'
    BY <2>1
    DEF AuthInv, authVars, LoginInv, SessionInv, TokensInPlace, Auth!TypeOK, Solo!TypeOK,
      Auth!Legacy, Solo!Legacy, Auth!IsFile, Solo!IsFile
  <2> QED  BY <2>1, LoginSteps, SessionSteps DEF Next, AuthInv
<1> QED  BY <1>1, <1>2, PTL DEF Spec

\* No token is used with another server than its own, and none stays in the file
\* after a load that ended quietly, whatever other commands do; and of a command
\* that runs alone, a login that says so is saved, a migration loses no token and
\* a logout leaves nothing (auth/manager.go).
THEOREM LoginsAreSafe == Spec => LoginIsSafe
<1>1. AuthInv => (command = "login" => Auth!TokenGoesToItsServer)
  BY DEF AuthInv, LoginInv, Auth!TokenGoesToItsServer, Owned
<1>2. AuthInv /\ [Next]_<<command, tuiVars, installVars, updateVars, authVars>> =>
        [/\ command = "login" => Auth!PlaintextGone
         /\ command = "session" =>
              Solo!OkMeansSaved /\ Solo!MigrationKeepsToken /\ Solo!LogoutRemovesBoth]_authVars
  BY LoginEnds, SessionEnds DEF Next, AuthInv
<1> QED  BY <1>1, <1>2, AuthInvariant, PTL DEF Spec, LoginIsSafe

-----------------------------------------------------------------------------
(* lore update *)

\* The steps before anything is moved, and those that come after.
Unmoved == {"check", "confirm", "download", "verify", "extract", "candidate", "stat", "drop", "move"}
Replacing == {"open", "fill", "publish"}
Undoing == {"remove", "giveback"}

\* What is under the three names at each step of the update, and what it plans.
UpdateInv ==
  /\ Update!TypeOK /\ Update!KeepsABinary
  /\ updating[Alone] # "idle" => build[Alone] \in Tags
  /\ updating[Alone] \notin {"idle", "check"} =>
       tag[Alone] \in Tags /\ Update!CompareSemver(build[Alone], tag[Alone]) = -1
  /\ updating[Alone] \in {"stat", "drop", "move"} \cup Replacing => got[Alone] = tag[Alone]
  /\ updating[Alone] \in Unmoved \cup {"forget"} => target = build[Alone]
  /\ updating[Alone] \in Replacing => target = None
  /\ updating[Alone] \in Replacing \cup Undoing \cup {"probe"} => bak = build[Alone]
  /\ updating[Alone] = "fill" => tmp = HalfOf(Alone)
  /\ updating[Alone] = "publish" => tmp = tag[Alone]
  /\ updating[Alone] = "probe" => target = tag[Alone]
  /\ updating[Alone] \in Undoing => target \in {None, tag[Alone]}

USE DEF Update!Whole, Update!Halves, Update!Steps, Update!Answers, Update!Contents, HalfOf

\* At the start nothing is planned.
LEMMA UpdateStarts == Update!TagAssumption /\ Update!NameAssumption /\ Update!Init => UpdateInv
BY DEF Update!Init, UpdateInv, Update!TypeOK, Update!KeepsABinary, Update!TagAssumption,
  Update!NameAssumption, Unmoved, Replacing, Undoing

\* A release that is available is a later version.
LEMMA AvailableIsLater ==
  ASSUME NEW b, NEW r \in Tags \cup {Odd}, Update!CompareVersions(b, r) = "available"
  PROVE  r \in Tags /\ Update!CompareSemver(b, r) = -1
BY DEF Update!CompareVersions

\* What is under the three names is as the step of the update says.
LEMMA UpdateSteps == UpdateInv /\ Update!Next => UpdateInv'
<1> SUFFICES ASSUME UpdateInv, Update!Next PROVE UpdateInv'
  OBVIOUS
<1> USE UpdateAssumption DEF UpdateInv, Update!TypeOK, Update!KeepsABinary, Update!TagAssumption,
  Update!NameAssumption, Unmoved, Replacing, Undoing
<1>1. CASE Update!Start(Alone)
  BY <1>1 DEF Update!Start, Update!LocallySafe, Update!Ends, Update!Outside, Update!files
<1>2. CASE Update!Look(Alone)
  BY <1>2 DEF Update!Look, Update!Fetched, Update!Cached, Update!files
<1>3. CASE Update!Confirm(Alone)
  BY <1>3 DEF Update!Confirm, Update!GoTo, Update!Ends, Update!Outside, Update!files
<1>4. CASE Update!Check(Alone)
  <2>1. /\ updating[Alone] = "check" /\ UNCHANGED <<target, bak, tmp, latest>>
        /\ cache' \in Tags \cup {Odd, None}
    BY <1>4 DEF Update!Check, Update!Fetched, Update!Cached, Update!files
  <2>2. ASSUME NEW a \in Update!Answers, Update!Ends(Alone, a)  PROVE UpdateInv'
    BY <2>1, <2>2 DEF Update!Ends
  <2>3. ASSUME NEW r \in Tags \cup {Odd}, Update!CompareVersions(build[Alone], r) = "available",
               updating' = [updating EXCEPT ![Alone] = "confirm"],
               tag' = [tag EXCEPT ![Alone] = r], UNCHANGED <<build, got, told>>
        PROVE UpdateInv'
    <3>1. r \in Tags /\ Update!CompareSemver(build[Alone], r) = -1  BY <2>3, AvailableIsLater
    <3> QED  BY <2>1, <2>3, <3>1
  <2>4. ASSUME NEW r, NEW link, Update!PlanStatus(Alone, r, link) = "available"
        PROVE  Update!CompareVersions(build[Alone], r) = "available"
    BY <2>4 DEF Update!PlanStatus
  <2> QED  BY <1>4, <2>2, <2>3, <2>4 DEF Update!Check
<1>5. CASE Update!Download(Alone)
  BY <1>5 DEF Update!Download, Update!Ends, Update!Outside, Update!files
<1>6. CASE Update!Verify(Alone)
  BY <1>6 DEF Update!Verify, Update!GoTo, Update!Ends, Update!Outside, Update!files
<1>7. CASE Update!Extract(Alone)
  BY <1>7 DEF Update!Extract, Update!GoTo, Update!Ends, Update!Outside, Update!files
<1>8. CASE Update!ProbeCandidate(Alone)
  BY <1>8
  DEF Update!ProbeCandidate, Update!Reports, Update!GoTo, Update!Ends, Update!Outside,
      Update!files
<1>9. CASE Update!Stat(Alone)
  BY <1>9 DEF Update!Stat, Update!GoTo, Update!Ends, Update!Outside, Update!files
<1>10. CASE Update!DropBackup(Alone)
  BY <1>10 DEF Update!DropBackup, Update!GoTo, Update!Outside
<1>11. CASE Update!MoveToBackup(Alone)
  BY <1>11 DEF Update!MoveToBackup, Update!GoTo, Update!Ends, Update!Outside
<1>12. CASE Update!OpenTemp(Alone)
  BY <1>12 DEF Update!OpenTemp, Update!GoTo, Update!Outside
<1>13. CASE Update!FillTemp(Alone)
  BY <1>13 DEF Update!FillTemp, Update!BecomeOf, Update!GoTo, Update!Outside
<1>14. CASE Update!Publish(Alone)
  BY <1>14 DEF Update!Publish, Update!GoTo, Update!Outside
<1>15. CASE Update!Probe(Alone)
  BY <1>15
  DEF Update!Probe, Update!Reports, Update!GoTo, Update!Ends, Update!Outside, Update!files
<1>16. CASE Update!Remove(Alone)
  BY <1>16 DEF Update!Remove, Update!GoTo, Update!Outside
<1>17. CASE Update!GiveBack(Alone)
  BY <1>17 DEF Update!GiveBack, Update!GoTo, Update!Ends, Update!Outside
<1>18. CASE Update!Forget(Alone)
  BY <1>18 DEF Update!Forget, Update!Ends, Update!Outside
<1>19. CASE Update!Die(Alone)
  <2>1. /\ target' = (IF target = HalfOf(Alone) THEN Torn ELSE target)
        /\ bak' = (IF bak = HalfOf(Alone) THEN Torn ELSE bak)
        /\ tmp' = (IF tmp = HalfOf(Alone) THEN Torn ELSE tmp)
    BY <1>19 DEF Update!Die, Update!BecomeOf
  <2>2. /\ target' \in Update!Contents \ {HalfOf(Alone)} /\ bak' \in Update!Contents \ {HalfOf(Alone)}
        /\ tmp' \in Update!Contents \ {HalfOf(Alone)}
        /\ target' \in Update!Whole \/ bak' \in Update!Whole
    BY <2>1
  <2> QED  BY <1>19, <2>2 DEF Update!Die, Update!Ends, Update!Outside
<1>20. CASE Update!Release
  BY <1>20 DEF Update!Release, Update!files
<1> QED
  BY <1>1, <1>2, <1>3, <1>4, <1>5, <1>6, <1>7, <1>8, <1>9, <1>10, <1>11, <1>12, <1>13, <1>14,
    <1>15, <1>16, <1>17, <1>18, <1>19, <1>20 DEF Update!Next, Update!Work

\* No behaviour of the commands is anything but one of an update to its files.
LEMMA UpdateInvariant == Spec => []UpdateInv
<1>1. Init => UpdateInv
  BY UpdateAssumption, UpdateStarts DEF Init
<1>2. UpdateInv /\ [Next]_<<command, tuiVars, installVars, updateVars, authVars>> => UpdateInv'
  <2>1. ASSUME UpdateInv, UNCHANGED Update!uvars  PROVE UpdateInv'
    BY <2>1 DEF UpdateInv, Update!uvars, Update!files, Update!TypeOK, Update!KeepsABinary
  <2> QED  BY <2>1, UpdateSteps DEF Next, updateVars, Update!uvars, Update!files
<1> QED  BY <1>1, <1>2, PTL DEF Spec

\* What a version that compares as older is older in.
LEMMA OlderSomewhere ==
  ASSUME NEW a, NEW b, Update!CompareSemver(a, b) = -1
  PROVE  \E i \in 1..3 : a[i] < b[i] /\ \A j \in 1..(i - 1) : a[j] = b[j]
BY DEF Update!CompareSemver

\* The names as a step changes them.
LEMMA UpdateActs ==
  ASSUME UpdateInv, Update!Next
  PROVE  /\ target' # target /\ target' \in Update!Whole => target' \in {build[Alone], tag[Alone]}
         /\ told'[Alone] = "failed" /\ updating[Alone] # "idle" /\ updating'[Alone] = "idle" =>
              target' = build[Alone]
         /\ told'[Alone] = "applied" /\ updating[Alone] # "idle" /\ updating'[Alone] = "idle" =>
              target' = tag[Alone] /\ bak' = build[Alone] /\ updating[Alone] = "probe"
<1> USE UpdateAssumption DEF UpdateInv, Update!TypeOK, Update!NameAssumption, Unmoved, Replacing, Undoing
<1>1. CASE \/ Update!Start(Alone) \/ Update!Look(Alone) \/ Update!Confirm(Alone) \/ Update!Release
  BY <1>1 DEF Update!Start, Update!LocallySafe, Update!Look, Update!Confirm, Update!Release,
    Update!GoTo, Update!Ends, Update!Outside, Update!files
<1>2. CASE \/ Update!Check(Alone) \/ Update!Download(Alone) \/ Update!Verify(Alone)
           \/ Update!Extract(Alone) \/ Update!ProbeCandidate(Alone)
  BY <1>2
  DEF Update!Check, Update!Download, Update!Verify, Update!Extract, Update!ProbeCandidate,
    Update!GoTo, Update!Ends, Update!Outside, Update!files
<1>3. CASE \/ Update!Stat(Alone) \/ Update!DropBackup(Alone) \/ Update!MoveToBackup(Alone)
           \/ Update!OpenTemp(Alone) \/ Update!FillTemp(Alone) \/ Update!Publish(Alone)
  BY <1>3
  DEF Update!Stat, Update!DropBackup, Update!MoveToBackup, Update!OpenTemp, Update!FillTemp,
    Update!Publish, Update!BecomeOf, Update!GoTo, Update!Ends, Update!Outside, Update!files
<1>4. CASE \/ Update!Probe(Alone) \/ Update!Remove(Alone) \/ Update!GiveBack(Alone)
           \/ Update!Forget(Alone) \/ Update!Die(Alone)
  BY <1>4 DEF Update!Probe, Update!Remove, Update!GiveBack, Update!Forget, Update!Die,
    Update!BecomeOf, Update!GoTo, Update!Ends, Update!Outside, Update!files
<1> QED  BY <1>1, <1>2, <1>3, <1>4 DEF Update!Next, Update!Work

\* An update never loses the last binary, puts nothing under its name but what
\* was running and what was planned, keeps the old version when it fails, and
\* moves forward with the right backup when it does not (applyUnix).
THEOREM UpdatesAreSafe == Spec => UpdateIsSafe
<1>1. [Next]_<<command, tuiVars, installVars, updateVars, authVars>> => [Update!Next]_(Update!uvars)
  BY DEF Next, updateVars, Update!uvars, Update!files
<1>2. UpdateInv => (command = "update" => Update!KeepsABinary)
  BY DEF UpdateInv
<1>3. UpdateInv /\ [Update!Next]_(Update!uvars) =>
        [target' # target /\ target' \in Update!Whole =>
           \E c \in {Alone} : target' \in {build[c], tag[c]}]_(Update!uvars)
  BY UpdateActs
<1>4. UpdateInv /\ [Update!Next]_(Update!uvars) =>
        [\A c \in {Alone} : told'[c] = "failed" /\ updating[c] # "idle" /\ updating'[c] = "idle" =>
           target' = build[c]]_(Update!uvars)
  BY UpdateActs
<1>5. UpdateInv /\ [Update!Next]_(Update!uvars) =>
        [\A c \in {Alone} : told'[c] = "applied" /\ updating[c] # "idle" /\ updating'[c] = "idle" =>
           \E i \in 1..3 :
             build[c][i] < target'[i] /\ \A j \in 1..(i - 1) : build[c][j] = target'[j]]_(Update!uvars)
  BY UpdateActs, OlderSomewhere DEF UpdateInv
<1>6. UpdateInv /\ [Update!Next]_(Update!uvars) =>
        [\A c \in {Alone} : told'[c] = "applied" /\ updating[c] # "idle" /\ updating'[c] = "idle" =>
           bak' = build[c]]_(Update!uvars)
  BY UpdateActs
<1> QED
  BY <1>1, <1>2, <1>3, <1>4, <1>5, <1>6, UpdateInvariant, PTL
  DEF Spec, UpdateIsSafe, Update!PlannedOnly, Update!FailedKeepsOld, Update!OnlyForward,
    Update!BackupIsPrevious

-----------------------------------------------------------------------------
(* All of them *)

\* Whichever command runs, every variable holds a value of its kind, a running
\* install has no exit status, and a screen that is prepared holds a token.
THEOREM CommandsTypeCorrect == Spec => []TypeOK
<1>1. ScreenInv => Tui!TypeOK
  <2> SUFFICES ASSUME ScreenInv  PROVE Tui!TypeOK
    OBVIOUS
  <2>1. root.focus \in {"menu", "detail", "login"} /\ root.pending \subseteq Tui!Questions
    BY DEF ScreenInv, Roots
  <2>2. ASSUME tui # Tui!NoTui
        PROVE  /\ tui.mode \in Tui!Modes /\ tui.target \in Tui!Ids
               /\ tui.stage \in {"preparing", "prepared", "executing", "result"}
               /\ tui.stage = "prepared" => tui.token \in 1..MaxPrepares
               /\ tui.stage # "executing" => ~tui.cancelling
    <3>1. tui \in Screens /\ Screened  BY <2>2 DEF ScreenInv
    <3>2. tui.stage = "prepared" => tui.token # 0  BY <2>2, <3>1 DEF Screened
    <3>3. tui.token \in 0..MaxPrepares  BY <3>1 DEF Screens
    <3>4. tui.stage = "prepared" => tui.token \in 1..MaxPrepares  BY <3>2, <3>3, PickerTargets
    <3> QED  BY <2>2, <3>1, <3>4 DEF Screens, Screened
  <2> QED  BY <2>1, <2>2 DEF ScreenInv, Tui!TypeOK
<1>2. Tui!TypeOK => Shell!TypeOK
  BY DEF Tui!TypeOK, Shell!TypeOK, Tui!Questions, Shell!Questions, Tui!NoTui, Shell!NoTui,
    Tui!Modes, Shell!Modes, Tui!Ids, Shell!Ids
<1>3. AuthInv => IF command = "session" THEN Solo!TypeOK ELSE Auth!TypeOK
  BY DEF AuthInv, LoginInv, SessionInv
<1>4. InstallInv => Install!TypeOK  BY DEF InstallInv
<1>5. UpdateInv => Update!TypeOK  BY DEF UpdateInv
<1>6. ScreenInv /\ AuthInv /\ InstallInv /\ UpdateInv => TypeOK
  BY <1>1, <1>2, <1>3, <1>4, <1>5 DEF TypeOK
<1> QED  BY <1>6, ScreenInvariant, AuthInvariant, InstallInvariant, UpdateInvariant, PTL
=============================================================================
