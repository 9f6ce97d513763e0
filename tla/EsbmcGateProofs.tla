--------------------------- MODULE EsbmcGateProofs ---------------------------
(***************************************************************************)
(* Proofs about EsbmcGate: its types, one installation at a time, and the  *)
(* soundness of the gate, for any number of configurations, modes, proofs  *)
(* and versions.                                                           *)
(***************************************************************************)
EXTENDS EsbmcGate, TLAPS

Verdicts == {"none", "PASSED", "FAILED", "REUSED"}

\* The steps at which a configuration has no run of its own.
Blank == {"Idle", "Failed"}

Steps ==
    Blank \cup LockSteps
    \cup {"Find", "Unlocked", "Lock", "Version", "Proof", "Cache", "Execute", "Copy", "Copied",
          "Passed", "Refused"}

Runs ==
    [step: Steps, mode: Modes \cup {Null}, cached: BOOLEAN, next: 1..Len(Proofs) + 1,
     digest: [Names -> Versions], verdict: [Names -> Verdicts]]

\* TypeOK, with the fields that it leaves out.
Typed ==
    /\ install \in {"absent", "incomplete", "complete"}
    /\ lock \in Configurations \cup {Children, Null}
    /\ source \in Versions
    /\ cache \in [Names \X Modes \X Versions -> {"absent", "partial", "complete"}]
    /\ conf \in [Configurations -> Runs]

\* What a verdict says of a version, if inputs stay as they are under a proof.
Shown(p, mode, version) == EditsDuringProof \/ Holds(p, mode, version)

\* Nothing is in the cache, not even in part, that does not hold.
CacheIsSound ==
    \A p \in Names, m \in Modes, v \in Versions :
        cache[<<p, m, v>>] # "absent" => Shown(p, m, v)

\* The proofs have their verdicts in order, and those that count hold.
VerdictsAreSound(run) ==
    /\ \A i \in DOMAIN Proofs : run.verdict[Proofs[i]] = "none" <=> i >= run.next
    /\ \A p \in Names : run.verdict[p] \in {"PASSED", "REUSED"} => Shown(p, run.mode, run.digest[p])

\* A proof is looked up and run for the inputs as they were hashed, and what is
\* about to be copied holds.
ProofInHandIsSound(run) ==
    run.step \in {"Cache", "Execute", "Copy", "Copied"} =>
        /\ run.next \in DOMAIN Proofs
        /\ LET p == Proofs[run.next]
           IN  IF run.step \in {"Cache", "Execute"}
               THEN EditsDuringProof \/ run.digest[p] = source
               ELSE Shown(p, run.mode, run.digest[p])

\* A gate is open or closed only after the last proof.
EndIsSound(run) ==
    /\ run.step \in {"Passed", "Refused"} => run.next \notin DOMAIN Proofs
    /\ run.step = "Passed" => \A p \in Names : run.verdict[p] # "FAILED"

RunIsSound(run) ==
    /\ run.step \notin Blank => run.mode \in Modes
    /\ VerdictsAreSound(run)
    /\ ProofInHandIsSound(run)
    /\ EndIsSound(run)

RunsAreSound == \A c \in Configurations : RunIsSound(conf[c])

Inv == Typed /\ OneInstallation /\ CacheIsSound /\ RunsAreSound

-----------------------------------------------------------------------------
(* Runs *)

LEMMA ProofsAreNamed ==
    /\ Len(Proofs) \in Nat /\ DOMAIN Proofs = 1..Len(Proofs)
    /\ \A i \in DOMAIN Proofs : Proofs[i] \in Names
    /\ \A p \in Names : \E i \in DOMAIN Proofs : p = Proofs[i]
BY ConfigurationsAssumption DEF Names

\* A run that has just begun is sound.
LEMMA NewRunIsSound ==
    ASSUME NEW run \in Runs, run.next = 1, run.verdict = NoVerdict,
           run.step \in Blank \cup {"Find"}, run.step = "Find" => run.mode \in Modes
    PROVE  RunIsSound(run)
<1>1. VerdictsAreSound(run)
  BY ProofsAreNamed DEF VerdictsAreSound, NoVerdict
<1> QED
  BY <1>1 DEF RunIsSound, ProofInHandIsSound, EndIsSound, Blank

LEMMA NoRunIsSound ==
    ASSUME NEW step \in Blank
    PROVE  NoRun(step) \in Runs /\ RunIsSound(NoRun(step))
<1>1. 1 \in 1..Len(Proofs) + 1 /\ 1 \in Versions
  BY ProofsAreNamed, ConfigurationsAssumption DEF Versions
<1>2. NoRun(step) \in Runs
  BY <1>1 DEF NoRun, Runs, NoVerdict, Verdicts, Steps
<1> QED
  BY <1>2, NewRunIsSound DEF NoRun, Blank

\* A run goes on to a step at which it has no proof in hand.
LEMMA MovedRunIsSound ==
    ASSUME NEW run \in Runs, RunIsSound(run), run.step \notin Blank,
           NEW step \in LockSteps \cup {"Unlocked", "Lock", "Version", "Proof"}
    PROVE  /\ [run EXCEPT !.step = step] \in Runs
           /\ RunIsSound([run EXCEPT !.step = step])
<1> DEFINE moved == [run EXCEPT !.step = step]
<1>1. /\ moved \in Runs /\ moved.step = step /\ moved.mode = run.mode
      /\ moved.next = run.next /\ moved.digest = run.digest /\ moved.verdict = run.verdict
  BY DEF Runs, Steps
<1> HIDE DEF moved
<1>2. RunIsSound(moved)
  BY <1>1 DEF RunIsSound, VerdictsAreSound, ProofInHandIsSound, EndIsSound, LockSteps
<1> QED
  BY <1>1, <1>2 DEF moved

\* A verdict is added for the proof in hand; if it counts, the proof holds.
LEMMA ConcludedRunIsSound ==
    ASSUME Typed, RunsAreSound, NEW c \in Configurations,
           conf[c].step \in {"Cache", "Execute", "Copied"},
           NEW verdict \in Verdicts \ {"none"}, Conclude(c, verdict),
           verdict \in {"PASSED", "REUSED"} =>
               LET p == Proofs[conf[c].next] IN Shown(p, conf[c].mode, conf[c].digest[p])
    PROVE  /\ conf'[c] \in Runs /\ RunIsSound(conf'[c])
           /\ conf' = [conf EXCEPT ![c] = conf'[c]]
<1> DEFINE run == conf[c]
           p == Proofs[run.next]
           verdicts == [run.verdict EXCEPT ![p] = verdict]
           new == [run EXCEPT !.verdict = verdicts, !.next = run.next + 1, !.step = "Proof"]
<1>1. run \in Runs /\ RunIsSound(run) /\ run.next \in DOMAIN Proofs /\ p \in Names
  <2>1. run \in Runs /\ RunIsSound(run)
    BY DEF Typed, RunsAreSound
  <2>2. run.next \in DOMAIN Proofs
    BY <2>1 DEF RunIsSound, ProofInHandIsSound
  <2> QED
    BY <2>1, <2>2, ProofsAreNamed
<1>2. conf' = [conf EXCEPT ![c] = new] /\ conf'[c] = new
  BY DEF Conclude, Typed
<1>3. /\ new \in Runs /\ new.step = "Proof" /\ new.mode = run.mode /\ new.next = run.next + 1
      /\ new.digest = run.digest
      /\ \A q \in Names : new.verdict[q] = IF q = p THEN verdict ELSE run.verdict[q]
  <2>1. /\ verdicts \in [Names -> Verdicts]
        /\ \A q \in Names : verdicts[q] = IF q = p THEN verdict ELSE run.verdict[q]
    BY <1>1 DEF Runs
  <2>2. run.next + 1 \in 1..Len(Proofs) + 1 /\ "Proof" \in Steps
    BY <1>1, ProofsAreNamed DEF Runs, Steps
  <2> HIDE DEF verdicts, p
  <2> QED
    BY <1>1, <2>1, <2>2 DEF Runs
<1> HIDE DEF new
<1>4. VerdictsAreSound(new)
  <2>1. \A i \in DOMAIN Proofs : new.verdict[Proofs[i]] = "none" <=> i >= new.next
    <3> SUFFICES ASSUME NEW i \in DOMAIN Proofs
                 PROVE  new.verdict[Proofs[i]] = "none" <=> i >= run.next + 1
      BY <1>3
    <3>1. CASE i = run.next
      BY <1>1, <1>3, <3>1, ProofsAreNamed
    <3>2. CASE i # run.next
      <4>1. Proofs[i] # p
        BY <1>1, <3>2, ConfigurationsAssumption
      <4>2. new.verdict[Proofs[i]] = run.verdict[Proofs[i]]
        BY <1>3, <4>1, ProofsAreNamed
      <4>3. run.verdict[Proofs[i]] = "none" <=> i >= run.next
        BY <1>1 DEF RunIsSound, VerdictsAreSound
      <4> QED
        BY <1>1, <3>2, <4>2, <4>3, ProofsAreNamed
    <3> QED
      BY <3>1, <3>2
  <2>2. ASSUME NEW q \in Names, new.verdict[q] \in {"PASSED", "REUSED"}
        PROVE  Shown(q, new.mode, new.digest[q])
    BY <1>1, <1>3, <2>2 DEF RunIsSound, VerdictsAreSound
  <2> QED
    BY <2>1, <2>2 DEF VerdictsAreSound
<1>5. run.mode \in Modes
  BY <1>1 DEF RunIsSound, Blank
<1> QED
  BY <1>2, <1>3, <1>4, <1>5 DEF RunIsSound, ProofInHandIsSound, EndIsSound

\* One run changes and the inputs do not.
LEMMA OneRunChanges ==
    ASSUME Typed, RunsAreSound, NEW c \in Configurations, UNCHANGED source,
           NEW run \in Runs, RunIsSound(run), conf' = [conf EXCEPT ![c] = run]
    PROVE  conf' \in [Configurations -> Runs] /\ RunsAreSound'
<1>1. conf' \in [Configurations -> Runs]
  BY DEF Typed
<1>2. ASSUME NEW d \in Configurations PROVE RunIsSound(conf[d])'
  <2>1. conf'[d] = IF d = c THEN run ELSE conf[d]
    BY DEF Typed
  <2>2. RunIsSound(conf'[d])
    BY <2>1 DEF RunsAreSound
  <2> QED
    BY <2>2 DEF RunIsSound, VerdictsAreSound, ProofInHandIsSound, EndIsSound
<1> QED
  BY <1>1, <1>2 DEF RunsAreSound

-----------------------------------------------------------------------------
(* Every step keeps the runs sound *)

\* A configuration goes on, without touching the inputs, to a step at which it
\* has no proof in hand.
LEMMA GotoKeepsRuns ==
    ASSUME Typed, RunsAreSound, NEW c \in Configurations, conf[c].step \notin Blank,
           NEW step \in LockSteps \cup {"Unlocked", "Lock", "Version", "Proof"},
           Goto(c, step), UNCHANGED source
    PROVE  conf' \in [Configurations -> Runs] /\ RunsAreSound'
<1>1. conf[c] \in Runs /\ RunIsSound(conf[c])
  BY DEF Typed, RunsAreSound
<1>2. conf' = [conf EXCEPT ![c] = [conf[c] EXCEPT !.step = step]]
  BY DEF Goto
<1> QED
  BY <1>1, <1>2, MovedRunIsSound, OneRunChanges

LEMMA FailKeepsRuns ==
    ASSUME Typed, RunsAreSound, NEW c \in Configurations, Fail(c) \/ Kill(c)
    PROVE  conf' \in [Configurations -> Runs] /\ RunsAreSound'
<1>1. conf' = [conf EXCEPT ![c] = NoRun("Failed")] /\ UNCHANGED source
  BY DEF Fail, Kill
<1> QED
  BY <1>1, NoRunIsSound, OneRunChanges DEF Blank

LEMMA ConcludeKeepsRuns ==
    ASSUME Typed, RunsAreSound, NEW c \in Configurations,
           conf[c].step \in {"Cache", "Execute", "Copied"}, UNCHANGED source,
           NEW verdict \in Verdicts \ {"none"}, Conclude(c, verdict),
           verdict \in {"PASSED", "REUSED"} =>
               LET p == Proofs[conf[c].next] IN Shown(p, conf[c].mode, conf[c].digest[p])
    PROVE  conf' \in [Configurations -> Runs] /\ RunsAreSound'
BY ConcludedRunIsSound, OneRunChanges

LEMMA StartKeepsRuns ==
    ASSUME Typed, RunsAreSound, NEW c \in Configurations, NEW mode \in Modes,
           NEW cached \in BOOLEAN, Start(c, mode, cached)
    PROVE  conf' \in [Configurations -> Runs] /\ RunsAreSound'
<1> DEFINE run == [NoRun("Find") EXCEPT !.mode = mode, !.cached = cached]
<1>1. 1 \in 1..Len(Proofs) + 1 /\ 1 \in Versions
  BY ProofsAreNamed, ConfigurationsAssumption DEF Versions
<1>2. run \in Runs /\ run.step = "Find" /\ run.mode = mode /\ run.next = 1
      /\ run.verdict = NoVerdict
  BY <1>1 DEF NoRun, Runs, NoVerdict, Verdicts, Steps
<1> HIDE DEF run
<1>3. RunIsSound(run)
  BY <1>2, NewRunIsSound
<1>4. conf' = [conf EXCEPT ![c] = run] /\ UNCHANGED source
  BY DEF Start, run
<1> QED
  BY <1>2, <1>3, <1>4, OneRunChanges

\* The proof in hand is a registered one, with a key of its own.
LEMMA ProofInHand ==
    ASSUME Typed, RunsAreSound, NEW c \in Configurations,
           conf[c].step \in {"Cache", "Execute", "Copy", "Copied"}
    PROVE  LET p == Proofs[conf[c].next]
           IN  /\ conf[c].next \in DOMAIN Proofs /\ p \in Names /\ conf[c].mode \in Modes
               /\ conf[c].digest[p] \in Versions
               /\ CurrentKey(c) = <<p, conf[c].mode, conf[c].digest[p]>>
<1>1. conf[c] \in Runs /\ RunIsSound(conf[c])
  BY DEF Typed, RunsAreSound
<1>2. conf[c].next \in DOMAIN Proofs /\ conf[c].mode \in Modes
  BY <1>1 DEF RunIsSound, ProofInHandIsSound, Blank
<1>3. Proofs[conf[c].next] \in Names
  BY <1>2, ProofsAreNamed
<1> QED
  BY <1>1, <1>2, <1>3 DEF CurrentKey, Key, Runs

LEMMA HashKeepsRuns ==
    ASSUME Typed, RunsAreSound, NEW c \in Configurations, Hash(c)
    PROVE  conf' \in [Configurations -> Runs] /\ RunsAreSound'
<1> DEFINE run == conf[c]
           p == Proofs[run.next]
           step == IF run.cached THEN "Cache" ELSE "Execute"
           digests == [run.digest EXCEPT ![p] = source]
           new == [run EXCEPT !.digest = digests, !.step = step]
<1>1. run \in Runs /\ RunIsSound(run) /\ run.step = "Proof" /\ run.next \in DOMAIN Proofs
  BY DEF Typed, RunsAreSound, Hash, At
<1>2. p \in Names /\ run.verdict[p] = "none"
  <2>1. run.next \in Nat
    BY <1>1, ProofsAreNamed
  <2> QED
    BY <1>1, <2>1, ProofsAreNamed DEF RunIsSound, VerdictsAreSound
<1>3. /\ digests \in [Names -> Versions]
      /\ \A q \in Names : digests[q] = IF q = p THEN source ELSE run.digest[q]
  BY <1>1, <1>2 DEF Runs, Typed
<1>4. conf' = [conf EXCEPT ![c] = new] /\ UNCHANGED source
  BY DEF Hash, Typed
<1>5. step \in {"Cache", "Execute"} /\ step \in Steps
  BY DEF Steps
<1> HIDE DEF digests, step
<1>6. /\ new \in Runs /\ new.step \in {"Cache", "Execute"} /\ new.mode = run.mode
      /\ new.next = run.next /\ new.digest = digests /\ new.verdict = run.verdict
  BY <1>1, <1>3, <1>5 DEF Runs
<1> HIDE DEF new
<1>7. VerdictsAreSound(new)
  BY <1>1, <1>2, <1>3, <1>6 DEF RunIsSound, VerdictsAreSound
<1>8. ProofInHandIsSound(new)
  BY <1>1, <1>2, <1>3, <1>6 DEF ProofInHandIsSound
<1>9. RunIsSound(new)
  BY <1>1, <1>6, <1>7, <1>8 DEF RunIsSound, EndIsSound, Blank
<1> QED
  BY <1>4, <1>6, <1>9, OneRunChanges

LEMMA LookUpKeepsRuns ==
    ASSUME Typed, CacheIsSound, RunsAreSound, NEW c \in Configurations, LookUp(c)
    PROVE  conf' \in [Configurations -> Runs] /\ RunsAreSound'
<1> DEFINE p == Proofs[conf[c].next]
<1>1. conf[c].step = "Cache" /\ UNCHANGED source
  BY DEF LookUp, At
<1>2. CASE cache[CurrentKey(c)] = "complete"
  <2>1. Shown(p, conf[c].mode, conf[c].digest[p])
    BY <1>1, <1>2, ProofInHand DEF CacheIsSound
  <2>2. Conclude(c, "REUSED") /\ "REUSED" \in Verdicts \ {"none"}
    BY <1>2 DEF LookUp, Verdicts
  <2> QED
    BY <1>1, <2>1, <2>2, ConcludeKeepsRuns
<1>3. CASE cache[CurrentKey(c)] # "complete"
  <2> DEFINE run == conf[c]
             new == [run EXCEPT !.step = "Execute"]
  <2>1. run \in Runs /\ RunIsSound(run)
    BY DEF Typed, RunsAreSound
  <2>2. /\ new \in Runs /\ new.step = "Execute" /\ new.mode = run.mode /\ new.next = run.next
        /\ new.digest = run.digest /\ new.verdict = run.verdict
    BY <2>1 DEF Runs, Steps
  <2>3. conf' = [conf EXCEPT ![c] = new]
    BY <1>3 DEF LookUp, Goto
  <2> HIDE DEF new
  <2>4. RunIsSound(new)
    BY <1>1, <2>1, <2>2
    DEF RunIsSound, VerdictsAreSound, ProofInHandIsSound, EndIsSound, Blank
  <2> QED
    BY <1>1, <2>2, <2>3, <2>4, OneRunChanges
<1> QED
  BY <1>2, <1>3

LEMMA ExecuteKeepsRuns ==
    ASSUME Typed, RunsAreSound, NEW c \in Configurations, Execute(c)
    PROVE  conf' \in [Configurations -> Runs] /\ RunsAreSound'
<1> DEFINE run == conf[c]
           p == Proofs[run.next]
<1>1. run.step = "Execute" /\ UNCHANGED source
  BY DEF Execute, At
<1>2. run \in Runs /\ RunIsSound(run)
  BY DEF Typed, RunsAreSound
<1>3. EditsDuringProof \/ run.digest[p] = source
  BY <1>1, <1>2 DEF RunIsSound, ProofInHandIsSound
<1>4. CASE Conclude(c, "FAILED")
  BY <1>1, <1>4, ConcludeKeepsRuns DEF Verdicts
<1>5. CASE Holds(p, run.mode, source) /\ Conclude(c, "PASSED")
  <2>1. Shown(p, run.mode, run.digest[p])
    BY <1>3, <1>5 DEF Shown
  <2> QED
    BY <1>1, <1>5, <2>1, ConcludeKeepsRuns DEF Verdicts
<1>6. CASE Holds(p, run.mode, source) /\ Goto(c, "Copy")
  <2> DEFINE new == [run EXCEPT !.step = "Copy"]
  <2>1. Shown(p, run.mode, run.digest[p])
    BY <1>3, <1>6 DEF Shown
  <2>2. /\ new \in Runs /\ new.step = "Copy" /\ new.mode = run.mode /\ new.next = run.next
        /\ new.digest = run.digest /\ new.verdict = run.verdict
    BY <1>2 DEF Runs, Steps
  <2>3. conf' = [conf EXCEPT ![c] = new]
    BY <1>6 DEF Goto
  <2> HIDE DEF new
  <2>4. RunIsSound(new)
    BY <1>1, <1>2, <2>1, <2>2
    DEF RunIsSound, VerdictsAreSound, ProofInHandIsSound, EndIsSound, Blank
  <2> QED
    BY <1>1, <2>2, <2>3, <2>4, OneRunChanges
<1> QED
  BY <1>4, <1>5, <1>6 DEF Execute

LEMMA CopyKeepsRuns ==
    ASSUME Typed, RunsAreSound, NEW c \in Configurations, Copy(c)
    PROVE  conf' \in [Configurations -> Runs] /\ RunsAreSound'
<1> DEFINE run == conf[c]
           p == Proofs[run.next]
<1>1. run.step \in {"Copy", "Copied"} /\ UNCHANGED source
  BY DEF Copy, At
<1>2. run \in Runs /\ RunIsSound(run)
  BY DEF Typed, RunsAreSound
<1>3. Shown(p, run.mode, run.digest[p])
  BY <1>1, <1>2 DEF RunIsSound, ProofInHandIsSound
<1>4. CASE run.step = "Copied" /\ Conclude(c, "PASSED")
  BY <1>1, <1>3, <1>4, ConcludeKeepsRuns DEF Verdicts
<1>5. CASE run.step = "Copy" /\ Goto(c, "Copied")
  <2> DEFINE new == [run EXCEPT !.step = "Copied"]
  <2>1. /\ new \in Runs /\ new.step = "Copied" /\ new.mode = run.mode /\ new.next = run.next
        /\ new.digest = run.digest /\ new.verdict = run.verdict
    BY <1>2 DEF Runs, Steps
  <2>2. conf' = [conf EXCEPT ![c] = new]
    BY <1>5 DEF Goto
  <2> HIDE DEF new
  <2>3. RunIsSound(new)
    BY <1>2, <1>3, <1>5, <2>1
    DEF RunIsSound, VerdictsAreSound, ProofInHandIsSound, EndIsSound, Blank
  <2> QED
    BY <1>1, <2>1, <2>2, <2>3, OneRunChanges
<1> QED
  BY <1>4, <1>5 DEF Copy, At

LEMMA EndProofsKeepsRuns ==
    ASSUME Typed, RunsAreSound, NEW c \in Configurations, EndProofs(c)
    PROVE  conf' \in [Configurations -> Runs] /\ RunsAreSound'
<1> DEFINE run == conf[c]
           step == IF \E p \in Names : run.verdict[p] = "FAILED" THEN "Refused" ELSE "Passed"
           new == [run EXCEPT !.step = step]
<1>1. run \in Runs /\ RunIsSound(run) /\ run.step = "Proof" /\ run.next \notin DOMAIN Proofs
  BY DEF Typed, RunsAreSound, EndProofs, At
<1>2. conf' = [conf EXCEPT ![c] = new] /\ UNCHANGED source
  BY DEF EndProofs, Goto
<1>3. step \in {"Passed", "Refused"} /\ step \in Steps
  BY DEF Steps
<1>4. step = "Passed" => \A p \in Names : run.verdict[p] # "FAILED"
  OBVIOUS
<1> HIDE DEF step
<1>5. /\ new \in Runs /\ new.step = step /\ new.mode = run.mode /\ new.next = run.next
      /\ new.digest = run.digest /\ new.verdict = run.verdict
  BY <1>1, <1>3 DEF Runs
<1> HIDE DEF new
<1>6. RunIsSound(new)
  BY <1>1, <1>3, <1>4, <1>5
  DEF RunIsSound, VerdictsAreSound, ProofInHandIsSound, EndIsSound, Blank
<1> QED
  BY <1>2, <1>5, <1>6, OneRunChanges

LEMMA EditKeepsRuns ==
    ASSUME Typed, RunsAreSound, Edit
    PROVE  conf' \in [Configurations -> Runs] /\ RunsAreSound'
<1>1. UNCHANGED conf
  BY DEF Edit
<1>2. ASSUME NEW c \in Configurations PROVE RunIsSound(conf[c])'
  <2>1. RunIsSound(conf[c])
    BY DEF RunsAreSound
  <2>2. EditsDuringProof \/ conf[c].step \notin {"Cache", "Execute"}
    BY DEF Edit
  <2> QED
    BY <1>1, <2>1, <2>2 DEF RunIsSound, VerdictsAreSound, ProofInHandIsSound, EndIsSound
<1> QED
  BY <1>1, <1>2 DEF Typed, RunsAreSound

\* An installing or checking configuration touches no proof.
LEMMA ToolStepsKeepRuns ==
    ASSUME Typed, RunsAreSound, NEW c \in Configurations,
           Find(c) \/ Lock(c) \/ CheckLocked(c) \/ Download(c) \/ Move(c) \/ CheckTool(c)
    PROVE  conf' \in [Configurations -> Runs] /\ RunsAreSound'
<1>1. CASE Fail(c)
  BY <1>1, FailKeepsRuns
<1>2. CASE ~Fail(c)
  <2>1. conf[c].step \notin Blank /\ UNCHANGED source
    BY <1>2 DEF Find, Lock, CheckLocked, Download, Move, CheckTool, At, Blank
  <2>2. PICK step \in LockSteps \cup {"Unlocked", "Lock", "Version", "Proof"} : Goto(c, step)
    BY <1>2 DEF Find, Lock, CheckLocked, Download, Move, CheckTool, LockSteps
  <2> QED
    BY <2>1, <2>2, GotoKeepsRuns
<1> QED
  BY <1>1, <1>2

LEMMA RunsStep ==
    ASSUME Typed, CacheIsSound, RunsAreSound, [Next]_vars
    PROVE  conf' \in [Configurations -> Runs] /\ RunsAreSound'
<1>1. ASSUME NEW c \in Configurations, Step(c)
      PROVE  conf' \in [Configurations -> Runs] /\ RunsAreSound'
  BY <1>1, ToolStepsKeepRuns, HashKeepsRuns, LookUpKeepsRuns, ExecuteKeepsRuns, CopyKeepsRuns,
     EndProofsKeepsRuns DEF Step
<1>2. ASSUME NEW c \in Configurations, Kill(c)
      PROVE  conf' \in [Configurations -> Runs] /\ RunsAreSound'
  BY <1>2, FailKeepsRuns
<1>3. ASSUME NEW c \in Configurations, NEW mode \in Modes, NEW cached \in BOOLEAN,
             Start(c, mode, cached)
      PROVE  conf' \in [Configurations -> Runs] /\ RunsAreSound'
  BY <1>3, StartKeepsRuns
<1>4. CASE ChildrenEnd \/ UNCHANGED vars
  <2>1. ASSUME NEW c \in Configurations PROVE RunIsSound(conf[c])'
    BY <1>4 DEF ChildrenEnd, vars, RunsAreSound, RunIsSound, VerdictsAreSound, ProofInHandIsSound, EndIsSound
  <2> QED
    BY <1>4, <2>1 DEF ChildrenEnd, vars, Typed, RunsAreSound
<1> QED
  BY <1>1, <1>2, <1>3, <1>4, EditKeepsRuns DEF Next

-----------------------------------------------------------------------------
(* The cache and the installation *)

LEMMA CacheStep ==
    ASSUME Typed, CacheIsSound, RunsAreSound, [Next]_vars
    PROVE  /\ cache' \in [Names \X Modes \X Versions -> {"absent", "partial", "complete"}]
           /\ CacheIsSound'
<1>1. CASE UNCHANGED cache
  BY <1>1 DEF Typed, CacheIsSound
<1>2. ASSUME NEW c \in Configurations, Copy(c)
      PROVE  /\ cache' \in [Names \X Modes \X Versions -> {"absent", "partial", "complete"}]
             /\ CacheIsSound'
  <2> DEFINE p == Proofs[conf[c].next]
  <2>1. PICK log \in {"partial", "complete"} : cache' = [cache EXCEPT ![CurrentKey(c)] = log]
    BY <1>2 DEF Copy
  <2>2. conf[c].step \in {"Copy", "Copied"}
    BY <1>2 DEF Copy, At
  <2>3. Shown(p, conf[c].mode, conf[c].digest[p])
    BY <2>2 DEF RunsAreSound, RunIsSound, ProofInHandIsSound
  <2>4. CurrentKey(c) = <<p, conf[c].mode, conf[c].digest[p]>>
    BY <2>2, ProofInHand
  <2>5. cache' \in [Names \X Modes \X Versions -> {"absent", "partial", "complete"}]
    BY <2>1 DEF Typed
  <2>6. ASSUME NEW q \in Names, NEW m \in Modes, NEW v \in Versions,
               cache'[<<q, m, v>>] # "absent"
        PROVE  Shown(q, m, v)
    <3>1. CASE <<q, m, v>> = CurrentKey(c)
      BY <2>3, <2>4, <3>1
    <3>2. CASE <<q, m, v>> # CurrentKey(c)
      BY <2>1, <2>6, <3>2 DEF Typed, CacheIsSound
    <3> QED
      BY <3>1, <3>2
  <2> QED
    BY <2>5, <2>6 DEF CacheIsSound
<1> QED
  BY <1>1, <1>2
  DEF Next, Step, Find, Lock, CheckLocked, Download, Move, CheckTool, Hash, LookUp, Execute,
      EndProofs, Kill, Fail, Start, ChildrenEnd, Edit, vars

\* What a move of one configuration means for the others.
LEMMA OneConfigurationMoves ==
    ASSUME Typed, NEW c \in Configurations,
           NEW step, Goto(c, step) \/ ((Fail(c) \/ Kill(c)) /\ step = "Failed")
    PROVE  conf'[c].step = step /\ \A d \in Configurations \ {c} : conf'[d].step = conf[d].step
<1>1. CASE Goto(c, step)
  BY <1>1 DEF Goto, Typed, Runs
<1>2. CASE (Fail(c) \/ Kill(c)) /\ step = "Failed"
  BY <1>2 DEF Fail, Kill, NoRun, Typed
<1> QED
  BY <1>1, <1>2

\* A configuration that had the lock, or takes it, gives it up or keeps it.
LEMMA LockIsHandedOn ==
    ASSUME Typed, OneInstallation, NEW c \in Configurations, NEW step,
           conf'[c].step = step, \A d \in Configurations \ {c} : conf'[d].step = conf[d].step,
           install' \in {"absent", "incomplete", "complete"},
           install' # install => lock = c,
           step \in {"Download", "Move"} => install' = "absent",
           \/ step \in LockSteps /\ lock' = c /\ lock \in {c, Null}
           \/ step \notin LockSteps /\ Release(c)
           \/ step \notin LockSteps /\ lock = c /\ lock' = Children
    PROVE  lock' \in Configurations \cup {Children, Null} /\ OneInstallation'
<1>1. lock' \in Configurations \cup {Children, Null}
  BY DEF Release, Typed
<1>2. ASSUME NEW d \in Configurations PROVE conf'[d].step \in LockSteps <=> lock' = d
  <2>1. (conf[d].step \in LockSteps <=> lock = d) /\ d # Null /\ d # Children
    BY ConfigurationsAssumption DEF OneInstallation, OneInstallsAtATime
  <2>2. CASE d = c
    BY <2>1, <2>2 DEF Release
  <2>3. CASE d # c
    BY <2>1, <2>3 DEF Release
  <2> QED
    BY <2>2, <2>3
<1>3. ASSUME NEW d \in Configurations, conf'[d].step \in {"Download", "Move"}
      PROVE  install' = "absent"
  <2>1. CASE d # c
    <3>1. conf[d].step \in {"Download", "Move"} /\ install = "absent" /\ lock = d
      BY <1>3, <2>1 DEF OneInstallation, OneInstallsAtATime, LockSteps
    <3> QED
      BY <2>1, <3>1
  <2> QED
    BY <1>3, <2>1
<1> QED
  BY <1>1, <1>2, <1>3 DEF OneInstallation, OneInstallsAtATime

LEMMA LockIsReleased ==
    ASSUME Typed, OneInstallation, NEW c \in Configurations, NEW step, step \notin LockSteps,
           Goto(c, step) \/ ((Fail(c) \/ Kill(c)) /\ step = "Failed"), Release(c),
           install' \in {"absent", "incomplete", "complete"}, install' # install => lock = c
    PROVE  lock' \in Configurations \cup {Children, Null} /\ OneInstallation'
<1>1. conf'[c].step = step /\ \A d \in Configurations \ {c} : conf'[d].step = conf[d].step
  BY OneConfigurationMoves
<1>2. step \notin {"Download", "Move"}
  BY DEF LockSteps
<1> QED
  BY <1>1, <1>2, LockIsHandedOn

LEMMA LockIsKept ==
    ASSUME Typed, OneInstallation, NEW c \in Configurations, NEW step \in LockSteps,
           Goto(c, step), lock' = c, lock \in {c, Null}, install' = install,
           step # "Locked" => install = "absent"
    PROVE  lock' \in Configurations \cup {Children, Null} /\ OneInstallation'
<1>1. conf'[c].step = step /\ \A d \in Configurations \ {c} : conf'[d].step = conf[d].step
  BY OneConfigurationMoves
<1>2. install' \in {"absent", "incomplete", "complete"}
  BY DEF LockSteps, Typed
<1> QED
  BY <1>1, <1>2, LockIsHandedOn

\* A killed configuration leaves the lock, or leaves it to its children.
LEMMA LockOfTheKilled ==
    ASSUME Typed, OneInstallation, NEW c \in Configurations, Kill(c)
    PROVE  lock' \in Configurations \cup {Children, Null} /\ OneInstallation'
<1>1. conf'[c].step = "Failed" /\ \A d \in Configurations \ {c} : conf'[d].step = conf[d].step
  BY OneConfigurationMoves
<1>2. "Failed" \notin LockSteps /\ "Failed" \notin {"Download", "Move"} /\ install' = install
      /\ install \in {"absent", "incomplete", "complete"}
  BY DEF LockSteps, Kill, Typed
<1>3. CASE Release(c)
  BY <1>1, <1>2, <1>3, LockIsHandedOn
<1>4. CASE conf[c].step \in {"Locked", "Download"} /\ lock' = Children
  <2>1. lock = c
    BY <1>4 DEF OneInstallation, OneInstallsAtATime, LockSteps
  <2> QED
    BY <1>1, <1>2, <1>4, <2>1, LockIsHandedOn
<1> QED
  BY <1>3, <1>4 DEF Kill

LEMMA InstallationStep ==
    ASSUME Typed, OneInstallation, [Next]_vars
    PROVE  /\ install' \in {"absent", "incomplete", "complete"}
           /\ lock' \in Configurations \cup {Children, Null}
           /\ OneInstallation'
<1> DEFINE Goal == /\ install' \in {"absent", "incomplete", "complete"}
                   /\ lock' \in Configurations \cup {Children, Null}
                   /\ OneInstallation'
<1>0. /\ install \in {"absent", "incomplete", "complete"}
      /\ \A c \in Configurations :
           /\ conf[c].step \in LockSteps <=> lock = c
           /\ conf[c].step \in {"Download", "Move"} => install = "absent"
  BY DEF Typed, OneInstallation, OneInstallsAtATime
<1>1. ASSUME NEW c \in Configurations, Fail(c) PROVE Goal
  <2>1. install' = install /\ Release(c)
    BY <1>1 DEF Fail
  <2>2. "Failed" \notin LockSteps
    BY DEF LockSteps
  <2> QED
    BY <1>0, <1>1, <2>1, <2>2, LockIsReleased
<1>2. ASSUME NEW c \in Configurations, Find(c) PROVE Goal
  <2>1. PICK step \in {"Version", "Unlocked", "Lock"} : Goto(c, step)
    BY <1>2 DEF Find
  <2>2. install' = install /\ Release(c) /\ step \notin LockSteps
    BY <1>0, <1>2 DEF Find, At, LockSteps, Release
  <2> QED
    BY <1>0, <2>1, <2>2, LockIsReleased
<1>3. ASSUME NEW c \in Configurations, Lock(c) PROVE Goal
  <2>1. /\ Goto(c, "Locked") /\ lock' = c /\ lock = Null /\ install' = install
        /\ "Locked" \in LockSteps
    BY <1>3 DEF Lock, LockSteps
  <2> QED
    BY <1>0, <2>1, LockIsKept
<1>4. ASSUME NEW c \in Configurations, CheckLocked(c) PROVE Goal
  <2>1. CASE Fail(c)
    BY <1>1, <2>1
  <2>2. CASE install = "complete" /\ Release(c) /\ Goto(c, "Version") /\ install' = install
    <3>1. "Version" \notin LockSteps
      BY DEF LockSteps
    <3> QED
      BY <1>0, <2>2, <3>1, LockIsReleased
  <2>3. CASE install = "absent" /\ Goto(c, "Download") /\ UNCHANGED <<install, lock>>
    <3>1. lock = c /\ "Download" \in LockSteps
      BY <1>0, <1>4 DEF CheckLocked, At, LockSteps
    <3> QED
      BY <1>0, <2>3, <3>1, LockIsKept
  <2> QED
    BY <1>4, <2>1, <2>2, <2>3 DEF CheckLocked
<1>5. ASSUME NEW c \in Configurations, Download(c) PROVE Goal
  <2>1. CASE Fail(c)
    BY <1>1, <2>1
  <2>2. CASE Goto(c, "Move") /\ UNCHANGED <<install, lock>>
    <3>1. lock = c /\ install = "absent" /\ "Move" \in LockSteps
      BY <1>0, <1>5 DEF Download, At, LockSteps
    <3> QED
      BY <1>0, <2>2, <3>1, LockIsKept
  <2> QED
    BY <1>5, <2>1, <2>2 DEF Download
<1>6. ASSUME NEW c \in Configurations, Move(c) PROVE Goal
  <2>1. lock = c /\ install = "absent" /\ install' = "complete" /\ Release(c) /\ Goto(c, "Version")
    BY <1>0, <1>6 DEF Move, At, LockSteps
  <2>2. "Version" \notin LockSteps
    BY DEF LockSteps
  <2> QED
    BY <2>1, <2>2, LockIsReleased
<1>7. ASSUME NEW c \in Configurations, CheckTool(c) PROVE Goal
  <2>1. CASE Fail(c)
    BY <1>1, <2>1
  <2>2. CASE Goto(c, "Proof") /\ UNCHANGED <<install, lock>>
    <3>1. Release(c) /\ "Proof" \notin LockSteps
      BY <1>0, <1>7, <2>2 DEF CheckTool, At, LockSteps, Release
    <3> QED
      BY <1>0, <2>2, <3>1, LockIsReleased
  <2> QED
    BY <1>7, <2>1, <2>2 DEF CheckTool
<1>8. ASSUME NEW c \in Configurations,
             Hash(c) \/ LookUp(c) \/ Execute(c) \/ Copy(c) \/ EndProofs(c)
      PROVE  Goal
  <2>1. /\ UNCHANGED <<install, lock>>
        /\ conf[c].step \notin LockSteps /\ conf'[c].step \notin LockSteps
        /\ \A d \in Configurations \ {c} : conf'[d] = conf[d]
    BY <1>8
    DEF Hash, LookUp, Execute, Copy, EndProofs, Conclude, At, Goto, Typed, Runs, LockSteps
  <2> QED
    BY <1>0, <2>1 DEF OneInstallation, OneInstallsAtATime, LockSteps, Typed
<1>9. ASSUME NEW c \in Configurations, NEW mode \in Modes, NEW cached \in BOOLEAN,
             Start(c, mode, cached)
      PROVE  Goal
  <2>1. /\ UNCHANGED <<install, lock>>
        /\ conf[c].step \notin LockSteps /\ conf'[c].step = "Find"
        /\ \A d \in Configurations \ {c} : conf'[d] = conf[d]
    BY <1>9 DEF Start, Ended, NoRun, Typed, LockSteps
  <2> QED
    BY <1>0, <2>1 DEF OneInstallation, OneInstallsAtATime, LockSteps, Typed
<1>10. CASE UNCHANGED <<install, lock, conf>>
  BY <1>0, <1>10 DEF OneInstallation, OneInstallsAtATime, Typed
<1>11. ASSUME NEW c \in Configurations, Kill(c) PROVE Goal
  BY <1>0, <1>11, LockOfTheKilled DEF Kill
<1>12. CASE ChildrenEnd
  BY <1>0, <1>12, ConfigurationsAssumption
  DEF ChildrenEnd, OneInstallation, OneInstallsAtATime, Typed
<1> QED
  BY <1>1, <1>2, <1>3, <1>4, <1>5, <1>6, <1>7, <1>8, <1>9, <1>10, <1>11, <1>12
  DEF Next, Step, Edit, vars

-----------------------------------------------------------------------------
(* The theorems *)

LEMMA Initially == Init => Inv
<1> SUFFICES ASSUME Init PROVE Inv
  OBVIOUS
<1>1. \A c \in Configurations : conf[c] = NoRun("Idle")
  BY DEF Init
<1>2. NoRun("Idle") \in Runs /\ RunIsSound(NoRun("Idle"))
  BY NoRunIsSound DEF Blank
<1>3. Typed
  BY <1>2, ConfigurationsAssumption DEF Init, Typed, Versions
<1>4. OneInstallation
  BY <1>1, ConfigurationsAssumption
  DEF Init, OneInstallation, OneInstallsAtATime, LockSteps, NoRun
<1>5. CacheIsSound
  BY DEF Init, CacheIsSound
<1>6. RunsAreSound
  BY <1>1, <1>2 DEF RunsAreSound
<1> QED
  BY <1>3, <1>4, <1>5, <1>6 DEF Inv

LEMMA Invariance == Inv /\ [Next]_vars => Inv'
<1> SUFFICES ASSUME Inv, [Next]_vars PROVE Inv'
  OBVIOUS
<1>1. conf' \in [Configurations -> Runs] /\ RunsAreSound'
  BY RunsStep DEF Inv
<1>2. /\ cache' \in [Names \X Modes \X Versions -> {"absent", "partial", "complete"}]
      /\ CacheIsSound'
  BY CacheStep DEF Inv
<1>3. /\ install' \in {"absent", "incomplete", "complete"}
      /\ lock' \in Configurations \cup {Children, Null}
      /\ OneInstallation'
  BY InstallationStep DEF Inv
<1>4. source' \in Versions
  <2>1. CASE Edit
    BY <2>1, ConfigurationsAssumption DEF Edit, Inv, Typed, Versions
  <2>2. CASE UNCHANGED source
    BY <2>2 DEF Inv, Typed
  <2> QED
    BY <2>1, <2>2
    DEF Next, Step, Find, Lock, CheckLocked, Download, Move, CheckTool, Hash, LookUp, Execute,
        Copy, EndProofs, Kill, Fail, Start, ChildrenEnd, vars
<1> QED
  BY <1>1, <1>2, <1>3, <1>4 DEF Inv, Typed

LEMMA InvariantHolds == Spec => []Inv
BY Initially, Invariance, PTL DEF Spec

\* Every variable keeps its type; in particular no distribution is ever moved
\* into another, however many configurations install at once and whichever of
\* them are killed (install-esbmc.sh:40-77).
THEOREM TypeCorrect == Spec => []TypeOK
<1>1. Inv => TypeOK
  <2> SUFFICES ASSUME Inv PROVE TypeOK
    OBVIOUS
  <2>1. ASSUME NEW c \in Configurations
        PROVE  /\ conf[c].step \in Steps /\ conf[c].digest \in [Names -> Versions]
               /\ conf[c].next \in 1..Len(Proofs) + 1 /\ conf[c].verdict \in [Names -> Verdicts]
    BY DEF Inv, Typed, Runs
  <2> QED
    BY <2>1 DEF Inv, Typed, TypeOK, Steps, Blank, Verdicts
<1> QED
  BY <1>1, InvariantHolds, PTL

\* A configuration has the lock exactly between flock and exit, and it
\* downloads and moves only while there is nothing to replace
\* (install-esbmc.sh:44-77).
THEOREM InstallationExclusive == Spec => []OneInstallation
<1>1. Inv => OneInstallation
  BY DEF Inv
<1> QED
  BY <1>1, InvariantHolds, PTL

\* A gate that passes has shown every proof, by running it or by reusing what
\* any configuration stored before, if inputs do not change under a proof
\* (RunESBMCProofs.cmake:45-107).
THEOREM GateSound ==
    ASSUME ~EditsDuringProof
    PROVE  Spec => []GateIsSound
<1>1. Inv => GateIsSound
  <2> SUFFICES ASSUME Inv, NEW c \in Configurations,
                      conf[c].step \in {"Passed", "Refused"}, NEW p \in Names
               PROVE  /\ conf[c].verdict[p] # "none"
                      /\ conf[c].step = "Passed" =>
                           /\ conf[c].verdict[p] \in {"PASSED", "REUSED"}
                           /\ Holds(p, conf[c].mode, conf[c].digest[p])
    BY DEF GateIsSound
  <2>1. conf[c] \in Runs /\ RunIsSound(conf[c])
    BY DEF Inv, Typed, RunsAreSound
  <2>2. PICK i \in DOMAIN Proofs : p = Proofs[i]
    BY ProofsAreNamed
  <2>3. conf[c].next = Len(Proofs) + 1
    BY <2>1, ProofsAreNamed DEF Runs, RunIsSound, EndIsSound
  <2>4. conf[c].verdict[p] # "none"
    BY <2>1, <2>2, <2>3, ProofsAreNamed DEF RunIsSound, VerdictsAreSound
  <2>5. ASSUME conf[c].step = "Passed"
        PROVE  /\ conf[c].verdict[p] \in {"PASSED", "REUSED"}
               /\ Holds(p, conf[c].mode, conf[c].digest[p])
    <3>1. conf[c].verdict[p] \in Verdicts \ {"none", "FAILED"}
      BY <2>1, <2>4, <2>5 DEF Runs, RunIsSound, EndIsSound
    <3>2. Shown(p, conf[c].mode, conf[c].digest[p])
      BY <2>1, <3>1 DEF RunIsSound, VerdictsAreSound, Verdicts
    <3> QED
      BY <3>1, <3>2 DEF Shown, Verdicts
  <2> QED
    BY <2>4, <2>5
<1> QED
  BY <1>1, InvariantHolds, PTL
=============================================================================
