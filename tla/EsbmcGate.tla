------------------------------ MODULE EsbmcGate ------------------------------
(***************************************************************************)
(* The ESBMC gate of a CMake configuration: find or install the tool       *)
(* (cmake/ESBMC.cmake, scripts/install-esbmc.sh) and run the registered    *)
(* proofs with their cache of results (cmake/RunESBMCProofs.cmake).        *)
(*                                                                         *)
(* Configurations run side by side on one installation directory, one cache*)
(* and the same sources, which are edited meanwhile.  The cache key hashes *)
(* the inputs and the command; a hash stands for what it was taken of.     *)
(***************************************************************************)
EXTENDS Naturals, Sequences

CONSTANTS
    Null,             \* no configuration
    Configurations,   \* build directories
    Children,         \* the commands a killed installer leaves behind
    Modes,            \* exception modes, part of the command of a proof
    Proofs,           \* the registered proofs, in order: a sequence
    MaxVersion,       \* BOUND: versions of the inputs of the proofs
    MaxActions,       \* BOUND: configurations started and edits made in all
    Holds(_, _, _),   \* does this proof succeed, in this mode, on this version?
    EditsDuringProof  \* may inputs change between being hashed and being verified?

Names == {Proofs[i] : i \in DOMAIN Proofs}

ASSUME ConfigurationsAssumption ==
    /\ Null \notin Configurations /\ Children \notin Configurations \cup {Null}
    /\ Proofs \in Seq(Names) /\ \A i, j \in DOMAIN Proofs : Proofs[i] = Proofs[j] => i = j
    /\ MaxVersion \in Nat \ {0} /\ MaxActions \in Nat /\ EditsDuringProof \in BOOLEAN

VARIABLES
    install, \* the directory: absent, incomplete, complete, or a distribution inside another
    lock,    \* who has the lock file locked: a configuration, Children, or Null
    source,  \* the version of the inputs of the proofs
    cache,   \* per key, the cached log: absent, partial or complete
    conf,    \* the configurations
    actions  \* HISTORY: how many were started, and edits made

vars == <<install, lock, source, cache, conf, actions>>

Versions == 1..MaxVersion

NoVerdict == [p \in Names |-> "none"]

NoRun(step) ==
    [step |-> step, mode |-> Null, cached |-> FALSE, next |-> 1,
     digest |-> [p \in Names |-> 1], verdict |-> NoVerdict]

Init ==
    /\ install \in {"absent", "incomplete", "complete"}
    /\ lock = Null
    /\ source = 1
    /\ cache = [key \in Names \X Modes \X Versions |-> "absent"]
    /\ conf = [c \in Configurations |-> NoRun("Idle")]
    /\ actions = 0

Ended(c) == conf[c].step \in {"Idle", "Passed", "Refused", "Failed"}

At(c, step) == conf[c].step = step
Goto(c, step) == conf' = [conf EXCEPT ![c].step = step]

\* The kernel releases a lock when the last process that has the file open ends.
Release(c) == lock' = IF lock = c THEN Null ELSE lock

\* MUTANT: something the installer started keeps the lock file open.
Fail_KeepsLock(c) ==
    conf' = [conf EXCEPT ![c] = NoRun("Failed")] /\ UNCHANGED <<install, lock, source, cache, actions>>

\* A fatal error.
Fail(c) ==
    /\ conf' = [conf EXCEPT ![c] = NoRun("Failed")]
    /\ Release(c)
    /\ UNCHANGED <<install, source, cache, actions>>

-----------------------------------------------------------------------------
(* Finding and installing *)

Start(c, mode, cached) ==
    /\ Ended(c) /\ actions < MaxActions
    /\ conf' = [conf EXCEPT ![c] = [NoRun("Find") EXCEPT !.mode = mode, !.cached = cached]]
    /\ actions' = actions + 1
    /\ UNCHANGED <<install, lock, source, cache>>

\* find_program, and again at the start of the installer.
Find(c) ==
    /\ \/ At(c, "Find") /\ Goto(c, IF install = "complete" THEN "Version" ELSE "Unlocked")
       \/ At(c, "Unlocked") /\ Goto(c, IF install = "complete" THEN "Version" ELSE "Lock")
    /\ UNCHANGED <<install, lock, source, cache, actions>>

Lock(c) ==
    /\ At(c, "Lock") /\ lock = Null
    /\ lock' = c
    /\ Goto(c, "Locked")
    /\ UNCHANGED <<install, source, cache, actions>>

\* MUTANT: what was checked before the lock is not checked again.
CheckLocked_Trusts(c) ==
    /\ At(c, "Locked")
    /\ Goto(c, "Download")
    /\ UNCHANGED <<install, lock, source, cache, actions>>

CheckLocked(c) ==
    /\ At(c, "Locked")
    /\ \/ /\ install = "complete" /\ Release(c) /\ Goto(c, "Version")
          /\ UNCHANGED <<install, source, cache, actions>>
       \/ /\ install = "absent" /\ Goto(c, "Download")
          /\ UNCHANGED <<install, lock, source, cache, actions>>
       \/ install \notin {"absent", "complete"} /\ Fail(c)

\* Download, checksum, unpacking and a first start, in a directory of its own.
Download(c) ==
    /\ At(c, "Download")
    /\ \/ Goto(c, "Move") /\ UNCHANGED <<install, lock, source, cache, actions>>
       \/ Fail(c)

\* mv moves into a directory that exists.
Move(c) ==
    /\ At(c, "Move")
    /\ install' = IF install = "absent" THEN "complete" ELSE "nested"
    /\ Release(c)
    /\ Goto(c, "Version")
    /\ UNCHANGED <<source, cache, actions>>

\* The executable is looked up once more, and its version and solvers asked.
CheckTool(c) ==
    /\ At(c, "Version")
    /\ \/ install = "complete" /\ Goto(c, "Proof")
          /\ UNCHANGED <<install, lock, source, cache, actions>>
       \/ Fail(c)

-----------------------------------------------------------------------------
(* Running the proofs *)

\* MUTANT: the command is left out of the key.
Key_WithoutCommand(p, mode, version) == <<p, CHOOSE m \in Modes : TRUE, version>>

Key(p, mode, version) == <<p, mode, version>>

CurrentKey(c) ==
    LET p == Proofs[conf[c].next] IN Key(p, conf[c].mode, conf[c].digest[p])

\* The verdict on the current proof is known; on with the next one.
Conclude(c, verdict) ==
    conf' = [conf EXCEPT ![c].verdict[Proofs[conf[c].next]] = verdict,
                         ![c].next = @ + 1, ![c].step = "Proof"]

Hash(c) ==
    /\ At(c, "Proof") /\ conf[c].next \in DOMAIN Proofs
    /\ LET p == Proofs[conf[c].next]
       IN  conf' = [conf EXCEPT ![c].digest[p] = source,
                                ![c].step = IF conf[c].cached THEN "Cache" ELSE "Execute"]
    /\ UNCHANGED <<install, lock, source, cache, actions>>

\* Only a whole log of a success is evidence.
LookUp(c) ==
    /\ At(c, "Cache")
    /\ IF cache[CurrentKey(c)] = "complete" THEN Conclude(c, "REUSED") ELSE Goto(c, "Execute")
    /\ UNCHANGED <<install, lock, source, cache, actions>>

\* ESBMC reads the inputs as they are now.  A success is copied to the cache;
\* anything else, a timeout too, is a failure and is not.
Execute(c) ==
    /\ At(c, "Execute")
    /\ LET p == Proofs[conf[c].next]
       IN  \/ /\ Holds(p, conf[c].mode, source)
              /\ IF conf[c].cached THEN Goto(c, "Copy") ELSE Conclude(c, "PASSED")
           \/ Conclude(c, "FAILED")
    /\ UNCHANGED <<install, lock, source, cache, actions>>

\* file(COPY_FILE) is not atomic.
Copy(c) ==
    /\ \/ /\ At(c, "Copy") /\ cache' = [cache EXCEPT ![CurrentKey(c)] = "partial"]
          /\ Goto(c, "Copied")
       \/ /\ At(c, "Copied") /\ cache' = [cache EXCEPT ![CurrentKey(c)] = "complete"]
          /\ Conclude(c, "PASSED")
    /\ UNCHANGED <<install, lock, source, actions>>

\* Every proof is attempted; then any failure is fatal.
EndProofs(c) ==
    /\ At(c, "Proof") /\ conf[c].next \notin DOMAIN Proofs
    /\ Goto(c, IF \E p \in Names : conf[c].verdict[p] = "FAILED" THEN "Refused" ELSE "Passed")
    /\ UNCHANGED <<install, lock, source, cache, actions>>

-----------------------------------------------------------------------------
\* The user ends a configuration, at any moment.  What the installer had just
\* started, curl or unzip, may live on, and has inherited the lock file.  (A
\* configuration whose installer lives on itself is one that is killed later.)
Kill(c) ==
    /\ ~Ended(c)
    /\ conf' = [conf EXCEPT ![c] = NoRun("Failed")]
    /\ \/ Release(c)
       \/ conf[c].step \in {"Locked", "Download"} /\ lock' = Children
    /\ UNCHANGED <<install, source, cache, actions>>

\* They work in the directory of the dead installer and end: --max-time.
ChildrenEnd ==
    /\ lock = Children /\ lock' = Null
    /\ UNCHANGED <<install, source, cache, conf, actions>>

\* Inputs of the proofs change, or are restored.
Edit ==
    /\ actions < MaxActions /\ actions' = actions + 1
    /\ EditsDuringProof \/ ~\E c \in Configurations : conf[c].step \in {"Cache", "Execute"}
    /\ source' \in Versions \ {source}
    /\ UNCHANGED <<install, lock, cache, conf>>

Step(c) ==
    \/ Find(c) \/ Lock(c) \/ CheckLocked(c) \/ Download(c) \/ Move(c) \/ CheckTool(c)
    \/ Hash(c) \/ LookUp(c) \/ Execute(c) \/ Copy(c) \/ EndProofs(c)

Next ==
    \/ \E c \in Configurations :
         \/ Step(c) \/ Kill(c)
         \/ \E mode \in Modes, cached \in BOOLEAN : Start(c, mode, cached)
    \/ ChildrenEnd \/ Edit

\* A configuration that runs keeps running, and flock serves those that wait.
Fairness == WF_vars(ChildrenEnd) /\ \A c \in Configurations : WF_vars(Step(c))

Spec == Init /\ [][Next]_vars /\ Fairness

-----------------------------------------------------------------------------
(* Properties *)

LockSteps == {"Locked", "Download", "Move"}

\* Types; a distribution is never moved into another directory.
TypeOK ==
    /\ install \in {"absent", "incomplete", "complete"}
    /\ lock \in Configurations \cup {Children, Null}
    /\ source \in Versions
    /\ cache \in [Names \X Modes \X Versions -> {"absent", "partial", "complete"}]
    /\ \A c \in Configurations :
         /\ conf[c].step \in {"Idle", "Find", "Unlocked", "Lock", "Version", "Proof", "Cache",
                              "Execute", "Copy", "Copied", "Passed", "Refused", "Failed"}
                             \cup LockSteps
         /\ conf[c].digest \in [Names -> Versions]
         /\ conf[c].next \in 1..Len(Proofs) + 1
         /\ conf[c].verdict \in [Names -> {"none", "PASSED", "FAILED", "REUSED"}]

\* A configuration that installs has the lock, and none that does not has it.
OneInstallsAtATime ==
    \A c \in Configurations : conf[c].step \in LockSteps <=> lock = c

\* Of configurations that install at once one downloads, the others take what
\* it installed, and what is there, complete or not, is never replaced.
OneInstallation ==
    /\ OneInstallsAtATime
    /\ \A c \in Configurations : conf[c].step \in {"Download", "Move"} => install = "absent"

\* A gate that passes has a verdict for every proof, and each holds of the
\* inputs that were hashed, in the mode of this configuration, whether ESBMC was
\* run or a result reused, whoever stored it and whatever interrupted them.  A
\* gate that refuses has attempted every proof.
GateIsSound ==
    \A c \in Configurations :
        LET run == conf[c]
        IN  /\ run.step = "Passed" =>
                 \A p \in Names : /\ run.verdict[p] \in {"PASSED", "REUSED"}
                                  /\ Holds(p, run.mode, run.digest[p])
            /\ run.step = "Refused" => \A p \in Names : run.verdict[p] # "none"

\* Every configuration ends, in particular one that waits for the lock while
\* another installs, fails or is killed and leaves commands behind.
EveryConfigurationEnds == \A c \in Configurations : ~Ended(c) ~> Ended(c)
=============================================================================
