-------------------------- MODULE QemuSessionProofs --------------------------
(***************************************************************************)
(* Proofs about QemuSession: its types for any scripts at a time, and for  *)
(* one script at a time over an SSH connection that works while the guest  *)
(* is up, that every process of a debug session is recorded and that       *)
(* disable ends the session.                                               *)
(***************************************************************************)
EXTENDS QemuSession, TLAPS

DisableSteps ==
    {"ReadTunnelFile", "Kill", "Forget", "DisableCheck", "FindGdbserver", "KillGdbserver",
     "ForgetGdbserver"}

DeploySteps == {"DeployCheck", "DeploySsh", "Copy"}

\* A script knows a tunnel here: the one it has read or started.
TunnelSteps == {"CheckTunnel", "WriteTunnelFile", "Kill"}

Steps ==
    {"StartCheck", "NewSession", "AwaitSsh", "StopCheck", "PowerOff", "AwaitStop",
     "EnableCheck", "EnableSsh", "CheckTunnelFile", "DropTunnelFile", "CheckPort", "CheckGuest",
     "StartGdbserver", "CheckGdbserver", "StartTunnel", "GiveUp"}
    \cup DisableSteps \cup DeploySteps \cup TunnelSteps

ScriptTypes ==
    [name : Names \cup {"none"}, step : Steps \cup {"Idle"}, binary : Binaries \cup {None},
     tunnel : Nat \cup {None}, reached : BOOLEAN, alone : BOOLEAN]

\* The processes and files, whatever the scripts do.
ProcessesAreTyped ==
    /\ spawned \in Nat
    /\ vm \in {"absent", "booting", "up", "halting"}
    /\ gdbservers \in SUBSET [pid : 1..spawned, binary : Binaries]
    /\ tunnels \in SUBSET (1..spawned)
    /\ listening \in Pids \cup {None} /\ forwarding \in tunnels \cup {None}
    /\ guestPidFile \in 1..spawned \cup {None} /\ tunnelPidFile \in 1..spawned \cup {None}
    /\ vm = "absent" => gdbservers = {} /\ guestPidFile = None

ScriptsAreTyped ==
    /\ script \in [Slots -> ScriptTypes]
    /\ \A s \in Slots :
         /\ script[s].step # "Idle" => script[s].name \in Names /\ script[s].binary \in Binaries
         /\ script[s].step \in TunnelSteps => script[s].tunnel \in 1..spawned

\* What a step makes of its script.
Exits(s) == script' = [script EXCEPT ![s] = Idle]
GoesTo(s, step) == script' = [script EXCEPT ![s].step = step]

Bounded == started \in 0..MaxScripts /\ interrupts \in 0..MaxInterrupts

Typed == ProcessesAreTyped /\ ScriptsAreTyped /\ Bounded

-----------------------------------------------------------------------------
(* Types *)

LEMMA IdleIsTyped == Idle \in ScriptTypes /\ Idle.step = "Idle"
BY DEF Idle, ScriptTypes

LEMMA InitTyped == Init => Typed
BY IdleIsTyped, QemuAssumption
   DEF Init, Typed, ProcessesAreTyped, ScriptsAreTyped, Bounded, Pids, TunnelSteps

\* A script goes on to another step.
LEMMA ThenTyped ==
    ASSUME Typed, NEW s \in Slots, script[s].step # "Idle", NEW step \in Steps,
           script' = [script EXCEPT ![s].step = step], spawned' \in Nat, spawned' >= spawned,
           step \in TunnelSteps => script[s].tunnel \in 1..spawned
    PROVE  ScriptsAreTyped'
<1>1. script' \in [Slots -> ScriptTypes]
  BY DEF Typed, ScriptsAreTyped, ScriptTypes
<1>2. script'[s].step = step /\ script'[s].name = script[s].name /\ script'[s].binary = script[s].binary
      /\ script'[s].tunnel = script[s].tunnel
  BY DEF Typed, ScriptsAreTyped, ScriptTypes
<1>3. \A t \in Slots : t # s => script'[t] = script[t]
  BY DEF Typed, ScriptsAreTyped
<1> QED
  BY <1>1, <1>2, <1>3 DEF Typed, ScriptsAreTyped, ProcessesAreTyped

\* A script ends.
LEMMA ExitTyped ==
    ASSUME Typed, NEW s \in Slots, script' = [script EXCEPT ![s] = Idle],
           spawned' \in Nat, spawned' >= spawned
    PROVE  ScriptsAreTyped'
<1>1. script' \in [Slots -> ScriptTypes]
  BY IdleIsTyped DEF Typed, ScriptsAreTyped
<1>2. script'[s] = Idle /\ \A t \in Slots : t # s => script'[t] = script[t]
  BY DEF Typed, ScriptsAreTyped
<1> QED
  BY <1>1, <1>2, IdleIsTyped DEF Typed, ScriptsAreTyped, ProcessesAreTyped, TunnelSteps

\* The steps that only read, and go on or exit.
LEMMA ReadingTyped ==
    ASSUME Typed, NEW s \in Slots, script[s].step # "Idle", UNCHANGED <<guest, host, spawned, counters>>,
           NEW step \in Steps \ TunnelSteps,
           \/ script' = [script EXCEPT ![s].step = step]
           \/ script' = [script EXCEPT ![s] = Idle]
    PROVE  Typed'
<1>1. spawned' \in Nat /\ spawned' >= spawned
  BY DEF Typed, ProcessesAreTyped
<1>2. ScriptsAreTyped'
  BY <1>1, ThenTyped, ExitTyped
<1> QED
  BY <1>2 DEF Typed, ProcessesAreTyped, Bounded, guest, host, counters, Pids

LEMMA DecideTyped ==
    ASSUME Typed, NEW s \in Slots, NEW from \in Steps, NEW condition, NEW step \in Steps \ TunnelSteps,
           NEW status, Decide(s, from, condition, step, status)
    PROVE  Typed'
BY ReadingTyped DEF Decide, At, Then, Exit, ExitReaching, Steps, DisableSteps, DeploySteps, TunnelSteps

LEMMA SshOrExitTyped ==
    ASSUME Typed, NEW s \in Slots, NEW from \in Steps, NEW step \in Steps \ TunnelSteps,
           SshOrExit(s, from, step)
    PROVE  Typed'
BY ReadingTyped DEF SshOrExit, At, Then, Exit, ExitReaching, Steps, DisableSteps, DeploySteps, TunnelSteps

\* Killing processes, and the end of the guest.
LEMMA KillGdbserverTyped ==
    ASSUME ProcessesAreTyped, NEW pid, KillGdbserver(pid), spawned' = spawned
    PROVE  /\ gdbservers' \in SUBSET [pid : 1..spawned', binary : Binaries]
           /\ listening' \in Pids' \cup {None}
           /\ gdbservers' \subseteq gdbservers
BY DEF ProcessesAreTyped, KillGdbserver, Pids

LEMMA KillTunnelTyped ==
    ASSUME ProcessesAreTyped, NEW p, KillTunnel(p), spawned' = spawned
    PROVE  /\ tunnels' \in SUBSET (1..spawned') /\ tunnels' \subseteq tunnels
           /\ forwarding' \in tunnels' \cup {None}
BY DEF ProcessesAreTyped, KillTunnel

LEMMA GuestGoneTyped ==
    ASSUME ProcessesAreTyped, GuestGone, UNCHANGED <<host, spawned>>
    PROVE  ProcessesAreTyped'
BY DEF ProcessesAreTyped, GuestGone, host, Pids

\* What the guest and the processes do by themselves.
LEMMA EnvironmentTyped == ASSUME Typed, Environment PROVE Typed'
<1>1. UNCHANGED <<script, spawned, counters>>
  BY DEF Environment, Booted, QemuExits, GdbserverListens, GdbserverExits, TunnelForwards, TunnelExits
<1>2. ScriptsAreTyped' /\ Bounded'
  BY <1>1 DEF Typed, ScriptsAreTyped, Bounded, counters
<1>3. ProcessesAreTyped'
  <2> USE <1>1 DEF Typed
  <2>1. CASE Booted
    BY <2>1 DEF Booted, ProcessesAreTyped, host, Pids
  <2>2. CASE QemuExits
    BY <2>2, GuestGoneTyped DEF QemuExits
  <2>3. ASSUME NEW g \in gdbservers, GdbserverListens(g) PROVE ProcessesAreTyped'
    BY <2>3 DEF GdbserverListens, ProcessesAreTyped, host, Pids
  <2>4. ASSUME NEW g \in gdbservers, GdbserverExits(g) PROVE ProcessesAreTyped'
    BY <2>4, KillGdbserverTyped DEF GdbserverExits, ProcessesAreTyped, host
  <2>5. ASSUME NEW p \in tunnels, TunnelForwards(p) PROVE ProcessesAreTyped'
    <3>1. tunnels' \in SUBSET (1..spawned') /\ forwarding' \in tunnels' \cup {None}
      <4>1. CASE forwarding = None
        <5>1. forwarding' = p /\ tunnels' = tunnels
          BY <2>5, <4>1, Zenon DEF TunnelForwards
        <5>2. tunnels \in SUBSET (1..spawned) /\ spawned' = spawned
          BY DEF ProcessesAreTyped
        <5> QED
          BY <5>1, <5>2
      <4>2. CASE forwarding # None
        BY <2>5, <4>2, KillTunnelTyped DEF TunnelForwards
      <4> QED
        BY <4>1, <4>2
    <3> QED
      BY <2>5, <3>1 DEF TunnelForwards, ProcessesAreTyped, guest, Pids
  <2>6. ASSUME NEW p \in tunnels, TunnelExits(p) PROVE ProcessesAreTyped'
    BY <2>6, KillTunnelTyped DEF TunnelExits, ProcessesAreTyped, guest, Pids
  <2> QED
    BY <2>1, <2>2, <2>3, <2>4, <2>5, <2>6 DEF Environment
<1> QED
  BY <1>2, <1>3 DEF Typed

\* The user starts or kills a script.
LEMMA UserTyped ==
    ASSUME Typed, NEW s \in Slots,
           Interrupt(s) \/ \E name \in Names, binary \in Binaries : Run(s, name, binary)
    PROVE  Typed'
<1>1. UNCHANGED <<guest, host, spawned>>
  BY DEF Interrupt, Run
<1>2. ProcessesAreTyped' /\ spawned' \in Nat /\ spawned' >= spawned
  BY <1>1 DEF Typed, ProcessesAreTyped, guest, host, Pids
<1>3. Bounded'
  <2>1. \/ started < MaxScripts /\ started' = started + 1 /\ interrupts' = interrupts
        \/ interrupts < MaxInterrupts /\ interrupts' = interrupts + 1 /\ started' = started
    BY DEF Interrupt, Run
  <2> QED
    BY <2>1, QemuAssumption DEF Typed, Bounded
<1>4. CASE Interrupt(s)
  BY <1>2, <1>3, <1>4, ExitTyped DEF Interrupt, Typed
<1>5. ASSUME NEW name \in Names, NEW binary \in Binaries, Run(s, name, binary) PROVE ScriptsAreTyped'
  <2> DEFINE new == script'[s]
  <2>1. FirstStep[name] \in Steps \ TunnelSteps
    BY DEF FirstStep, Names, Steps, DisableSteps, DeploySteps, TunnelSteps
  <2>2. new \in ScriptTypes /\ new.name = name /\ new.binary = binary /\ new.step = FirstStep[name]
    BY <1>5, <2>1 DEF Run, ScriptTypes, Idle
  <2>3. \A t \in Slots : t # s => script'[t] = [script[t] EXCEPT !.alone = FALSE]
    BY <1>5 DEF Run
  <2>4. ASSUME NEW t \in Slots, t # s
        PROVE  script'[t] \in ScriptTypes /\ script'[t].step = script[t].step
               /\ script'[t].name = script[t].name /\ script'[t].binary = script[t].binary
               /\ script'[t].tunnel = script[t].tunnel
    <3>1. script[t] \in ScriptTypes
      BY DEF Typed, ScriptsAreTyped
    <3> QED
      BY <2>3, <2>4, <3>1 DEF ScriptTypes
  <2>5. script' = [t \in Slots |-> script'[t]]
    BY <1>5 DEF Run
  <2> HIDE DEF new
  <2>6. script' \in [Slots -> ScriptTypes]
    BY <2>2, <2>4, <2>5 DEF new
  <2> QED
    BY <1>1, <2>1, <2>2, <2>4, <2>6 DEF Typed, ScriptsAreTyped, new
<1> QED
  BY <1>2, <1>3, <1>4, <1>5 DEF Typed

\* A step that keeps the processes typed and goes on or exits.
LEMMA StepTyped ==
    ASSUME Typed, NEW s \in Slots, script[s].step # "Idle", UNCHANGED counters,
           ProcessesAreTyped', spawned' >= spawned,
           \/ Exits(s)
           \/ \E step \in Steps : /\ GoesTo(s, step)
                                  /\ step \in TunnelSteps => script[s].tunnel \in 1..spawned
    PROVE  Typed'
<1>1. spawned' \in Nat
  BY DEF ProcessesAreTyped
<1>2. CASE Exits(s)
  BY <1>1, <1>2, ExitTyped DEF Exits, Typed, Bounded, counters
<1>3. ASSUME NEW step \in Steps, GoesTo(s, step),
             step \in TunnelSteps => script[s].tunnel \in 1..spawned
      PROVE  Typed'
  BY <1>1, <1>3, ThenTyped DEF GoesTo, Typed, Bounded, counters
<1> QED
  BY <1>2, <1>3

\* The commands that read, and go on or exit.
LEMMA ReadersTyped ==
    ASSUME Typed, NEW s \in Slots,
           \/ StartCheck(s) \/ AwaitSsh(s) \/ StopCheck(s) \/ DeployCheck(s) \/ DeploySsh(s)
           \/ Copy(s) \/ EnableCheck(s) \/ EnableSsh(s) \/ CheckTunnelFile(s) \/ CheckPort(s)
           \/ CheckGuest(s) \/ CheckGdbserver(s) \/ DisableCheck(s)
    PROVE  Typed'
<1> USE DEF Steps, DisableSteps, DeploySteps, TunnelSteps
<1>1. CASE StartCheck(s) \/ StopCheck(s) \/ DeployCheck(s) \/ EnableCheck(s) \/ CheckPort(s)
  BY <1>1, DecideTyped DEF StartCheck, StopCheck, DeployCheck, EnableCheck, CheckPort
<1>2. CASE DeploySsh(s) \/ EnableSsh(s)
  BY <1>2, SshOrExitTyped DEF DeploySsh, EnableSsh
<1>3. CASE AwaitSsh(s) \/ Copy(s) \/ CheckTunnelFile(s) \/ CheckGuest(s) \/ CheckGdbserver(s)
           \/ DisableCheck(s)
  <2>1. /\ script[s].step # "Idle" /\ UNCHANGED <<guest, host, spawned, counters>>
        /\ \/ script' = [script EXCEPT ![s] = Idle]
           \/ \E step \in Steps \ TunnelSteps : script' = [script EXCEPT ![s].step = step]
    BY <1>3 DEF AwaitSsh, Copy, CheckTunnelFile, CheckGuest, CheckGdbserver, DisableCheck, At,
                Then, Exit, ExitReaching
  <2> QED
    BY <2>1, ReadingTyped
<1> QED
  BY <1>1, <1>2, <1>3

\* start-development-image.sh and stop-development-image.sh.
LEMMA ImageStepsTyped ==
    ASSUME Typed, NEW s \in Slots, NewSession(s) \/ PowerOff(s) \/ AwaitStop(s)
    PROVE  Typed'
<1>0. ASSUME KillSession(s)
      PROVE  (GuestGone \/ UNCHANGED guest) /\ Exits(s) /\ UNCHANGED counters
  BY <1>0 DEF KillSession, Exit, ExitReaching, Exits
<1>1. /\ UNCHANGED <<host, spawned, counters>> /\ script[s].step # "Idle"
      /\ Exits(s) \/ GoesTo(s, "AwaitSsh") \/ GoesTo(s, "PowerOff") \/ GoesTo(s, "AwaitStop")
  <2> USE DEF At, Then, Exit, ExitReaching, Exits, GoesTo
  <2>1. CASE NewSession(s)
    BY <2>1 DEF NewSession
  <2>2. CASE PowerOff(s)
    BY <1>0, <2>2 DEF PowerOff
  <2>3. CASE AwaitStop(s)
    BY <1>0, <2>3 DEF AwaitStop
  <2> QED
    BY <2>1, <2>2, <2>3
<1>2. \/ UNCHANGED guest
      \/ GuestGone
      \/ vm' \in {"booting", "halting"} /\ UNCHANGED <<gdbservers, listening, guestPidFile>>
  <2>1. CASE NewSession(s)
    BY <2>1 DEF NewSession, guest
  <2>2. CASE PowerOff(s)
    BY <1>0, <2>2 DEF PowerOff
  <2>3. CASE AwaitStop(s)
    BY <1>0, <2>3 DEF AwaitStop
  <2> QED
    BY <2>1, <2>2, <2>3
<1>3. ProcessesAreTyped'
  <2>1. CASE UNCHANGED guest
    BY <1>1, <2>1 DEF Typed, ProcessesAreTyped, guest, host, Pids
  <2>2. CASE GuestGone
    BY <1>1, <2>2, GuestGoneTyped DEF Typed
  <2>3. CASE vm' \in {"booting", "halting"} /\ UNCHANGED <<gdbservers, listening, guestPidFile>>
    BY <1>1, <2>3 DEF Typed, ProcessesAreTyped, host, Pids
  <2> QED
    BY <1>2, <2>1, <2>2, <2>3
<1>4. spawned' >= spawned
  BY <1>1 DEF Typed, ProcessesAreTyped
<1> QED
  BY <1>1, <1>3, <1>4, StepTyped DEF Steps, TunnelSteps

\* The steps of enable-debug-session.sh that write.
LEMMA EnableStepsTyped ==
    ASSUME Typed, NEW s \in Slots,
           \/ DropTunnelFile(s) \/ StartGdbserver(s) \/ StartTunnel(s) \/ CheckTunnel(s)
           \/ GiveUp(s) \/ WriteTunnelFile(s)
    PROVE  Typed'
<1>0. spawned \in Nat /\ ProcessesAreTyped /\ ScriptsAreTyped
  BY DEF Typed, ProcessesAreTyped
<1>1. CASE DropTunnelFile(s)
  <2>1. ProcessesAreTyped'
    BY <1>1 DEF DropTunnelFile, Typed, ProcessesAreTyped, guest, Pids
  <2>2. /\ script[s].step # "Idle" /\ UNCHANGED <<spawned, counters>>
        /\ GoesTo(s, "CheckPort")
    BY <1>1 DEF DropTunnelFile, At, Then, Exit, ExitReaching, Exits, GoesTo
  <2> QED
    BY <1>0, <2>1, <2>2, StepTyped DEF Steps, TunnelSteps, DisableSteps, DeploySteps
<1>2. CASE StartGdbserver(s)
  <2>1. /\ script[s].step # "Idle" /\ UNCHANGED counters
        /\ \/ Exits(s)
           \/ GoesTo(s, "CheckGdbserver")
    BY <1>2 DEF StartGdbserver, At, Then, Exit, ExitReaching, Exits, GoesTo
  <2>2. CASE UNCHANGED <<guest, host, spawned>>
    <3>1. ProcessesAreTyped'
      BY <2>2 DEF Typed, ProcessesAreTyped, guest, host, Pids
    <3> QED
      BY <1>0, <2>1, <2>2, <3>1, StepTyped DEF Steps, TunnelSteps, DisableSteps, DeploySteps
  <2>3. CASE ~UNCHANGED <<guest, host, spawned>>
    <3>1. /\ SshWorks /\ spawned' = spawned + 1 /\ guestPidFile' = spawned + 1
          /\ gdbservers' = gdbservers \cup {[pid |-> spawned + 1, binary |-> script[s].binary]}
          /\ UNCHANGED <<vm, listening, host>>
      BY <1>2, <2>3 DEF StartGdbserver, At, Then, Exit, ExitReaching, Exits, GoesTo
    <3>2. script[s].binary \in Binaries
      BY <1>0, <2>1 DEF ScriptsAreTyped
    <3>3. gdbservers' \in SUBSET [pid : 1..spawned', binary : Binaries] /\ Pids \subseteq Pids'
      BY <1>0, <3>1, <3>2 DEF ProcessesAreTyped, Pids
    <3>4. ProcessesAreTyped'
      BY <1>0, <3>1, <3>3 DEF ProcessesAreTyped, host, SshWorks
    <3> QED
      BY <1>0, <2>1, <3>1, <3>4, StepTyped DEF Steps, TunnelSteps, DisableSteps, DeploySteps
  <2> QED
    BY <2>2, <2>3
<1>3. CASE StartTunnel(s)
  <2>1. /\ script[s].step # "Idle" /\ spawned' = spawned + 1 /\ tunnels' = tunnels \cup {spawned + 1}
        /\ script' = [script EXCEPT ![s].step = "CheckTunnel", ![s].tunnel = spawned + 1]
        /\ UNCHANGED <<guest, forwarding, tunnelPidFile, counters>>
    BY <1>3 DEF StartTunnel, At, Then, Exit, ExitReaching, Exits, GoesTo
  <2>2. ProcessesAreTyped'
    BY <1>0, <2>1 DEF ProcessesAreTyped, guest, Pids
  <2>0. "CheckTunnel" \in Steps /\ spawned + 1 \in Nat /\ script \in [Slots -> ScriptTypes]
    BY <1>0 DEF ScriptsAreTyped, Steps, TunnelSteps
  <2>3. script' \in [Slots -> ScriptTypes]
    <3>1. [script[s] EXCEPT !.step = "CheckTunnel", !.tunnel = spawned + 1] \in ScriptTypes
      BY <2>0 DEF ScriptTypes
    <3>2. script' = [script EXCEPT ![s] = [script[s] EXCEPT !.step = "CheckTunnel", !.tunnel = spawned + 1]]
      BY <2>0, <2>1
    <3> QED
      BY <2>0, <3>1, <3>2
  <2>4. /\ script'[s].name = script[s].name /\ script'[s].binary = script[s].binary
        /\ script'[s].tunnel = spawned + 1
        /\ \A t \in Slots : t # s => script'[t] = script[t]
    BY <1>0, <2>1 DEF ScriptsAreTyped, ScriptTypes
  <2>5. ScriptsAreTyped'
    BY <1>0, <2>1, <2>3, <2>4 DEF ScriptsAreTyped
  <2> QED
    BY <2>1, <2>2, <2>5 DEF Typed, Bounded, counters
<1>4. CASE CheckTunnel(s)
  <2>1. /\ script[s].step = "CheckTunnel" /\ UNCHANGED <<guest, host, spawned, counters>>
        /\ \/ GoesTo(s, "WriteTunnelFile")
           \/ GoesTo(s, "GiveUp")
    BY <1>4 DEF CheckTunnel, At, Then, Exit, ExitReaching, Exits, GoesTo
  <2>2. ProcessesAreTyped'
    BY <2>1 DEF Typed, ProcessesAreTyped, guest, host, Pids
  <2>3. script[s].tunnel \in 1..spawned
    BY <1>0, <2>1 DEF ScriptsAreTyped, TunnelSteps
  <2> QED
    BY <1>0, <2>1, <2>2, <2>3, StepTyped DEF Steps, TunnelSteps
<1>5. CASE GiveUp(s)
  <2>1. /\ script[s].step # "Idle" /\ UNCHANGED <<host, spawned, counters>>
        /\ Exits(s)
        /\ UNCHANGED guest \/ StopGdbserver
    BY <1>5 DEF GiveUp, At, Then, Exit, ExitReaching, Exits, GoesTo
  <2>2. CASE UNCHANGED guest
    BY <1>0, <2>1, <2>2, StepTyped DEF ProcessesAreTyped, guest, host, Pids
  <2>3. CASE StopGdbserver
    <3>1. ProcessesAreTyped'
      BY <1>0, <2>1, <2>3, KillGdbserverTyped DEF StopGdbserver, ProcessesAreTyped, host
    <3> QED
      BY <1>0, <2>1, <3>1, StepTyped
  <2> QED
    BY <2>1, <2>2, <2>3
<1>6. CASE WriteTunnelFile(s)
  <2>1. /\ script[s].step = "WriteTunnelFile" /\ UNCHANGED <<guest, tunnels, forwarding, spawned, counters>>
        /\ Exits(s) /\ tunnelPidFile' = script[s].tunnel
    BY <1>6 DEF WriteTunnelFile, At, Then, Exit, ExitReaching, Exits, GoesTo
  <2>2. script[s].tunnel \in 1..spawned
    BY <1>0, <2>1 DEF ScriptsAreTyped, TunnelSteps
  <2>3. ProcessesAreTyped'
    BY <1>0, <2>1, <2>2 DEF ProcessesAreTyped, guest, Pids
  <2> QED
    BY <1>0, <2>1, <2>3, StepTyped
<1> QED
  BY <1>1, <1>2, <1>3, <1>4, <1>5, <1>6

\* The steps of disable-debug-session.sh that write or remember.
LEMMA DisableStepsTyped ==
    ASSUME Typed, NEW s \in Slots,
           \/ ReadTunnelFile(s) \/ Kill(s) \/ Forget(s) \/ FindGdbserver(s) \/ EndGdbserver(s)
           \/ ForgetGdbserver(s)
    PROVE  Typed'
<1>0. spawned \in Nat /\ ProcessesAreTyped /\ ScriptsAreTyped
  BY DEF Typed, ProcessesAreTyped
<1>1. CASE ReadTunnelFile(s)
  <2>1. script[s].step # "Idle" /\ UNCHANGED <<guest, host, spawned, counters>>
    BY <1>1 DEF ReadTunnelFile, At, Then, Exit, ExitReaching, Exits, GoesTo
  <2>2. ProcessesAreTyped'
    BY <1>0, <2>1 DEF ProcessesAreTyped, guest, host, Pids
  <2>3. CASE tunnelPidFile = None
    <3>1. GoesTo(s, "DisableCheck")
      BY <1>1, <2>3 DEF ReadTunnelFile, At, Then, Exit, ExitReaching, Exits, GoesTo
    <3> QED
      BY <1>0, <2>1, <2>2, <3>1, StepTyped DEF Steps, TunnelSteps, DisableSteps, DeploySteps
  <2>4. CASE tunnelPidFile # None
    <3>1. PICK step \in {"Kill", "Forget"} :
            script' = [script EXCEPT ![s].tunnel = tunnelPidFile, ![s].step = step]
      BY <1>1, <2>4 DEF ReadTunnelFile, At, Then, Exit, ExitReaching, Exits, GoesTo
    <3>2. tunnelPidFile \in 1..spawned
      BY <1>0, <2>4 DEF ProcessesAreTyped
    <3>0. step \in Steps /\ tunnelPidFile \in Nat /\ script \in [Slots -> ScriptTypes]
      BY <1>0, <3>2 DEF ScriptsAreTyped, Steps, TunnelSteps, DisableSteps
    <3>3. script' \in [Slots -> ScriptTypes]
      BY <3>0, <3>1 DEF ScriptTypes
    <3>4. /\ script'[s].name = script[s].name /\ script'[s].binary = script[s].binary
          /\ script'[s].tunnel = tunnelPidFile
          /\ \A t \in Slots : t # s => script'[t] = script[t]
      BY <1>0, <3>1 DEF ScriptsAreTyped, ScriptTypes
    <3>5. ScriptsAreTyped'
      BY <1>0, <2>1, <3>2, <3>3, <3>4 DEF ScriptsAreTyped
    <3> QED
      BY <2>1, <2>2, <3>5 DEF Typed, Bounded, counters
  <2> QED
    BY <2>3, <2>4
<1>2. CASE Kill(s)
  <2>1. /\ script[s].step # "Idle" /\ UNCHANGED <<guest, tunnelPidFile, spawned, counters>>
        /\ KillTunnel(script[s].tunnel)
        /\ \/ Exits(s)
           \/ GoesTo(s, "Forget")
    BY <1>2 DEF Kill, At, Then, Exit, ExitReaching, Exits, GoesTo
  <2>2. ProcessesAreTyped'
    BY <1>0, <2>1, KillTunnelTyped DEF ProcessesAreTyped, guest, Pids
  <2> QED
    BY <1>0, <2>1, <2>2, StepTyped DEF Steps, TunnelSteps, DisableSteps, DeploySteps
<1>3. CASE Forget(s)
  <2>1. /\ script[s].step # "Idle" /\ UNCHANGED <<guest, tunnels, forwarding, spawned, counters>>
        /\ tunnelPidFile' = None /\ GoesTo(s, "DisableCheck")
    BY <1>3 DEF Forget, At, Then, Exit, ExitReaching, Exits, GoesTo
  <2>2. ProcessesAreTyped'
    BY <1>0, <2>1 DEF ProcessesAreTyped, guest, Pids
  <2> QED
    BY <1>0, <2>1, <2>2, StepTyped DEF Steps, TunnelSteps, DisableSteps, DeploySteps
<1>4. CASE FindGdbserver(s)
  <2>1. /\ script[s].step # "Idle" /\ UNCHANGED <<guest, host, spawned, counters>>
        /\ \/ \E step \in {"KillGdbserver", "ForgetGdbserver"} : GoesTo(s, step)
           \/ script' = [script EXCEPT ![s].step = "ForgetGdbserver", ![s].reached = TRUE]
    BY <1>4 DEF FindGdbserver, At, Then, Exit, ExitReaching, Exits, GoesTo
  <2>2. ProcessesAreTyped'
    BY <1>0, <2>1 DEF ProcessesAreTyped, guest, host, Pids
  <2>3. CASE script' = [script EXCEPT ![s].step = "ForgetGdbserver", ![s].reached = TRUE]
    <3>0. "ForgetGdbserver" \in Steps /\ script \in [Slots -> ScriptTypes]
      BY <1>0 DEF ScriptsAreTyped, Steps, DisableSteps
    <3>1. script' \in [Slots -> ScriptTypes]
      BY <2>3, <3>0 DEF ScriptTypes
    <3>2. /\ script'[s].name = script[s].name /\ script'[s].binary = script[s].binary
          /\ script'[s].step = "ForgetGdbserver"
          /\ \A t \in Slots : t # s => script'[t] = script[t]
      BY <1>0, <2>3 DEF ScriptsAreTyped, ScriptTypes
    <3>3. ScriptsAreTyped'
      BY <1>0, <2>1, <3>1, <3>2 DEF ScriptsAreTyped, TunnelSteps
    <3> QED
      BY <2>1, <2>2, <3>3 DEF Typed, Bounded, counters
  <2> QED
    BY <1>0, <2>1, <2>2, <2>3, StepTyped DEF Steps, TunnelSteps, DisableSteps, DeploySteps
<1>5. CASE EndGdbserver(s)
  <2>1. /\ script[s].step # "Idle" /\ UNCHANGED <<host, spawned, counters>>
        /\ Exits(s)
        /\ UNCHANGED guest \/ StopGdbserver
    BY <1>5 DEF EndGdbserver, At, Then, Exit, ExitReaching, Exits, GoesTo
  <2>2. CASE UNCHANGED guest
    BY <1>0, <2>1, <2>2, StepTyped DEF ProcessesAreTyped, guest, host, Pids
  <2>3. CASE StopGdbserver
    <3>1. ProcessesAreTyped'
      BY <1>0, <2>1, <2>3, KillGdbserverTyped DEF StopGdbserver, ProcessesAreTyped, host
    <3> QED
      BY <1>0, <2>1, <3>1, StepTyped
  <2> QED
    BY <2>1, <2>2, <2>3
<1>6. CASE ForgetGdbserver(s)
  <2>1. /\ script[s].step # "Idle" /\ UNCHANGED <<vm, gdbservers, listening, host, spawned, counters>>
        /\ Exits(s) /\ guestPidFile' \in {None, guestPidFile}
    BY <1>6 DEF ForgetGdbserver, At, Then, Exit, ExitReaching, Exits, GoesTo
  <2>2. ProcessesAreTyped'
    BY <1>0, <2>1 DEF ProcessesAreTyped, host, Pids
  <2> QED
    BY <1>0, <2>1, <2>2, StepTyped
<1> QED
  BY <1>1, <1>2, <1>3, <1>4, <1>5, <1>6

LEMMA NextTyped == Typed /\ [Next]_vars => Typed'
<1> SUFFICES ASSUME Typed, [Next]_vars PROVE Typed'
  OBVIOUS
<1>1. ASSUME NEW s \in Slots, ScriptStep(s) PROVE Typed'
  BY <1>1, ReadersTyped, ImageStepsTyped, EnableStepsTyped, DisableStepsTyped DEF ScriptStep
<1>2. CASE UNCHANGED vars
  BY <1>2 DEF vars, guest, host, counters, Typed, ProcessesAreTyped, ScriptsAreTyped, Bounded, Pids
<1> QED
  BY <1>1, <1>2, UserTyped, EnvironmentTyped DEF Next, Finished

LEMMA TypedHolds == Spec => []Typed
BY InitTyped, NextTyped, PTL DEF Spec

\* Every variable keeps its type, for any number of scripts at a time and
\* whatever the guest and the connection do: a PID file names a process that was
\* started, and a port is held by a live process.
THEOREM TypeCorrect == Spec => []TypeOK
<1>1. Typed => TypeOK
  BY DEF Typed, ProcessesAreTyped, Bounded, TypeOK
<1> QED
  BY <1>1, TypedHolds, PTL
-----------------------------------------------------------------------------
(* One script at a time *)

\* Between the check that there is no live tunnel and the start of one, and from
\* the end of the tunnel on.
NoTunnelSteps ==
    {"DropTunnelFile", "CheckPort", "CheckGuest", "StartGdbserver", "CheckGdbserver",
     "StartTunnel", "GiveUp", "Forget", "DisableCheck", "FindGdbserver", "KillGdbserver",
     "ForgetGdbserver"}

Deploying(s) == Is(s, "enable") /\ script[s].step \in DeploySteps

\* A script is a disable exactly at the steps of disable.
DisableIsItsSteps(s) == Is(s, "disable") <=> script[s].step \in DisableSteps

\* No tunnel but the one in the file, or the one in the hand of the script.
TunnelIsKnown(s) ==
    /\ script[s].step \in NoTunnelSteps \/ Deploying(s) => tunnels = {}
    /\ script[s].step \in {"CheckTunnel", "WriteTunnelFile"} => tunnels \subseteq {script[s].tunnel}
    /\ script[s].step \notin {"CheckTunnel", "WriteTunnelFile"} => tunnels \subseteq {tunnelPidFile}
    /\ At(s, "Kill") => script[s].tunnel = tunnelPidFile

\* No gdbserver but the one in the file; none where another may be started or the
\* file removed, except in a guest that is going down.
GdbserverIsKnown(s) ==
    /\ Pids \subseteq {guestPidFile}
    /\ vm \in {"absent", "booting"} => gdbservers = {}
    /\ script[s].step \in {"StartGdbserver", "ForgetGdbserver"} \/ Deploying(s)
       => gdbservers = {} \/ vm = "halting"
    /\ script[s].reached => At(s, "ForgetGdbserver") /\ gdbservers = {}

SessionIsKnown(s) == DisableIsItsSteps(s) /\ TunnelIsKnown(s) /\ GdbserverIsKnown(s)

\* What a disable that succeeded has left.
DisableHasEnded ==
    ended.name = "disable" /\ ended.status = 0 => tunnels = {} /\ (ended.reached => gdbservers = {})

InOrder(s) == SessionIsKnown(s) /\ (script[s] = Idle => DisableHasEnded)

Sequential == interrupts = 0 => \A s \in Slots : InOrder(s)

LEMMA WentOn ==
    ASSUME Typed, NEW s \in Slots, NEW step \in Steps, GoesTo(s, step)
    PROVE  /\ script'[s].step = step /\ script'[s].name = script[s].name
           /\ script'[s].tunnel = script[s].tunnel /\ script'[s].reached = script[s].reached
           /\ script'[s] # Idle
BY IdleIsTyped DEF Typed, ScriptsAreTyped, ScriptTypes, GoesTo, Steps, DisableSteps, DeploySteps, TunnelSteps

\* A script that ends leaves what the files name, and a disable that succeeds less.
LEMMA ExitInOrder ==
    ASSUME Typed, NEW s \in Slots, NEW status, NEW reached, ExitReaching(s, status, reached),
           tunnels' \subseteq {tunnelPidFile'}, Pids' \subseteq {guestPidFile'},
           vm' \in {"absent", "booting"} => gdbservers' = {},
           Is(s, "disable") /\ status = 0 => tunnels' = {} /\ (reached => gdbservers' = {})
    PROVE  InOrder(s)'
<1>1. script'[s] = Idle
  BY DEF Typed, ScriptsAreTyped, ExitReaching
<1>2. /\ Idle.name = "none" /\ Idle.step = "Idle" /\ ~Idle.reached
  BY DEF Idle
<1>3. SessionIsKnown(s)'
  BY <1>1, <1>2
     DEF SessionIsKnown, DisableIsItsSteps, TunnelIsKnown, GdbserverIsKnown, DisableSteps,
         NoTunnelSteps, DeploySteps, Deploying, At, Is
<1>4. DisableHasEnded'
  BY DEF ExitReaching, DisableHasEnded, Is
<1> QED
  BY <1>3, <1>4 DEF InOrder

\* A script that goes on, with what it must leave for the step it goes to.
LEMMA GoesOnInOrder ==
    ASSUME Typed, NEW s \in Slots, NEW step \in Steps, GoesTo(s, step), ~script[s].reached,
           Is(s, "disable") <=> step \in DisableSteps,
           step \in NoTunnelSteps \/ (Is(s, "enable") /\ step \in DeploySteps) => tunnels' = {},
           IF step \in {"CheckTunnel", "WriteTunnelFile"} THEN tunnels' \subseteq {script[s].tunnel}
           ELSE tunnels' \subseteq {tunnelPidFile'},
           step # "Kill",
           Pids' \subseteq {guestPidFile'},
           vm' \in {"absent", "booting"} => gdbservers' = {},
           step \in {"StartGdbserver", "ForgetGdbserver"} \/ (Is(s, "enable") /\ step \in DeploySteps)
           => gdbservers' = {} \/ vm' = "halting"
    PROVE  InOrder(s)'
<1>1. /\ script'[s].step = step /\ script'[s].name = script[s].name
      /\ script'[s].tunnel = script[s].tunnel /\ script'[s].reached = script[s].reached
      /\ script'[s] # Idle
  BY WentOn
<1> QED
  BY <1>1
     DEF InOrder, SessionIsKnown, DisableIsItsSteps, TunnelIsKnown, GdbserverIsKnown, Deploying, At, Is

\* The commands that read.
LEMMA ReadersInOrder ==
    ASSUME ~SshMayFail, Typed, NEW s \in Slots, InOrder(s),
           \/ StartCheck(s) \/ AwaitSsh(s) \/ StopCheck(s) \/ DeployCheck(s) \/ DeploySsh(s)
           \/ Copy(s) \/ EnableCheck(s) \/ EnableSsh(s) \/ CheckTunnelFile(s) \/ CheckPort(s)
           \/ CheckGuest(s) \/ CheckGdbserver(s) \/ DisableCheck(s) \/ CheckTunnel(s)
    PROVE  InOrder(s)'
<1>1. UNCHANGED <<guest, host>> /\ SessionIsKnown(s)
  BY DEF StartCheck, AwaitSsh, StopCheck, DeployCheck, DeploySsh, Copy, EnableCheck, EnableSsh,
         CheckTunnelFile, CheckPort, CheckGuest, CheckGdbserver, DisableCheck, CheckTunnel,
         Decide, SshOrExit, InOrder
<1>2. /\ UNCHANGED <<vm, gdbservers, tunnels, tunnelPidFile, guestPidFile>> /\ Pids' = Pids
      /\ Pids \subseteq {guestPidFile} /\ (vm \in {"absent", "booting"} => gdbservers = {})
  BY <1>1 DEF guest, host, Pids, SessionIsKnown, GdbserverIsKnown
<1> USE DEF Steps, DisableSteps, DeploySteps, TunnelSteps, NoTunnelSteps
<1>3. CASE StartCheck(s) \/ StopCheck(s)
  <2>1. /\ script[s].step \in {"StartCheck", "StopCheck"}
        /\ GoesTo(s, "NewSession") \/ GoesTo(s, "PowerOff") \/ \E i \in {0, 1} : Exit(s, i)
    BY <1>3 DEF StartCheck, StopCheck, Decide, At, Then, GoesTo
  <2>2. ~Is(s, "disable") /\ tunnels \subseteq {tunnelPidFile} /\ ~script[s].reached
    BY <1>1, <2>1 DEF SessionIsKnown, DisableIsItsSteps, TunnelIsKnown, GdbserverIsKnown, At
  <2> QED
    BY <1>2, <2>1, <2>2, GoesOnInOrder, ExitInOrder DEF Exit
<1>4. CASE AwaitSsh(s)
  <2>1. script[s].step = "AwaitSsh" /\ \E i \in {0, 1} : Exit(s, i)
    BY <1>4 DEF AwaitSsh, At
  <2>2. ~Is(s, "disable") /\ tunnels \subseteq {tunnelPidFile}
    BY <1>1, <2>1 DEF SessionIsKnown, DisableIsItsSteps, TunnelIsKnown, At
  <2> QED
    BY <1>2, <2>1, <2>2, ExitInOrder DEF Exit
<1>5. CASE DeployCheck(s) \/ DeploySsh(s) \/ Copy(s)
  <2>1. /\ script[s].step \in DeploySteps
        /\ \/ GoesTo(s, "DeploySsh") \/ GoesTo(s, "Copy")
           \/ Is(s, "enable") /\ GoesTo(s, "StartGdbserver")
           \/ \E i \in {0, 1} : Exit(s, i)
    BY <1>5 DEF DeployCheck, DeploySsh, Copy, Decide, SshOrExit, At, Then, GoesTo
  <2>2. /\ ~Is(s, "disable") /\ tunnels \subseteq {tunnelPidFile} /\ ~script[s].reached
        /\ Is(s, "enable") => tunnels = {} /\ (gdbservers = {} \/ vm = "halting")
    BY <1>1, <2>1
       DEF SessionIsKnown, DisableIsItsSteps, TunnelIsKnown, GdbserverIsKnown, Deploying, At
  <2> QED
    BY <1>2, <2>1, <2>2, GoesOnInOrder, ExitInOrder DEF Exit
<1>6. CASE EnableCheck(s) \/ EnableSsh(s)
  <2>1. /\ script[s].step \in {"EnableCheck", "EnableSsh"}
        /\ GoesTo(s, "EnableSsh") \/ GoesTo(s, "CheckTunnelFile") \/ Exit(s, 1)
    BY <1>6 DEF EnableCheck, EnableSsh, Decide, SshOrExit, At, Then, GoesTo
  <2>2. ~Is(s, "disable") /\ tunnels \subseteq {tunnelPidFile} /\ ~script[s].reached
    BY <1>1, <2>1 DEF SessionIsKnown, DisableIsItsSteps, TunnelIsKnown, GdbserverIsKnown, At
  <2> QED
    BY <1>2, <2>1, <2>2, GoesOnInOrder, ExitInOrder DEF Exit
<1>7. CASE CheckTunnelFile(s)
  <2>1. /\ script[s].step = "CheckTunnelFile"
        /\ \/ tunnelPidFile \notin tunnels /\ (GoesTo(s, "CheckPort") \/ GoesTo(s, "DropTunnelFile"))
           \/ Exit(s, 1)
    <3>1. None \notin tunnels
      <4>1. tunnels \in SUBSET (1..spawned) /\ spawned \in Nat
        BY DEF Typed, ProcessesAreTyped
      <4>2. tunnels \subseteq Nat
        BY <4>1
      <4> QED
        BY <4>2, QemuAssumption
    <3> QED
      BY <1>7, <3>1 DEF CheckTunnelFile, At, Then, GoesTo
  <2>2. ~Is(s, "disable") /\ tunnels \subseteq {tunnelPidFile} /\ ~script[s].reached
    BY <1>1, <2>1 DEF SessionIsKnown, DisableIsItsSteps, TunnelIsKnown, GdbserverIsKnown, At
  <2> QED
    BY <1>2, <2>1, <2>2, GoesOnInOrder, ExitInOrder DEF Exit
<1>8. CASE CheckPort(s)
  <2>1. script[s].step = "CheckPort" /\ (GoesTo(s, "CheckGuest") \/ Exit(s, 1))
    BY <1>8 DEF CheckPort, Decide, At, Then, GoesTo
  <2>2. ~Is(s, "disable") /\ tunnels = {} /\ ~script[s].reached
    BY <1>1, <2>1 DEF SessionIsKnown, DisableIsItsSteps, TunnelIsKnown, GdbserverIsKnown, At
  <2> QED
    BY <1>2, <2>1, <2>2, GoesOnInOrder, ExitInOrder DEF Exit
<1>9. CASE CheckGuest(s)
  <2>1. /\ script[s].step = "CheckGuest"
        /\ \/ GoesTo(s, "DeployCheck") /\ (vm # "up" \/ guestPidFile \notin Pids)
           \/ Exit(s, 1)
    BY <1>9 DEF CheckGuest, At, Then, GoesTo, SshFails
  <2>2. ~Is(s, "disable") /\ tunnels = {} /\ ~script[s].reached
    BY <1>1, <2>1 DEF SessionIsKnown, DisableIsItsSteps, TunnelIsKnown, GdbserverIsKnown, At
  <2>3. vm # "up" \/ guestPidFile \notin Pids => gdbservers = {} \/ vm = "halting"
    BY <1>2 DEF Typed, ProcessesAreTyped, Pids
  <2> QED
    BY <1>2, <2>1, <2>2, <2>3, GoesOnInOrder, ExitInOrder DEF Exit
<1>10. CASE CheckGdbserver(s)
  <2>1. script[s].step = "CheckGdbserver" /\ (GoesTo(s, "StartTunnel") \/ Exit(s, 1))
    BY <1>10 DEF CheckGdbserver, At, Then, GoesTo
  <2>2. ~Is(s, "disable") /\ tunnels = {} /\ ~script[s].reached
    BY <1>1, <2>1 DEF SessionIsKnown, DisableIsItsSteps, TunnelIsKnown, GdbserverIsKnown, At
  <2> QED
    BY <1>2, <2>1, <2>2, GoesOnInOrder, ExitInOrder DEF Exit
<1>11. CASE CheckTunnel(s)
  <2>1. /\ script[s].step = "CheckTunnel"
        /\ \/ GoesTo(s, "WriteTunnelFile")
           \/ GoesTo(s, "GiveUp") /\ script[s].tunnel \notin tunnels
    BY <1>11 DEF CheckTunnel, At, Then, GoesTo
  <2>2. ~Is(s, "disable") /\ tunnels \subseteq {script[s].tunnel} /\ ~script[s].reached
    BY <1>1, <2>1 DEF SessionIsKnown, DisableIsItsSteps, TunnelIsKnown, GdbserverIsKnown, At
  <2> QED
    BY <1>2, <2>1, <2>2, GoesOnInOrder
<1>12. CASE DisableCheck(s)
  <2>1. /\ script[s].step = "DisableCheck"
        /\ GoesTo(s, "FindGdbserver") \/ Exit(s, 0)
    BY <1>12 DEF DisableCheck, At, Then, GoesTo
  <2>2. Is(s, "disable") /\ tunnels = {} /\ ~script[s].reached
    BY <1>1, <2>1 DEF SessionIsKnown, DisableIsItsSteps, TunnelIsKnown, GdbserverIsKnown, At
  <2> QED
    BY <1>2, <2>1, <2>2, GoesOnInOrder, ExitInOrder DEF Exit
<1> QED
  BY <1>3, <1>4, <1>5, <1>6, <1>7, <1>8, <1>9, <1>10, <1>11, <1>12

\* start-development-image.sh and stop-development-image.sh.
LEMMA ImageStepsInOrder ==
    ASSUME ~SshMayFail, Typed, NEW s \in Slots, InOrder(s),
           NewSession(s) \/ PowerOff(s) \/ AwaitStop(s)
    PROVE  InOrder(s)'
<1>1. SessionIsKnown(s)
  BY DEF InOrder
<1>2. script[s].step \in {"NewSession", "PowerOff", "AwaitStop"} /\ UNCHANGED host
  BY DEF NewSession, PowerOff, AwaitStop, At
<1>3. ~Is(s, "disable") /\ tunnels' \subseteq {tunnelPidFile'} /\ ~script[s].reached
  BY <1>1, <1>2
     DEF SessionIsKnown, DisableIsItsSteps, TunnelIsKnown, GdbserverIsKnown, At, host, DisableSteps
<1>4. Pids \subseteq {guestPidFile} /\ (vm \in {"absent", "booting"} => gdbservers = {})
  BY <1>1 DEF SessionIsKnown, GdbserverIsKnown
<1>5. \/ UNCHANGED guest
      \/ GuestGone
      \/ vm' = "booting" /\ vm = "absent" /\ UNCHANGED <<gdbservers, listening, guestPidFile>>
      \/ vm' = "halting" /\ UNCHANGED <<gdbservers, listening, guestPidFile>>
  BY DEF NewSession, PowerOff, AwaitStop, KillSession, guest
<1>6. Pids' \subseteq {guestPidFile'} /\ (vm' \in {"absent", "booting"} => gdbservers' = {})
  BY <1>4, <1>5 DEF GuestGone, guest, Pids
<1>7. GoesTo(s, "AwaitSsh") \/ GoesTo(s, "AwaitStop") \/ \E i \in {0, 1} : Exit(s, i)
  BY DEF NewSession, PowerOff, AwaitStop, KillSession, Then, GoesTo
<1> QED
  BY <1>3, <1>6, <1>7, GoesOnInOrder, ExitInOrder
     DEF Exit, Steps, DisableSteps, DeploySteps, TunnelSteps, NoTunnelSteps

\* The gdbserver that the file names is the only one.
LEMMA StopsThemAll ==
    ASSUME Pids \subseteq {guestPidFile}, StopGdbserver
    PROVE  gdbservers' = {} /\ Pids' = {}
BY DEF StopGdbserver, KillGdbserver, Pids

\* The steps of enable-debug-session.sh that write.
LEMMA EnableStepsInOrder ==
    ASSUME ~SshMayFail, Typed, NEW s \in Slots, InOrder(s),
           \/ DropTunnelFile(s) \/ StartGdbserver(s) \/ StartTunnel(s) \/ GiveUp(s)
           \/ WriteTunnelFile(s)
    PROVE  InOrder(s)'
<1>1. SessionIsKnown(s)
  BY DEF InOrder
<1> USE DEF Steps, DisableSteps, DeploySteps, TunnelSteps, NoTunnelSteps
<1>2. script[s].step \in {"DropTunnelFile", "StartGdbserver", "StartTunnel", "GiveUp", "WriteTunnelFile"}
  BY DEF DropTunnelFile, StartGdbserver, StartTunnel, GiveUp, WriteTunnelFile, At
<1>3. ~Is(s, "disable") /\ ~script[s].reached /\ Pids \subseteq {guestPidFile}
      /\ (vm \in {"absent", "booting"} => gdbservers = {})
  BY <1>1, <1>2 DEF SessionIsKnown, DisableIsItsSteps, GdbserverIsKnown, At
<1>4. script[s].step # "WriteTunnelFile" => tunnels = {}
  BY <1>1, <1>2 DEF SessionIsKnown, TunnelIsKnown
<1>5. CASE DropTunnelFile(s)
  <2>1. /\ UNCHANGED <<guest, tunnels>> /\ GoesTo(s, "CheckPort") /\ tunnels = {}
    BY <1>4, <1>5 DEF DropTunnelFile, At, Then, GoesTo
  <2> QED
    BY <1>3, <2>1, GoesOnInOrder DEF guest, Pids
<1>6. CASE StartGdbserver(s)
  <2>1. UNCHANGED host /\ tunnels = {}
    BY <1>4, <1>6 DEF StartGdbserver, At
  <2>2. CASE SshWorks
    <3>1. gdbservers = {}
      BY <1>1, <1>6, <2>2 DEF SessionIsKnown, GdbserverIsKnown, StartGdbserver, At, SshWorks
    <3>2. /\ gdbservers' = {[pid |-> spawned', binary |-> script[s].binary]}
          /\ guestPidFile' = spawned' /\ vm' = "up" /\ GoesTo(s, "CheckGdbserver")
      BY <1>6, <2>2, <3>1 DEF StartGdbserver, SshWorks, SshFails, Then, GoesTo
    <3> QED
      BY <1>3, <2>1, <3>2, GoesOnInOrder DEF host, Pids
  <2>3. CASE ~SshWorks
    BY <1>3, <1>6, <2>1, <2>3, ExitInOrder DEF StartGdbserver, Exit, guest, host, Pids
  <2> QED
    BY <2>2, <2>3
<1>7. CASE StartTunnel(s)
  <2>1. /\ UNCHANGED guest /\ tunnels' = {spawned'} /\ script[s].step = "StartTunnel"
        /\ script' = [script EXCEPT ![s].step = "CheckTunnel", ![s].tunnel = spawned']
    BY <1>4, <1>7 DEF StartTunnel, At
  <2>2. /\ script'[s].step = "CheckTunnel" /\ script'[s].tunnel = spawned'
        /\ script'[s].name = script[s].name /\ script'[s].reached = script[s].reached
        /\ script'[s] # Idle
    BY <2>1, IdleIsTyped DEF Typed, ScriptsAreTyped, ScriptTypes
  <2> QED
    BY <1>3, <2>1, <2>2
       DEF InOrder, SessionIsKnown, DisableIsItsSteps, TunnelIsKnown, GdbserverIsKnown, Deploying,
           At, Is, guest, Pids
<1>8. CASE GiveUp(s)
  <2>1. UNCHANGED host /\ tunnels = {} /\ Exit(s, 1)
    BY <1>4, <1>8 DEF GiveUp, At
  <2>2. CASE UNCHANGED guest
    BY <1>3, <2>1, <2>2, ExitInOrder DEF Exit, guest, host, Pids
  <2>3. CASE StopGdbserver
    BY <1>3, <2>1, <2>3, StopsThemAll, ExitInOrder DEF Exit, host
  <2> QED
    BY <1>8, <2>2, <2>3 DEF GiveUp
<1>9. CASE WriteTunnelFile(s)
  <2>1. /\ UNCHANGED <<guest, tunnels>> /\ tunnelPidFile' = script[s].tunnel /\ Exit(s, 0)
        /\ tunnels \subseteq {script[s].tunnel}
    BY <1>1, <1>9 DEF WriteTunnelFile, At, SessionIsKnown, TunnelIsKnown
  <2> QED
    BY <1>3, <2>1, ExitInOrder DEF Exit, guest, Pids
<1> QED
  BY <1>5, <1>6, <1>7, <1>8, <1>9

\* The steps of disable-debug-session.sh that write or remember.
LEMMA DisableStepsInOrder ==
    ASSUME ~SshMayFail, Typed, NEW s \in Slots, InOrder(s),
           \/ ReadTunnelFile(s) \/ Kill(s) \/ Forget(s) \/ FindGdbserver(s) \/ EndGdbserver(s)
           \/ ForgetGdbserver(s)
    PROVE  InOrder(s)'
<1>1. SessionIsKnown(s)
  BY DEF InOrder
<1> USE DEF Steps, DisableSteps, DeploySteps, TunnelSteps, NoTunnelSteps
<1>2. script[s].step \in DisableSteps \ {"DisableCheck"}
  BY DEF ReadTunnelFile, Kill, Forget, FindGdbserver, EndGdbserver, ForgetGdbserver, At
<1>3. Is(s, "disable") /\ script[s].name = "disable" /\ Pids \subseteq {guestPidFile}
      /\ (vm \in {"absent", "booting"} => gdbservers = {})
  BY <1>1, <1>2 DEF SessionIsKnown, DisableIsItsSteps, GdbserverIsKnown, Is
<1>4. /\ script[s].step # "ForgetGdbserver" => ~script[s].reached
      /\ script[s].step \notin {"ReadTunnelFile", "Kill"} => tunnels = {}
      /\ tunnels \subseteq {tunnelPidFile}
  BY <1>1, <1>2 DEF SessionIsKnown, TunnelIsKnown, GdbserverIsKnown, At
<1>5. CASE ReadTunnelFile(s)
  <2>1. UNCHANGED <<guest, host>> /\ ~script[s].reached
    BY <1>4, <1>5 DEF ReadTunnelFile, At
  <2>2. CASE tunnelPidFile = None
    <3>1. tunnels = {}
      <4>1. tunnels \in SUBSET (1..spawned) /\ spawned \in Nat
        BY DEF Typed, ProcessesAreTyped
      <4> QED
        BY <1>4, <2>2, <4>1, QemuAssumption
    <3>2. GoesTo(s, "DisableCheck")
      BY <1>5, <2>2 DEF ReadTunnelFile, Then, GoesTo
    <3> QED
      BY <1>3, <2>1, <3>1, <3>2, GoesOnInOrder DEF guest, host, Pids
  <2>3. CASE tunnelPidFile # None
    <3>1. PICK step \in {"Kill", "Forget"} :
            /\ script' = [script EXCEPT ![s].tunnel = tunnelPidFile, ![s].step = step]
            /\ step = "Forget" => tunnelPidFile \notin tunnels
      BY <1>5, <2>3 DEF ReadTunnelFile
    <3>2. /\ script'[s].step = step /\ script'[s].tunnel = tunnelPidFile
          /\ script'[s].name = script[s].name /\ script'[s].reached = script[s].reached
          /\ script'[s] # Idle
      BY <3>1, IdleIsTyped DEF Typed, ScriptsAreTyped, ScriptTypes
    <3> QED
      BY <1>3, <1>4, <2>1, <3>1, <3>2
         DEF InOrder, SessionIsKnown, DisableIsItsSteps, TunnelIsKnown, GdbserverIsKnown, Deploying,
             At, Is, guest, host, Pids
  <2> QED
    BY <2>2, <2>3
<1>6. CASE Kill(s)
  <2>1. /\ UNCHANGED <<guest, tunnelPidFile>> /\ ~script[s].reached /\ tunnels' = {}
        /\ GoesTo(s, "Forget") \/ Exit(s, 1)
    BY <1>1, <1>4, <1>6 DEF Kill, At, Then, GoesTo, KillTunnel, SessionIsKnown, TunnelIsKnown
  <2> QED
    BY <1>3, <2>1, GoesOnInOrder, ExitInOrder DEF Exit, guest, Pids
<1>7. CASE Forget(s)
  <2>1. UNCHANGED <<guest, tunnels>> /\ ~script[s].reached /\ tunnels = {} /\ GoesTo(s, "DisableCheck")
    BY <1>4, <1>7 DEF Forget, At, Then, GoesTo
  <2> QED
    BY <1>3, <2>1, GoesOnInOrder DEF guest, Pids
<1>8. CASE FindGdbserver(s)
  <2>1. UNCHANGED <<guest, host>> /\ ~script[s].reached /\ tunnels = {}
    BY <1>4, <1>8 DEF FindGdbserver, At
  <2>2. CASE SshWorks /\ guestPidFile \in Pids
    <3>1. GoesTo(s, "KillGdbserver")
      BY <1>8, <2>2 DEF FindGdbserver, SshWorks, SshFails, Then, GoesTo
    <3> QED
      BY <1>3, <2>1, <3>1, GoesOnInOrder DEF guest, host, Pids
  <2>3. CASE SshWorks /\ guestPidFile \notin Pids
    <3>1. script' = [script EXCEPT ![s].step = "ForgetGdbserver", ![s].reached = TRUE]
      BY <1>8, <2>3 DEF FindGdbserver, SshWorks, SshFails
    <3>2. /\ script'[s].step = "ForgetGdbserver" /\ script'[s].tunnel = script[s].tunnel
          /\ script'[s].name = script[s].name /\ script'[s] # Idle
      BY <3>1, IdleIsTyped DEF Typed, ScriptsAreTyped, ScriptTypes
    <3>3. gdbservers = {}
      BY <1>3, <2>3 DEF Pids
    <3> QED
      BY <1>3, <2>1, <3>2, <3>3
         DEF InOrder, SessionIsKnown, DisableIsItsSteps, TunnelIsKnown, GdbserverIsKnown, Deploying,
             At, Is, guest, host, Pids
  <2>4. CASE ~SshWorks
    <3>1. GoesTo(s, "ForgetGdbserver")
      BY <1>8, <2>4 DEF FindGdbserver, Then, GoesTo
    <3>2. gdbservers = {} \/ vm = "halting"
      BY <1>3, <2>4 DEF SshWorks, Typed, ProcessesAreTyped
    <3> QED
      BY <1>3, <2>1, <3>1, <3>2, GoesOnInOrder DEF guest, host, Pids
  <2> QED
    BY <2>2, <2>3, <2>4
<1>9. CASE EndGdbserver(s)
  <2>1. UNCHANGED host /\ tunnels = {}
    BY <1>4, <1>9 DEF EndGdbserver, At
  <2>2. CASE StopGdbserver /\ ExitReaching(s, 0, TRUE)
    BY <1>3, <2>1, <2>2, StopsThemAll, ExitInOrder DEF host
  <2>3. CASE UNCHANGED guest /\ Exit(s, 1)
    BY <1>3, <2>1, <2>3, ExitInOrder DEF Exit, guest, host, Pids
  <2> QED
    BY <1>9, <2>2, <2>3 DEF EndGdbserver
<1>10. CASE ForgetGdbserver(s)
  <2>1. UNCHANGED <<vm, gdbservers, host>> /\ tunnels = {} /\ Exit(s, 0)
    BY <1>4, <1>10 DEF ForgetGdbserver, At
  <2>2. (SshWorks => gdbservers = {}) /\ (script[s].reached => gdbservers = {})
        /\ (~SshWorks => guestPidFile' = guestPidFile)
    BY <1>1, <1>10 DEF ForgetGdbserver, At, SessionIsKnown, GdbserverIsKnown, SshWorks
  <2> QED
    BY <1>3, <2>1, <2>2, ExitInOrder DEF Exit, host, Pids
<1> QED
  BY <1>5, <1>6, <1>7, <1>8, <1>9, <1>10

\* What the guest and the processes do by themselves.
LEMMA EnvironmentInOrder ==
    ASSUME Typed, NEW s \in Slots, InOrder(s), Environment
    PROVE  InOrder(s)'
<1>1. UNCHANGED <<script, tunnelPidFile, ended>> /\ SessionIsKnown(s)
  BY DEF Environment, Booted, QemuExits, GdbserverListens, GdbserverExits, TunnelForwards,
         TunnelExits, host, InOrder
<1>2. tunnels' \subseteq tunnels
  BY DEF Environment, Booted, QemuExits, GdbserverListens, GdbserverExits, TunnelForwards,
         TunnelExits, host, KillTunnel
<1>3. \/ vm' = "absent" /\ gdbservers' = {}
      \/ gdbservers' \subseteq gdbservers /\ guestPidFile' = guestPidFile
         /\ (vm' = vm \/ (vm = "booting" /\ vm' = "up"))
  BY DEF Environment, Booted, QemuExits, GdbserverListens, GdbserverExits, TunnelForwards,
         TunnelExits, guest, GuestGone, KillGdbserver
<1>4. /\ Pids' \subseteq {guestPidFile'} /\ (vm' \in {"absent", "booting"} => gdbservers' = {})
      /\ gdbservers' = {} \/ (gdbservers # {} /\ (vm = "halting" => vm' = "halting"))
  BY <1>1, <1>3 DEF Pids, SessionIsKnown, GdbserverIsKnown
<1>5. SessionIsKnown(s)'
  BY <1>1, <1>2, <1>4
     DEF SessionIsKnown, DisableIsItsSteps, TunnelIsKnown, GdbserverIsKnown, Deploying, At, Is
<1> QED
  BY <1>1, <1>2, <1>4, <1>5 DEF InOrder, DisableHasEnded

\* The user starts a script where none runs.
LEMMA RunInOrder ==
    ASSUME Typed, NEW s \in Slots, InOrder(s), NEW name \in Names, NEW binary \in Binaries,
           Run(s, name, binary)
    PROVE  InOrder(s)'
<1>1. /\ UNCHANGED <<guest, host>> /\ SessionIsKnown(s) /\ script[s].step = "Idle"
  BY IdleIsTyped DEF Run, InOrder
<1>2. /\ script'[s].name = name /\ script'[s].step = FirstStep[name] /\ script'[s] # Idle
      /\ ~script'[s].reached
  BY DEF Run, Idle, Names
<1>3. /\ name = "disable" <=> FirstStep[name] \in DisableSteps
      /\ FirstStep[name] \in DeploySteps => name = "deploy"
      /\ FirstStep[name] \notin NoTunnelSteps
      /\ FirstStep[name] \notin {"CheckTunnel", "WriteTunnelFile", "Kill", "StartGdbserver", "ForgetGdbserver"}
  BY DEF FirstStep, Names, DisableSteps, DeploySteps, NoTunnelSteps
<1>4. tunnels \subseteq {tunnelPidFile}
  BY <1>1 DEF SessionIsKnown, TunnelIsKnown
<1> QED
  BY <1>1, <1>2, <1>3, <1>4
     DEF InOrder, SessionIsKnown, DisableIsItsSteps, TunnelIsKnown, GdbserverIsKnown, Deploying,
         At, Is, guest, host, Pids

LEMMA InitSequential == Init => Sequential
BY DEF Init, Sequential, InOrder, SessionIsKnown, DisableIsItsSteps, TunnelIsKnown, GdbserverIsKnown,
       DisableHasEnded, Deploying, At, Is, Idle, Pids, DisableSteps, DeploySteps, NoTunnelSteps

LEMMA NextSequential ==
    ASSUME ~SshMayFail, NEW s \in Slots, Slots = {s}, Typed, Sequential, [Next]_vars
    PROVE  Sequential'
<1>1. SUFFICES ASSUME interrupts' = 0
               PROVE  InOrder(s)'
  BY DEF Sequential
<1>2. CASE UNCHANGED vars
  BY <1>1, <1>2
     DEF vars, guest, host, counters, Sequential, InOrder, SessionIsKnown, DisableIsItsSteps,
         TunnelIsKnown, GdbserverIsKnown, DisableHasEnded, Deploying, At, Is, Pids
<1>3. CASE Interrupt(s)
  BY <1>1, <1>3 DEF Interrupt, Typed, Bounded
<1>4. ASSUME interrupts = 0 PROVE InOrder(s)
  BY <1>4 DEF Sequential
<1>5. ASSUME ScriptStep(s) PROVE InOrder(s)'
  <2>1. interrupts = 0
    BY <1>1, <1>5
       DEF ScriptStep, StartCheck, NewSession, AwaitSsh, StopCheck, PowerOff, AwaitStop, DeployCheck,
           DeploySsh, Copy, EnableCheck, EnableSsh, CheckTunnelFile, DropTunnelFile, CheckPort,
           CheckGuest, StartGdbserver, CheckGdbserver, StartTunnel, CheckTunnel, GiveUp,
           WriteTunnelFile, ReadTunnelFile, Kill, Forget, DisableCheck, FindGdbserver, EndGdbserver,
           ForgetGdbserver, KillSession, Decide, SshOrExit, Then, Exit, ExitReaching, counters
  <2> QED
    BY <1>4, <1>5, <2>1, ReadersInOrder, ImageStepsInOrder, EnableStepsInOrder, DisableStepsInOrder
       DEF ScriptStep
<1>6. CASE Environment
  <2>1. interrupts = 0
    BY <1>1, <1>6
       DEF Environment, Booted, QemuExits, GdbserverListens, GdbserverExits, TunnelForwards,
           TunnelExits, counters
  <2> QED
    BY <1>4, <1>6, <2>1, EnvironmentInOrder
<1>7. ASSUME NEW name \in Names, NEW binary \in Binaries, Run(s, name, binary) PROVE InOrder(s)'
  BY <1>1, <1>4, <1>7, RunInOrder DEF Run
<1> QED
  BY <1>2, <1>3, <1>5, <1>6, <1>7 DEF Next, Finished

LEMMA SequentialHolds ==
    ASSUME ~SshMayFail, NEW s \in Slots, Slots = {s}
    PROVE  Spec => []Sequential
<1>1. Typed /\ Sequential /\ [Next]_vars => Sequential'
  BY NextSequential
<1> QED
  BY <1>1, InitSequential, TypedHolds, PTL DEF Spec

\* One script after another, over a connection that works while the guest is up:
\* between scripts the PID files name every process of a debug session, at
\* whichever command the guest went down, a process ended or a script failed.
THEOREM SessionsAreRecorded ==
    ASSUME ~SshMayFail, NEW s \in Slots, Slots = {s}
    PROVE  Spec => []EverySessionIsRecorded
<1>1. Sequential => EverySessionIsRecorded
  BY IdleIsTyped
     DEF Sequential, InOrder, SessionIsKnown, TunnelIsKnown, GdbserverIsKnown, Quiet,
         EverySessionIsRecorded
<1> QED
  BY <1>1, SequentialHolds, PTL

\* Under the same assumptions a disable that succeeds ends the tunnel, and the
\* gdbserver if it got through to the guest: what the guide says of it
\* (docs/guides/sdk-cross-build-and-qemu-deployment.md:246).
THEOREM SessionsAreEnded ==
    ASSUME ~SshMayFail, NEW s \in Slots, Slots = {s}
    PROVE  Spec => []DisableEndsTheSession
<1>1. Sequential => DisableEndsTheSession
  BY DEF Sequential, InOrder, DisableHasEnded, Quiet, DisableEndsTheSession
<1> QED
  BY <1>1, SequentialHolds, PTL
=============================================================================
