----------------------------- MODULE QemuSession -----------------------------
(***************************************************************************)
(* The development scripts under scripts/qemu: start, stop, deploy, enable *)
(* and disable a debug session.  They share a tmux session with the QEMU   *)
(* guest in it, an SSH tunnel on the host, a gdbserver in the guest, and a *)
(* PID file for each of the two, and nothing orders them but the user.     *)
(*                                                                         *)
(* One step is one command of a script: what it reads may be stale by the  *)
(* next.  Guest and processes live lives of their own in between.          *)
(***************************************************************************)
EXTENDS Naturals, FiniteSets

CONSTANTS
    Slots,         \* BOUND: the scripts that can run at a time
    Binaries,      \* the binaries that are deployed and debugged
    None,          \* no file, no process
    SshMayFail,    \* whether SSH can fail (time out) although the guest is up
    MaxScripts,    \* BOUND: how many scripts are started
    MaxInterrupts  \* BOUND: how many of them are killed half-way

ASSUME QemuAssumption ==
    /\ SshMayFail \in BOOLEAN
    /\ MaxScripts \in Nat /\ MaxInterrupts \in Nat
    /\ None \notin Nat \cup Binaries

VARIABLES
    vm,            \* the tmux session: "absent", or the state of the guest in it
    gdbservers,    \* the guest's gdbserver processes, [pid, binary]
    listening,     \* the PID that listens on the guest's port 2345, or None
    guestPidFile,  \* /tmp/adaptive-pi-gdbserver.pid, or None
    tunnels,       \* the PIDs of ssh -N -L on the host
    forwarding,    \* the one that listens on the host's port 2345, or None
    tunnelPidFile, \* build/qemu-debug/ssh-tunnel.pid, or None
    script,        \* what runs in each slot
    spawned,       \* the last PID given to a process
    started,       \* HISTORY: scripts started
    interrupts,    \* HISTORY: scripts killed
    ended          \* HISTORY: how the script ended that ended last

guest == <<vm, gdbservers, listening, guestPidFile>>
host == <<tunnels, forwarding, tunnelPidFile>>
counters == <<started, interrupts>>
vars == <<guest, host, script, spawned, counters, ended>>

\* `tunnel` is the PID a script has read or started; HISTORY: `reached`, whether
\* disable-debug-session got through to the guest, `alone`, whether no other
\* script ran at any time while this one did.
Idle == [name |-> "none", step |-> "Idle", binary |-> None, tunnel |-> None,
         reached |-> FALSE, alone |-> FALSE]

Init ==
    /\ vm = "absent"
    /\ gdbservers = {} /\ listening = None /\ guestPidFile = None
    /\ tunnels = {} /\ forwarding = None /\ tunnelPidFile = None
    /\ script = [s \in Slots |-> Idle]
    /\ spawned = 0 /\ started = 0 /\ interrupts = 0
    /\ ended = [name |-> "none", status |-> 0, reached |-> FALSE, alone |-> FALSE]

-----------------------------------------------------------------------------
(* The guest, the processes and the user *)

\* Everything in the guest ends with it, and /tmp is volatile.
GuestGone ==
    vm' = "absent" /\ gdbservers' = {} /\ listening' = None /\ guestPidFile' = None

Booted ==
    /\ vm = "booting" /\ vm' = "up"
    /\ UNCHANGED <<gdbservers, listening, guestPidFile, host, script, spawned, counters, ended>>

\* QEMU exits: the guest has powered off, could not boot, or crashed.
QemuExits ==
    vm # "absent" /\ GuestGone /\ UNCHANGED <<host, script, spawned, counters, ended>>

Pids == {g.pid : g \in gdbservers}

\* A gdbserver that finds the port taken exits.
GdbserverListens(g) ==
    /\ g \in gdbservers /\ listening # g.pid
    /\ IF listening = None THEN listening' = g.pid /\ UNCHANGED gdbservers
       ELSE gdbservers' = gdbservers \ {g} /\ UNCHANGED listening
    /\ UNCHANGED <<vm, guestPidFile, host, script, spawned, counters, ended>>

KillGdbserver(pid) ==
    /\ gdbservers' = {g \in gdbservers : g.pid # pid}
    /\ listening' = IF listening = pid THEN None ELSE listening

\* The debuggee ends, or could not be started.
GdbserverExits(g) ==
    /\ g \in gdbservers
    /\ KillGdbserver(g.pid)
    /\ UNCHANGED <<vm, guestPidFile, host, script, spawned, counters, ended>>

KillTunnel(p) ==
    /\ tunnels' = tunnels \ {p}
    /\ forwarding' = IF forwarding = p THEN None ELSE forwarding

\* ExitOnForwardFailure.
TunnelForwards(p) ==
    /\ p \in tunnels /\ forwarding # p /\ vm = "up"
    /\ IF forwarding = None THEN forwarding' = p /\ UNCHANGED tunnels
       ELSE KillTunnel(p)
    /\ UNCHANGED <<tunnelPidFile, guest, script, spawned, counters, ended>>

\* The connection is lost, which the end of the guest brings about sometime.
TunnelExits(p) ==
    /\ p \in tunnels
    /\ KillTunnel(p)
    /\ UNCHANGED <<tunnelPidFile, guest, script, spawned, counters, ended>>

FirstStep == [start |-> "StartCheck", stop |-> "StopCheck", forced |-> "StopCheck",
              deploy |-> "DeployCheck", enable |-> "EnableCheck", disable |-> "ReadTunnelFile"]

\* The user starts a script; "forced" is stop-development-image.sh --force.
Run(s, name, binary) ==
    /\ script[s] = Idle /\ started < MaxScripts
    /\ started' = started + 1
    /\ script' = [t \in Slots |->
          IF t # s THEN [script[t] EXCEPT !.alone = FALSE]
          ELSE [Idle EXCEPT !.name = name, !.binary = binary, !.step = FirstStep[name],
                            !.alone = \A u \in Slots : script[u] = Idle]]
    /\ UNCHANGED <<guest, host, spawned, interrupts, ended>>

\* The script is killed.  What it has put in the background lives on.
Interrupt(s) ==
    /\ script[s] # Idle /\ interrupts < MaxInterrupts
    /\ interrupts' = interrupts + 1
    /\ script' = [script EXCEPT ![s] = Idle]
    /\ ended' = [name |-> script[s].name, status |-> 130, reached |-> FALSE, alone |-> FALSE]
    /\ UNCHANGED <<guest, host, spawned, started>>

-----------------------------------------------------------------------------
(* The shell *)

At(s, step) == script[s].step = step

Is(s, name) == script[s].name = name

\* Go on with a step, the rest of the script unchanged.
Then(s, step) == script' = [script EXCEPT ![s].step = step] /\ UNCHANGED <<counters, ended>>

ExitReaching(s, status, reached) ==
    /\ script' = [script EXCEPT ![s] = Idle]
    /\ ended' = [name |-> script[s].name, status |-> status,
                 reached |-> reached, alone |-> script[s].alone]
    /\ UNCHANGED counters

Exit(s, status) == ExitReaching(s, status, script[s].reached)

SshWorks == vm = "up"
SshFails == vm # "up" \/ SshMayFail

\* A command that reads, on which the script goes on or exits with a status.
Decide(s, step, condition, next, status) ==
    /\ At(s, step)
    /\ IF condition THEN Then(s, next) ELSE Exit(s, status)
    /\ UNCHANGED <<guest, host, spawned>>

\* `ssh true`, and every other SSH command whose failure ends the script.
SshOrExit(s, step, next) ==
    /\ At(s, step)
    /\ \/ SshWorks /\ Then(s, next)
       \/ SshFails /\ Exit(s, 1)
    /\ UNCHANGED <<guest, host, spawned>>

-----------------------------------------------------------------------------
(* start-development-image.sh *)

StartCheck(s) == Decide(s, "StartCheck", vm = "absent", "NewSession", 1)

\* tmux refuses a second session of the same name.
NewSession(s) ==
    /\ At(s, "NewSession")
    /\ \/ vm = "absent" /\ vm' = "booting" /\ Then(s, "AwaitSsh")
       \/ vm # "absent" /\ UNCHANGED vm /\ Exit(s, 1)
    /\ UNCHANGED <<gdbservers, listening, guestPidFile, host, spawned>>

\* MUTANT: the wait for SSH has no limit.
AwaitSsh_Forever(s) ==
    /\ At(s, "AwaitSsh")
    /\ \/ SshWorks /\ Exit(s, 0)
       \/ vm = "absent" /\ Exit(s, 1)
    /\ UNCHANGED <<guest, host, spawned>>

\* Sixty attempts: SSH answers, the session is gone, or time is up.
AwaitSsh(s) ==
    /\ At(s, "AwaitSsh")
    /\ \/ SshWorks /\ Exit(s, 0)
       \/ SshFails /\ Exit(s, 1)
    /\ UNCHANGED <<guest, host, spawned>>

-----------------------------------------------------------------------------
(* stop-development-image.sh [--force] *)

StopCheck(s) == Decide(s, "StopCheck", vm # "absent", "PowerOff", 0)

\* MUTANT: the tmux session ends, but not the guest in it.
KillSession_SessionOnly(s) ==
    IF Is(s, "forced") /\ vm # "absent"
    THEN vm' = "absent" /\ UNCHANGED <<gdbservers, listening, guestPidFile>> /\ Exit(s, 0)
    ELSE UNCHANGED guest /\ Exit(s, 1)

\* tmux kill-session, only with --force.  It fails, and ends the script, if the
\* session has gone meanwhile.
KillSession(s) ==
    IF Is(s, "forced") /\ vm # "absent" THEN GuestGone /\ Exit(s, 0)
    ELSE UNCHANGED guest /\ Exit(s, 1)

PowerOff(s) ==
    /\ At(s, "PowerOff")
    /\ \/ /\ SshWorks
          /\ vm' = "halting" /\ Then(s, "AwaitStop")
          /\ UNCHANGED <<gdbservers, listening, guestPidFile>>
       \/ SshFails /\ KillSession(s)
    /\ UNCHANGED <<host, spawned>>

\* Thirty attempts, with a second between the last of them and the end.
AwaitStop(s) ==
    /\ At(s, "AwaitStop")
    /\ \/ vm = "absent" /\ UNCHANGED guest /\ Exit(s, 0)
       \/ KillSession(s)
    /\ UNCHANGED <<host, spawned>>

-----------------------------------------------------------------------------
(* deploy-binary.sh, alone and inside enable-debug-session.sh *)

DeployCheck(s) == Decide(s, "DeployCheck", vm # "absent", "DeploySsh", 1)
DeploySsh(s) == SshOrExit(s, "DeploySsh", "Copy")

\* mkdir, scp, chmod.  A file that is being executed cannot be written.
Copy(s) ==
    /\ At(s, "Copy")
    /\ LET busy == \E g \in gdbservers : g.binary = script[s].binary
       IN  \/ /\ SshWorks /\ ~busy
              /\ IF Is(s, "enable") THEN Then(s, "StartGdbserver") ELSE Exit(s, 0)
           \/ (SshFails \/ busy) /\ Exit(s, 1)
    /\ UNCHANGED <<guest, host, spawned>>

-----------------------------------------------------------------------------
(* enable-debug-session.sh *)

EnableCheck(s) == Decide(s, "EnableCheck", vm # "absent", "EnableSsh", 1)
EnableSsh(s) == SshOrExit(s, "EnableSsh", "CheckTunnelFile")

\* kill -0 on the recorded PID: a live tunnel is a session, a dead one stale.
CheckTunnelFile(s) ==
    /\ At(s, "CheckTunnelFile")
    /\ IF tunnelPidFile = None THEN Then(s, "CheckPort")
       ELSE IF tunnelPidFile \in tunnels THEN Exit(s, 1)
       ELSE Then(s, "DropTunnelFile")
    /\ UNCHANGED <<guest, host, spawned>>

DropTunnelFile(s) ==
    /\ At(s, "DropTunnelFile")
    /\ tunnelPidFile' = None /\ Then(s, "CheckPort")
    /\ UNCHANGED <<guest, tunnels, forwarding, spawned>>

CheckPort(s) == Decide(s, "CheckPort", forwarding = None, "CheckGuest", 1)

\* The condition of an `if`: an SSH failure counts as "not running".
CheckGuest(s) ==
    /\ At(s, "CheckGuest")
    /\ \/ SshWorks /\ guestPidFile \in Pids /\ Exit(s, 1)
       \/ (SshFails \/ guestPidFile \notin Pids) /\ Then(s, "DeployCheck")
    /\ UNCHANGED <<guest, host, spawned>>

\* gdbserver in the background, its PID to the file; the connection may be lost
\* before or after that.
StartGdbserver(s) ==
    /\ At(s, "StartGdbserver")
    /\ \/ /\ SshWorks
          /\ spawned' = spawned + 1
          /\ gdbservers' = gdbservers \cup {[pid |-> spawned', binary |-> script[s].binary]}
          /\ guestPidFile' = spawned'
          /\ Then(s, "CheckGdbserver") \/ (SshFails /\ Exit(s, 1))
          /\ UNCHANGED <<vm, listening>>
       \/ SshFails /\ Exit(s, 1) /\ UNCHANGED <<guest, spawned>>
    /\ UNCHANGED host

CheckGdbserver(s) ==
    /\ At(s, "CheckGdbserver")
    /\ \/ SshWorks /\ guestPidFile \in Pids /\ Then(s, "StartTunnel")
       \/ (SshFails \/ guestPidFile \notin Pids) /\ Exit(s, 1)
    /\ UNCHANGED <<guest, host, spawned>>

StartTunnel(s) ==
    /\ At(s, "StartTunnel")
    /\ spawned' = spawned + 1
    /\ tunnels' = tunnels \cup {spawned'}
    /\ script' = [script EXCEPT ![s].step = "CheckTunnel", ![s].tunnel = spawned']
    /\ UNCHANGED <<guest, forwarding, tunnelPidFile, counters, ended>>

CheckTunnel(s) ==
    /\ At(s, "CheckTunnel")
    /\ Then(s, IF script[s].tunnel \in tunnels THEN "WriteTunnelFile" ELSE "GiveUp")
    /\ UNCHANGED <<guest, host, spawned>>

\* The gdbserver named by the file is stopped, if SSH works.
StopGdbserver == guestPidFile' = None /\ KillGdbserver(guestPidFile) /\ UNCHANGED vm

GiveUp(s) ==
    /\ At(s, "GiveUp")
    /\ (SshWorks /\ StopGdbserver) \/ (SshFails /\ UNCHANGED guest)
    /\ Exit(s, 1)
    /\ UNCHANGED <<host, spawned>>

\* MUTANT: the session is reported ready, but not recorded.
WriteTunnelFile_Forgotten(s) ==
    At(s, "WriteTunnelFile") /\ Exit(s, 0) /\ UNCHANGED <<guest, host, spawned>>

WriteTunnelFile(s) ==
    /\ At(s, "WriteTunnelFile")
    /\ tunnelPidFile' = script[s].tunnel
    /\ Exit(s, 0)
    /\ UNCHANGED <<guest, tunnels, forwarding, spawned>>

-----------------------------------------------------------------------------
(* disable-debug-session.sh *)

ReadTunnelFile(s) ==
    /\ At(s, "ReadTunnelFile")
    /\ IF tunnelPidFile = None THEN Then(s, "DisableCheck")
       ELSE /\ script' = [script EXCEPT
                  ![s].tunnel = tunnelPidFile,
                  ![s].step = IF tunnelPidFile \in tunnels THEN "Kill" ELSE "Forget"]
            /\ UNCHANGED <<counters, ended>>
    /\ UNCHANGED <<guest, host, spawned>>

\* kill fails on a process that has just gone, and ends the script.
Kill(s) ==
    /\ At(s, "Kill")
    /\ IF script[s].tunnel \in tunnels THEN Then(s, "Forget") ELSE Exit(s, 1)
    /\ KillTunnel(script[s].tunnel)
    /\ UNCHANGED <<guest, tunnelPidFile, spawned>>

Forget(s) ==
    /\ At(s, "Forget")
    /\ tunnelPidFile' = None /\ Then(s, "DisableCheck")
    /\ UNCHANGED <<guest, tunnels, forwarding, spawned>>

\* Without a guest, or SSH to it, the rest is skipped.
DisableCheck(s) ==
    /\ At(s, "DisableCheck")
    /\ \/ SshWorks /\ Then(s, "FindGdbserver")
       \/ SshFails /\ Exit(s, 0)
    /\ UNCHANGED <<guest, host, spawned>>

FindGdbserver(s) ==
    /\ At(s, "FindGdbserver")
    /\ \/ SshWorks /\ guestPidFile \in Pids /\ Then(s, "KillGdbserver")
       \/ /\ SshWorks /\ guestPidFile \notin Pids
          /\ script' = [script EXCEPT ![s].step = "ForgetGdbserver", ![s].reached = TRUE]
          /\ UNCHANGED <<counters, ended>>
       \/ SshFails /\ Then(s, "ForgetGdbserver")
    /\ UNCHANGED <<guest, host, spawned>>

\* MUTANT: the file is removed and the process forgotten.
EndGdbserver_FileOnly(s) ==
    /\ At(s, "KillGdbserver") /\ SshWorks
    /\ guestPidFile' = None
    /\ ExitReaching(s, 0, TRUE)
    /\ UNCHANGED <<vm, gdbservers, listening, host, spawned>>

EndGdbserver(s) ==
    /\ At(s, "KillGdbserver")
    /\ \/ SshWorks /\ StopGdbserver /\ ExitReaching(s, 0, TRUE)
       \/ SshFails /\ UNCHANGED guest /\ Exit(s, 1)
    /\ UNCHANGED <<host, spawned>>

\* The script succeeds whether or not it could remove the file.
ForgetGdbserver(s) ==
    /\ At(s, "ForgetGdbserver")
    /\ (SshWorks /\ guestPidFile' = None) \/ (SshFails /\ UNCHANGED guestPidFile)
    /\ Exit(s, 0)
    /\ UNCHANGED <<vm, gdbservers, listening, host, spawned>>

-----------------------------------------------------------------------------
ScriptStep(s) ==
    \/ StartCheck(s) \/ NewSession(s) \/ AwaitSsh(s)
    \/ StopCheck(s) \/ PowerOff(s) \/ AwaitStop(s)
    \/ DeployCheck(s) \/ DeploySsh(s) \/ Copy(s)
    \/ EnableCheck(s) \/ EnableSsh(s) \/ CheckTunnelFile(s) \/ DropTunnelFile(s)
    \/ CheckPort(s) \/ CheckGuest(s) \/ StartGdbserver(s) \/ CheckGdbserver(s)
    \/ StartTunnel(s) \/ CheckTunnel(s) \/ GiveUp(s) \/ WriteTunnelFile(s)
    \/ ReadTunnelFile(s) \/ Kill(s) \/ Forget(s) \/ DisableCheck(s)
    \/ FindGdbserver(s) \/ EndGdbserver(s) \/ ForgetGdbserver(s)

Environment ==
    \/ Booted \/ QemuExits
    \/ \E g \in gdbservers : GdbserverListens(g) \/ GdbserverExits(g)
    \/ \E p \in tunnels : TunnelForwards(p) \/ TunnelExits(p)

Names == {"start", "stop", "forced", "deploy", "enable", "disable"}

Finished == started = MaxScripts /\ (\A s \in Slots : script[s] = Idle) /\ UNCHANGED vars

Next ==
    \/ \E s \in Slots : ScriptStep(s) \/ Interrupt(s)
    \/ \E s \in Slots, name \in Names, binary \in Binaries : Run(s, name, binary)
    \/ Environment
    \/ Finished

\* Scripts run on; their waits are bounded.  The guest owes nobody anything.
Fairness == \A s \in Slots : WF_vars(ScriptStep(s))

Spec == Init /\ [][Next]_vars /\ Fairness

-----------------------------------------------------------------------------
(* Properties *)

Quiet == \A s \in Slots : script[s] = Idle

TypeOK ==
    /\ vm \in {"absent", "booting", "up", "halting"}
    /\ gdbservers \in SUBSET [pid : 1..spawned, binary : Binaries]
    /\ tunnels \in SUBSET (1..spawned)
    /\ listening \in Pids \cup {None} /\ forwarding \in tunnels \cup {None}
    /\ guestPidFile \in 1..spawned \cup {None} /\ tunnelPidFile \in 1..spawned \cup {None}
    /\ vm = "absent" => gdbservers = {} /\ guestPidFile = None
    /\ started \in 0..MaxScripts /\ interrupts \in 0..MaxInterrupts

\* Between scripts the PID files name every process of a debug session, whatever
\* failed half-way: otherwise neither a later disable nor the checks of a later
\* enable (enable-debug-session.sh:52-74) could find it.  (A script that is
\* killed between enable-debug-session.sh:98 and :118 does leave such a process.)
EverySessionIsRecorded ==
    Quiet /\ interrupts = 0 => tunnels \subseteq {tunnelPidFile} /\ Pids \subseteq {guestPidFile}

\* "This removes the host SSH tunnel and stops guest gdbserver"
\* (docs/guides/sdk-cross-build-and-qemu-deployment.md:246): after a disable
\* that succeeded, with no other script beside it and none killed before, no
\* tunnel to a running guest is left, nor a gdbserver if the guest was reached.
\* (A guest that is gone has taken its gdbserver along, and the tunnel will lose
\* its connection.)
DisableEndsTheSession ==
    /\ Quiet /\ interrupts = 0 /\ vm # "absent"
    /\ ended.name = "disable" /\ ended.status = 0 /\ ended.alone
    => tunnels = {} /\ (ended.reached => gdbservers = {})

\* Every script ends, however long the guest takes to boot or to halt.
EveryScriptEnds == \A s \in Slots : script[s] # Idle ~> script[s] = Idle
=============================================================================
