------------------------------- MODULE Client -------------------------------
(***************************************************************************)
(* The client on one Linux host: agent processes (client/internal/agent,   *)
(* started by startAgent of client/cmd/quicktunnel/main.go) and what they  *)
(* share without a lock: the device, known to all by the name qtun0, the   *)
(* PID file and the configuration.  Commands of the user run beside them;  *)
(* systemd (external) keeps the installed service running.                 *)
(*                                                                         *)
(* A process executes runUp or runJoin, then Agent.Start, waits for a      *)
(* signal, and executes Agent.Stop and the deferred calls.  What the peer  *)
(* manager does meanwhile is PeerManager.tla.                              *)
(***************************************************************************)
EXTENDS Naturals, FiniteSets

CONSTANTS
    NONE,
    MaxStarts,  \* bound: processes started
    MaxCmds,    \* bound: commands of the user other than up and join
    MaxFaults,  \* bound: failures of commands and files, untimely interrupts
    MaxFailures \* bound: heartbeat failures counted

ASSUME ClientAssumption ==
    /\ {MaxStarts, MaxCmds, MaxFaults, MaxFailures} \subseteq Nat
    /\ MaxFailures > 0
    /\ NONE \notin Nat

VARIABLES
    proc,     \* process -> its program counter and its Agent
    device,   \* the process whose device has the name qtun0, or NONE
    pidfile,  \* the process in the PID file, or NONE
    config,   \* the configuration file: NONE, or its network and member credentials
    cmd,      \* the user's command under way
    service,  \* systemd's unit: absent, on, stopping or off
    main,     \* the process of the unit, or NONE
    joins, starts, cmds, faults,
    shared    \* history: processes that lived beside another one

vars == <<proc, device, pidfile, config, cmd, service, main, joins, starts, cmds, faults,
          shared>>

Procs == 1 .. MaxStarts  \* process ids, none of them used twice

Dead == [pc |-> "dead", state |-> "Init", threads |-> {}, failures |-> 0,
         tunnel |-> FALSE, cfg |-> NONE]

Pc(p) == proc[p].pc
Alive(p) == Pc(p) # "dead"
Live == {p \in Procs : Alive(p)}
Goto(p, pc) == proc' = [proc EXCEPT ![p].pc = pc]
Dies(p) == proc' = [proc EXCEPT ![p] = Dead]

Fault == faults < MaxFaults /\ faults' = faults + 1
Fine == UNCHANGED faults

NoConfig == [network |-> FALSE, member |-> NONE]

Init ==
    /\ proc = [p \in Procs |-> Dead]
    /\ device = NONE
    /\ pidfile = NONE
    /\ config = NONE
    /\ cmd = [pc |-> "none"]
    /\ service = "absent"
    /\ main = NONE
    /\ joins = 0 /\ starts = 0 /\ cmds = 0 /\ faults = 0
    /\ shared = {}

-----------------------------------------------------------------------------
(* Processes: runUp, runJoin, and Agent.Start *)

\* A process is started at pc; who lives beside another one goes into shared.
Begin(p, pc) ==
    /\ p = starts + 1
    /\ starts' = p
    /\ proc' = [proc EXCEPT ![p] = [Dead EXCEPT !.pc = pc]]
    /\ shared' = IF Live = {} THEN shared ELSE shared \cup Live \cup {p}

runUp(p) ==
    /\ Begin(p, "load")
    /\ UNCHANGED <<device, pidfile, config, cmd, service, main, joins, cmds, faults>>

runJoin(p) ==
    /\ Begin(p, "join")
    /\ UNCHANGED <<device, pidfile, config, cmd, service, main, joins, cmds, faults>>

\* The server's answer: approved at once or after polls, or an error or rejection,
\* which end the command.
JoinAnswer(p, approved) ==
    /\ Pc(p) = "join"
    /\ IF approved THEN joins' = joins + 1 /\ proc' = [proc EXCEPT ![p].pc = "save",
                            ![p].cfg = [network |-> TRUE, member |-> joins + 1]]
                   ELSE Dies(p) /\ UNCHANGED joins
    /\ UNCHANGED <<device, pidfile, config, cmd, service, main, starts, cmds, faults, shared>>

\* config.Save, then startAgent, or with -install runInstall.
JoinSave(p) ==
    /\ Pc(p) = "save"
    /\ \/ config' = proc[p].cfg /\ Goto(p, "auth") /\ Fine /\ UNCHANGED service
       \/ config' = proc[p].cfg /\ Dies(p) /\ Fine /\ service' = "on"
       \/ Dies(p) /\ Fault /\ UNCHANGED <<config, service>>
    /\ UNCHANGED <<device, pidfile, cmd, main, joins, starts, cmds, shared>>

\* config.Load: without a file there are defaults, and no network.
Load(p) ==
    /\ Pc(p) = "load"
    /\ proc' = [proc EXCEPT ![p].pc = "auth",
                            ![p].cfg = IF config = NONE THEN NoConfig ELSE config]
    /\ UNCHANGED <<device, pidfile, config, cmd, service, main, joins, starts, cmds, faults,
                   shared>>

\* Start: a member has its credentials; otherwise the device logs in if it must and
\* registers with a new key, each of which may fail.
Authenticate(p) ==
    /\ Pc(p) = "auth"
    /\ IF ~proc[p].cfg.network THEN Dies(p) /\ Fine
       ELSE IF proc[p].cfg.member # NONE
       THEN /\ proc' = [proc EXCEPT ![p].pc = "unlink", ![p].state = "Authenticating",
                                    ![p].cfg = NONE]
            /\ Fine
       ELSE \/ proc' = [proc EXCEPT ![p].pc = "unlink", ![p].state = "Registering",
                                    ![p].cfg = NONE]
               /\ Fine
            \/ Dies(p) /\ Fault
    /\ UNCHANGED <<device, pidfile, config, cmd, service, main, joins, starts, cmds, shared>>

\* Mutant: the device of an earlier process is left where it is.
Unlinked_Not(p) == device

\* CreateTUN: ip link delete, whoever's the device is ...
Unlinked(p) == NONE

TunDelete(p) ==
    /\ Pc(p) = "unlink"
    /\ device' = Unlinked(p)
    /\ Goto(p, "link")
    /\ UNCHANGED <<pidfile, config, cmd, service, main, joins, starts, cmds, faults, shared>>

\* ... and ip link add, which fails when there is one; a failed Configure deletes it,
\* a failed ip link set does not.
TunAdd(p) ==
    /\ Pc(p) = "link"
    /\ \/ /\ device = NONE
          /\ device' = p
          /\ proc' = [proc EXCEPT ![p].pc = "connect", ![p].state = "Discovering",
                                  ![p].tunnel = TRUE]
          /\ Fine
       \/ device # NONE /\ Dies(p) /\ Fine /\ UNCHANGED device
       \/ device = NONE /\ Dies(p) /\ Fault /\ device' \in {NONE, p}
    /\ UNCHANGED <<pidfile, config, cmd, service, main, joins, starts, cmds, shared>>

\* The rest of Start: the endpoint is discovered and announced, which may fail, the
\* peer manager and the loops are started.  Packets are forwarded by two more
\* goroutines, for the device and for the UDP socket, when WireGuard does not do it
\* and the socket exists.  The goroutines that only watch ctx (vncDiscoveryLoop,
\* qualityMonitorLoop, the reader of the device) are left out.  Launching the heartbeat
\* loop and Set(Running), the statement after it, are one step: the loop does nothing
\* before its first tick, ten seconds later at the earliest.
Connect(p, forwarding) ==
    /\ Pc(p) = "connect"
    /\ proc' = [proc EXCEPT ![p].pc = "started", ![p].state = "Running",
                            ![p].threads = {"heartbeat"} \cup
                                           (IF forwarding THEN {"udp"} ELSE {})]
    /\ UNCHANGED <<device, pidfile, config, cmd, service, main, joins, starts, cmds, faults,
                   shared>>

\* startAgent: writePIDFile, whose failure is only logged, and then signal.Notify.
WritePID(p) ==
    /\ Pc(p) = "started"
    /\ (pidfile' = p /\ Fine) \/ (UNCHANGED pidfile /\ Fault)
    /\ Goto(p, "notify")
    /\ UNCHANGED <<device, config, cmd, service, main, joins, starts, cmds, shared>>

Notify(p) ==
    /\ Pc(p) = "notify"
    /\ Goto(p, "wait")
    /\ UNCHANGED <<device, pidfile, config, cmd, service, main, joins, starts, cmds, faults,
                   shared>>

-----------------------------------------------------------------------------
(* heartbeatLoop *)

Beating(p) == "heartbeat" \in proc[p].threads

\* The backoff before the next one ends early when ctx is done, as the wait for the
\* ticker does.
HeartbeatFails(p) ==
    /\ Beating(p) /\ proc[p].failures < MaxFailures
    /\ proc' = [proc EXCEPT ![p].state = "Reconnecting", ![p].failures = @ + 1]
    /\ UNCHANGED <<device, pidfile, config, cmd, service, main, joins, starts, cmds, faults,
                   shared>>

\* Mutant: the count is not reset.
Beaten_KeepsCount(a) == [a EXCEPT !.state = "Running"]

\* A heartbeat after failures.
Beaten(a) == [a EXCEPT !.failures = 0, !.state = "Running"]

HeartbeatSucceeds(p) ==
    /\ Beating(p) /\ proc[p].failures > 0
    /\ proc' = [proc EXCEPT ![p] = Beaten(@)]
    /\ UNCHANGED <<device, pidfile, config, cmd, service, main, joins, starts, cmds, faults,
                   shared>>

-----------------------------------------------------------------------------
(* Signals, and Agent.Stop *)

\* SIGTERM: before Notify and after signal.Stop it ends the process at once; the
\* first one after Notify starts the shutdown, others stay in the channel.
Signalled(p) ==
    CASE Pc(p) = "wait" -> [proc[p] EXCEPT !.pc = "stop"]
      [] Pc(p) \in {"dead", "stop", "drain"} -> proc[p]
      [] OTHER -> Dead

\* The user's Ctrl+C, at any time; only in the wait is it expected.
Interrupt(p) ==
    /\ Alive(p) /\ p # main
    /\ IF Pc(p) = "wait" THEN Fine ELSE Fault
    /\ proc' = [proc EXCEPT ![p] = Signalled(p)]
    /\ UNCHANGED <<device, pidfile, config, cmd, service, main, joins, starts, cmds, shared>>

\* Mutant: ctx is cancelled after the wait for the goroutines.
Cancel_Late(p) ==
    /\ Pc(p) = "stop" /\ proc[p].threads = {}
    /\ Goto(p, "drain")
    /\ UNCHANGED <<device, pidfile, config, cmd, service, main, joins, starts, cmds, faults,
                   shared>>

\* a.cancel()
Cancel(p) ==
    /\ Pc(p) = "stop"
    /\ Goto(p, "drain")
    /\ UNCHANGED <<device, pidfile, config, cmd, service, main, joins, starts, cmds, faults,
                   shared>>

\* The heartbeat loop sees ctx.Done.
HeartbeatEnds(p) ==
    /\ Pc(p) = "drain" /\ Beating(p)
    /\ proc' = [proc EXCEPT ![p].threads = @ \ {"heartbeat"}]
    /\ UNCHANGED <<device, pidfile, config, cmd, service, main, joins, starts, cmds, faults,
                   shared>>

\* The UDP reader sees it when ReadFromUDP has returned: when a datagram came.
DatagramArrives(p) ==
    /\ Pc(p) = "drain" /\ "udp" \in proc[p].threads
    /\ proc' = [proc EXCEPT ![p].threads = @ \ {"udp"}]
    /\ UNCHANGED <<device, pidfile, config, cmd, service, main, joins, starts, cmds, faults,
                   shared>>

\* Mutant: the tunnel is closed without waiting.
Drained_Not(p) == Pc(p) = "drain"

\* a.wg.Wait returns.
Drained(p) == Pc(p) = "drain" /\ proc[p].threads = {}

\* tunnel.Stop: ip link delete, by name; it fails when the device is gone or busy,
\* and the tunnel counts as started.
TunnelStop(p, a) ==
    \/ /\ ~a.tunnel
       /\ proc' = [proc EXCEPT ![p] = a] /\ UNCHANGED device /\ Fine
    \/ /\ a.tunnel /\ device # NONE
       /\ device' = NONE
       /\ proc' = [proc EXCEPT ![p] = [a EXCEPT !.tunnel = FALSE]] /\ Fine
    \/ /\ a.tunnel /\ device = NONE
       /\ proc' = [proc EXCEPT ![p] = a] /\ UNCHANGED device /\ Fine
    \/ /\ a.tunnel /\ device # NONE
       /\ proc' = [proc EXCEPT ![p] = a] /\ UNCHANGED device /\ Fault

\* Mutant: the state is left as it was.
StopEnds_NoState(p) == [proc[p] EXCEPT !.pc = "defer"]

\* What Stop leaves of the agent.
StopEnds(p) == [proc[p] EXCEPT !.pc = "defer", !.state = "Stopped"]

AgentStop(p) ==
    /\ Drained(p)
    /\ TunnelStop(p, StopEnds(p))
    /\ UNCHANGED <<pidfile, config, cmd, service, main, joins, starts, cmds, shared>>

\* The deferred removePIDFile, whoever's the file is ...
RemovePID(p) ==
    /\ Pc(p) = "defer"
    /\ pidfile' = NONE
    /\ Goto(p, "again")
    /\ UNCHANGED <<device, config, cmd, service, main, joins, starts, cmds, faults, shared>>

\* ... and the deferred second Stop, with which the process ends.
StopAgain(p) ==
    /\ Pc(p) = "again"
    /\ device' = IF proc[p].tunnel THEN NONE ELSE device
    /\ Dies(p)
    /\ UNCHANGED <<pidfile, config, cmd, service, main, joins, starts, cmds, faults, shared>>

-----------------------------------------------------------------------------
(* Commands of the user *)

Ready == cmd.pc = "none" /\ cmds < MaxCmds /\ cmds' = cmds + 1
CmdAt(pc) == cmd.pc = pc
Ends == cmd' = [pc |-> "none"]

\* runDown reads the file and signals; without a file it is over.
DownSignals ==
    IF pidfile = NONE THEN UNCHANGED proc
    ELSE proc' = [proc EXCEPT ![pidfile] = Signalled(pidfile)]

runDown ==
    /\ Ready
    /\ DownSignals
    /\ cmd' = IF pidfile = NONE THEN cmd ELSE [pc |-> "remove", reset |-> FALSE]
    /\ UNCHANGED <<device, pidfile, config, service, main, joins, starts, faults, shared>>

runReset ==
    /\ Ready
    /\ DownSignals
    /\ cmd' = [pc |-> IF pidfile = NONE THEN "stop" ELSE "remove", reset |-> TRUE]
    /\ UNCHANGED <<device, pidfile, config, service, main, joins, starts, faults, shared>>

\* removePIDFile of runDown.
DownRemoves ==
    /\ CmdAt("remove")
    /\ pidfile' = NONE
    /\ IF cmd.reset THEN cmd' = [cmd EXCEPT !.pc = "stop"] ELSE Ends
    /\ UNCHANGED <<proc, device, config, service, main, joins, starts, cmds, faults, shared>>

\* runReset goes on with systemctl stop, which waits for the process, and ...
StopService ==
    /\ CmdAt("stop")
    /\ IF service = "on"
       THEN /\ service' = "stopping"
            /\ proc' = IF main = NONE THEN proc ELSE [proc EXCEPT ![main] = Signalled(main)]
       ELSE UNCHANGED <<service, proc>>
    /\ cmd' = [cmd EXCEPT !.pc = "uninstall"]
    /\ UNCHANGED <<device, pidfile, config, main, joins, starts, cmds, faults, shared>>

\* ... disable, the removal of the unit and daemon-reload.
UninstallService ==
    /\ CmdAt("uninstall") /\ service # "stopping"
    /\ service' = "absent"
    /\ main' = NONE
    /\ IF cmd.reset THEN cmd' = [cmd EXCEPT !.pc = "wipe"] ELSE Ends
    /\ UNCHANGED <<proc, device, pidfile, config, joins, starts, cmds, faults, shared>>

WipeConfig ==
    /\ CmdAt("wipe")
    /\ config' = NONE
    /\ Ends
    /\ UNCHANGED <<proc, device, pidfile, service, main, joins, starts, cmds, faults, shared>>

\* runUninstall is the middle part of it.
runUninstall ==
    /\ Ready
    /\ cmd' = [pc |-> "stop", reset |-> FALSE]
    /\ UNCHANGED <<proc, device, pidfile, config, service, main, joins, starts, faults, shared>>

\* runInstall: unit written, enabled, started, if there is a network to connect to.
runInstall ==
    /\ Ready
    /\ config # NONE /\ config.network
    /\ service' = "on"
    /\ UNCHANGED <<proc, device, pidfile, config, cmd, main, joins, starts, faults, shared>>

\* runLogin: the file is read, the server asked, the file written.  runConfig does
\* the same to another field; network stands for network_id.
ReadConfig ==
    /\ Ready
    /\ cmd' = [pc |-> "write", cfg |-> IF config = NONE THEN NoConfig ELSE config]
    /\ UNCHANGED <<proc, device, pidfile, config, service, main, joins, starts, faults, shared>>

runLogin ==
    /\ CmdAt("write")
    /\ config' \in {cmd.cfg, config}
    /\ Ends
    /\ UNCHANGED <<proc, device, pidfile, service, main, joins, starts, cmds, faults, shared>>

runConfig ==
    /\ CmdAt("write")
    /\ config' = [cmd.cfg EXCEPT !.network = TRUE]
    /\ Ends
    /\ UNCHANGED <<proc, device, pidfile, service, main, joins, starts, cmds, faults, shared>>

-----------------------------------------------------------------------------
(* systemd (external): Type=simple, Restart=always, TimeoutStopSec *)

Restart(p) ==
    /\ service = "on"
    /\ main \notin Live
    /\ Begin(p, "load")
    /\ main' = p
    /\ UNCHANGED <<device, pidfile, config, cmd, service, joins, cmds, faults>>

\* The process of a stopping unit gets SIGKILL when it has not ended in time.
Kill ==
    /\ service = "stopping" /\ main \in Live
    /\ Dies(main)
    /\ UNCHANGED <<device, pidfile, config, cmd, service, main, joins, starts, cmds, faults,
                   shared>>

ServiceStops ==
    /\ service = "stopping" /\ main \notin Live
    /\ service' = "off"
    /\ UNCHANGED <<proc, device, pidfile, config, cmd, main, joins, starts, cmds, faults,
                   shared>>

-----------------------------------------------------------------------------
\* Steps of a process; a datagram and the failures of heartbeats are not its own.
Step(p) ==
    \/ JoinSave(p) \/ Load(p) \/ Authenticate(p) \/ TunDelete(p) \/ TunAdd(p)
    \/ \E forwarding \in BOOLEAN : Connect(p, forwarding)
    \/ WritePID(p) \/ Notify(p)
    \/ Cancel(p)
    \/ AgentStop(p) \/ RemovePID(p) \/ StopAgain(p)

Command ==
    \/ DownRemoves \/ StopService \/ UninstallService \/ WipeConfig \/ runLogin \/ runConfig

Systemd == (\E p \in Procs : Restart(p)) \/ Kill \/ ServiceStops

User ==
    \/ \E p \in Procs : runUp(p) \/ runJoin(p) \/ Interrupt(p)
    \/ runDown \/ runReset \/ runUninstall \/ runInstall \/ ReadConfig

Next ==
    \/ User \/ Command \/ Systemd
    \/ \E p \in Procs :
          \/ Step(p) \/ HeartbeatEnds(p) \/ DatagramArrives(p)
          \/ \E approved \in BOOLEAN : JoinAnswer(p, approved)
          \/ HeartbeatFails(p) \/ HeartbeatSucceeds(p)

Spec == Init /\ [][Next]_vars

\* Processes, commands and systemd run; select does not choose the ticker for ever.
\* The user may do nothing, the server not answer, and no datagram come.
Fairness ==
    /\ \A p \in Procs : WF_vars(Step(p)) /\ WF_vars(HeartbeatEnds(p))
    /\ WF_vars(Command)
    /\ WF_vars(Systemd)

FairSpec == Spec /\ Fairness

-----------------------------------------------------------------------------
\* Agent.Stop: once the agent is Stopped and its device is closed, none of its
\* goroutines is left to use the device or to set the state again.
QuietAfterStop ==
    \A p \in Procs : proc[p].state = "Stopped" => proc[p].threads = {}

\* heartbeatLoop: an agent that says Running, as the user is told, has no heartbeat
\* failures behind it, also when a heartbeat came during the shutdown.
RunningMeansBeating ==
    \A p \in Procs : proc[p].state = "Running" => proc[p].failures = 0

\* An agent that no other process lived beside has the device for as long as it
\* says it is connected, whatever killed processes left behind.  (Two at a time take
\* the device from each other: the name is shared.)
AloneOwnsDevice ==
    \A p \in Procs \ shared :
        proc[p].state \in {"Running", "Reconnecting"} => device = p

\* startAgent: a process that was told to end does, its UDP reader permitting.
SignalEnds ==
    \A p \in Procs :
        (Pc(p) \in {"stop", "drain"} /\ "udp" \notin proc[p].threads) ~> ~Alive(p)

\* CreateTUN: an agent that no other process lives beside gets the device, whatever
\* a killed process left behind, unless it is killed itself or a command fails.
StaleDeviceReplaced ==
    [][\A p \in Procs \ shared :
         Pc(p) = "link" /\ Pc(p)' = "dead" => faults' # faults \/ service' = "stopping"]_vars
=============================================================================
