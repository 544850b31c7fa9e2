---------------------------- MODULE ClientProofs ----------------------------
(* Proofs about Client, for any number of processes, commands and faults.    *)
(* The inductive invariant adds to the properties where in its program an    *)
(* agent has goroutines, a state and the device, that processes which live   *)
(* at the same time are all in shared, and whose the PID file can be.        *)
EXTENDS Client, TLAPS

Settings == [network : BOOLEAN, member : Nat \cup {NONE}]

\* The points of a program before and after the loops are started.
Early == {"dead", "join", "save", "load", "auth", "unlink", "link", "connect"}
Looping == {"started", "notify", "wait", "stop", "drain"}
Late == {"defer", "again"}

States == {"Init", "Authenticating", "Registering", "Discovering", "Running", "Reconnecting",
           "Stopped"}

Agent == [pc : Early \cup Looping \cup Late, state : States,
          threads : SUBSET {"heartbeat", "udp"}, failures : Nat, tunnel : BOOLEAN,
          cfg : Settings \cup {NONE}]

Commands ==
    [pc : {"none"}]
      \cup [pc : {"remove", "stop", "uninstall", "wipe"}, reset : BOOLEAN]
      \cup [pc : {"write"}, cfg : Settings]

TypeOK ==
    /\ proc \in [Procs -> Agent]
    /\ device \in Procs \cup {NONE}
    /\ pidfile \in Procs \cup {NONE}
    /\ config \in Settings \cup {NONE}
    /\ cmd \in Commands
    /\ service \in {"absent", "on", "stopping", "off"}
    /\ main \in Procs \cup {NONE}
    /\ {joins, starts, cmds, faults} \subseteq Nat
    /\ shared \subseteq Procs

\* What the position of a process in its program says of its agent.
Consistent(a) ==
    /\ a.threads # {} => a.pc \in Looping
    /\ a.state \in {"Running", "Reconnecting"} => a.pc \in Looping
    /\ a.state = "Running" => a.failures = 0
    /\ a.state = "Stopped" => a.pc \in Late
    /\ a.pc \in Early => a.failures = 0

Agents == \A p \in Procs : Consistent(proc[p])

\* Two processes that live at the same time are both in shared.
Shares == \A p, q \in Procs : Alive(p) /\ Alive(q) /\ p # q => p \in shared

\* Alone, a process has the device from the moment it has added it, and finds none
\* of that name after it has deleted it.
Owns ==
    \A p \in Procs \ shared :
        /\ Pc(p) \in {"connect"} \cup Looping => device = p
        /\ Pc(p) = "link" => device = NONE

\* Ids are given in order.
Numbered == \A p \in Procs : Alive(p) \/ pidfile = p => p <= starts

\* A process writes its id after its loops are started.
Written == \A p \in Procs : pidfile = p => Pc(p) \notin Early \ {"dead"}

CInv == TypeOK /\ Agents /\ Shares /\ Owns /\ Numbered /\ Written

-----------------------------------------------------------------------------
(* What the steps of the model have in common *)

\* Nothing of the processes and their device changes; the PID file may be removed.
LEMMA NobodyMoves ==
    ASSUME CInv, TypeOK', UNCHANGED <<proc, device, starts, shared>>,
           pidfile' \in {pidfile, NONE}
    PROVE  CInv'
<1>1. Agents' /\ Shares' /\ Owns'
  BY DEF CInv, Agents, Consistent, Shares, Owns, Alive, Pc
<1>2. \A p \in Procs : pidfile' = p => pidfile = p
  BY ClientAssumption DEF Procs
<1>3. Numbered' /\ Written'
  BY <1>2 DEF CInv, Numbered, Written, Alive, Pc
<1> QED
  BY <1>1, <1>3 DEF CInv

\* One living process moves; others that live are in shared, and so is it.
LEMMA OneMoves ==
    ASSUME CInv, TypeOK', NEW p \in Procs, Alive(p),
           \A q \in Procs \ {p} : proc'[q] = proc[q],
           Consistent(proc'[p]), UNCHANGED <<starts, shared>>,
           pidfile' \in {pidfile, NONE, p}, pidfile' = p => Pc(p)' \notin Early \ {"dead"},
           p \notin shared /\ Pc(p)' \in {"connect"} \cup Looping => device' = p,
           p \notin shared /\ Pc(p)' = "link" => device' = NONE
    PROVE  CInv'
<1>1. Agents'
  BY DEF CInv, Agents, Consistent
<1>2. Shares'
  BY DEF CInv, Shares, Alive, Pc
<1>3. \A q \in Procs \ {p} : Alive(q) => q \in shared
  BY DEF CInv, Shares
<1>4. Owns'
  BY <1>3 DEF Owns, Alive, Pc, Looping
<1>5. Numbered'
  BY ClientAssumption DEF CInv, Numbered, Alive, Pc, Procs
<1>6. Written'
  BY ClientAssumption DEF CInv, Written, Pc, Procs
<1> QED
  BY <1>1, <1>2, <1>4, <1>5, <1>6 DEF CInv

\* A process is started: all that live are now in shared, if there was one.
LEMMA OneBegins ==
    ASSUME CInv, TypeOK', NEW p \in Procs, NEW c \in {"load", "join"}, Begin(p, c),
           UNCHANGED <<device, pidfile>>
    PROVE  CInv'
<1>1. /\ proc'[p] = [Dead EXCEPT !.pc = c]
      /\ \A q \in Procs \ {p} : proc'[q] = proc[q]
  BY DEF CInv, TypeOK, Begin
<1>2. Consistent(proc'[p])
  BY <1>1 DEF Consistent, Dead, Early, Looping, Late
<1>3. Agents'
  BY <1>1, <1>2 DEF CInv, Agents, Consistent
<1>4. Live' \subseteq Live \cup {p}
  BY <1>1 DEF Live, Alive, Pc
<1>5. Live = {} \/ Live' \subseteq shared'
  BY <1>4 DEF Begin
<1>6. Shares'
  BY <1>4, <1>5 DEF Shares, Live
<1>7. ASSUME NEW q \in Procs, q \notin shared' PROVE q = p \/ ~Alive(q)'
  BY <1>4, <1>5, <1>7 DEF Live
<1>8. Owns'
  BY <1>1, <1>7 DEF Owns, Alive, Pc, Dead, Looping
<1>9. Numbered'
  BY <1>1 DEF CInv, TypeOK, Numbered, Alive, Pc, Procs, Begin
<1>10. Written'
  BY <1>1 DEF CInv, TypeOK, Numbered, Written, Alive, Pc, Procs, Begin
<1> QED
  BY <1>3, <1>6, <1>8, <1>9, <1>10 DEF CInv

\* What is left of a dead process.
LEMMA DeadAgent == Dead \in Agent /\ Consistent(Dead) /\ Dead.pc = "dead"
BY DEF Dead, Agent, Consistent, Early, Looping, Late, States

\* What a signal makes of an agent.
LEMMA SignalledAgent ==
    ASSUME TypeOK, NEW p \in Procs
    PROVE  /\ Signalled(p) \in Agent
           /\ Consistent(proc[p]) => Consistent(Signalled(p))
           /\ Signalled(p).pc \notin Early \ {"dead"}
           /\ Signalled(p).pc \in Looping => Pc(p) \in Looping
           /\ ~Alive(p) => Signalled(p) = proc[p]
BY DeadAgent DEF TypeOK, Signalled, Agent, Consistent, Alive, Pc, Early, Looping, Late, States

-----------------------------------------------------------------------------
(* The type invariant *)

\* A process that is started has the state of a new agent.
LEMMA BegunTyped ==
    ASSUME TypeOK, NEW p \in Procs, NEW c \in {"load", "join"}, Begin(p, c)
    PROVE  proc' \in [Procs -> Agent] /\ starts' \in Nat /\ shared' \subseteq Procs
<1>1. [Dead EXCEPT !.pc = c] \in Agent
  BY DEF Dead, Agent, Early, Looping, Late, States
<1> QED
  BY <1>1, ClientAssumption DEF TypeOK, Begin, Live, Procs

\* Every step keeps the types.
LEMMA CTyped == TypeOK /\ [Next]_vars => TypeOK'
<1> SUFFICES ASSUME TypeOK, [Next]_vars PROVE TypeOK'
    OBVIOUS
<1> USE ClientAssumption, DeadAgent DEF TypeOK
<1>1. CASE UNCHANGED vars
  BY <1>1 DEF vars
<1>2. ASSUME NEW p \in Procs, JoinSave(p) PROVE TypeOK'
  BY <1>2 DEF JoinSave, Goto, Dies, Fine, Fault, Agent, Early, Looping, Late, States, Settings
<1>3. ASSUME NEW p \in Procs, Load(p) PROVE TypeOK'
  <2> DEFINE c == IF config = NONE THEN NoConfig ELSE config
  <2>1. c \in Settings
    BY DEF NoConfig, Settings
  <2>2. proc' = [proc EXCEPT ![p] = [@ EXCEPT !.pc = "auth", !.cfg = c]]
    BY <1>3 DEF Load
  <2> HIDE DEF c
  <2>3. [proc[p] EXCEPT !.pc = "auth", !.cfg = c] \in Agent
    BY <2>1 DEF Agent, Early, Looping, Late
  <2>4. proc' \in [Procs -> Agent]
    BY <2>2, <2>3
  <2> QED
    BY <1>3, <2>4 DEF Load
<1>4. ASSUME NEW p \in Procs, Authenticate(p) PROVE TypeOK'
  BY <1>4 DEF Authenticate, Dies, Fine, Fault, Agent, Early, Looping, Late, States, Settings
<1>5. ASSUME NEW p \in Procs, TunDelete(p) PROVE TypeOK'
  BY <1>5 DEF TunDelete, Unlinked, Goto, Agent, Early, Looping, Late, States, Settings
<1>6. ASSUME NEW p \in Procs, TunAdd(p) PROVE TypeOK'
  BY <1>6 DEF TunAdd, Dies, Fine, Fault, Agent, Early, Looping, Late, States, Settings
<1>7. ASSUME NEW p \in Procs, WritePID(p) PROVE TypeOK'
  BY <1>7 DEF WritePID, Goto, Fine, Fault, Agent, Early, Looping, Late, States, Settings
<1>8. ASSUME NEW p \in Procs, Notify(p) PROVE TypeOK'
  BY <1>8 DEF Notify, Goto, Agent, Early, Looping, Late, States, Settings
<1>9. ASSUME NEW p \in Procs, Cancel(p) PROVE TypeOK'
  BY <1>9 DEF Cancel, Goto, Agent, Early, Looping, Late, States, Settings
<1>10. ASSUME NEW p \in Procs, AgentStop(p) PROVE TypeOK'
  <2>1. /\ StopEnds(p) \in Agent
        /\ [StopEnds(p) EXCEPT !.tunnel = FALSE] \in Agent
    BY DEF StopEnds, Agent, Early, Looping, Late, States
  <2>2. proc' \in [Procs -> Agent]
    BY <1>10, <2>1 DEF AgentStop, TunnelStop
  <2>3. device' \in Procs \cup {NONE} /\ faults' \in Nat
    BY <1>10 DEF AgentStop, TunnelStop, Fine, Fault
  <2> QED
    BY <1>10, <2>2, <2>3 DEF AgentStop
<1>11. ASSUME NEW p \in Procs, RemovePID(p) PROVE TypeOK'
  BY <1>11 DEF RemovePID, Goto, Agent, Early, Looping, Late, States, Settings
<1>12. ASSUME NEW p \in Procs, StopAgain(p) PROVE TypeOK'
  BY <1>12 DEF StopAgain, Dies, Agent, Early, Looping, Late, States, Settings
<1>13. ASSUME NEW p \in Procs, HeartbeatEnds(p) PROVE TypeOK'
  BY <1>13 DEF HeartbeatEnds, Agent, Early, Looping, Late, States, Settings
<1>14. ASSUME NEW p \in Procs, DatagramArrives(p) PROVE TypeOK'
  BY <1>14 DEF DatagramArrives, Agent, Early, Looping, Late, States, Settings
<1>15. ASSUME NEW p \in Procs, HeartbeatFails(p) PROVE TypeOK'
  BY <1>15 DEF HeartbeatFails, Agent, Early, Looping, Late, States, Settings
<1>16. ASSUME NEW p \in Procs, HeartbeatSucceeds(p) PROVE TypeOK'
  <2>1. Beaten(proc[p]) \in Agent
    BY DEF Beaten, Agent, Early, Looping, Late, States
  <2> QED
    BY <1>16, <2>1 DEF HeartbeatSucceeds
<1>17. ASSUME NEW p \in Procs, runUp(p) PROVE TypeOK'
  BY <1>17, BegunTyped DEF runUp
<1>18. ASSUME NEW p \in Procs, runJoin(p) PROVE TypeOK'
  BY <1>18, BegunTyped DEF runJoin
<1>19. ASSUME NEW p \in Procs, Interrupt(p) PROVE TypeOK'
  BY <1>19, SignalledAgent DEF Interrupt, Fine, Fault, Agent, Early, Looping, Late, States,
     Settings
<1>20. ASSUME NEW p \in Procs, Restart(p) PROVE TypeOK'
  BY <1>20, BegunTyped DEF Restart
<1>21. ASSUME NEW p \in Procs, NEW approved \in BOOLEAN, JoinAnswer(p, approved) PROVE TypeOK'
  BY <1>21 DEF JoinAnswer, Dies, Agent, Early, Looping, Late, States, Settings
<1>22. ASSUME NEW p \in Procs, NEW forwarding \in BOOLEAN, Connect(p, forwarding) PROVE TypeOK'
  <2> DEFINE t == {"heartbeat"} \cup (IF forwarding THEN {"udp"} ELSE {})
  <2>1. t \in SUBSET {"heartbeat", "udp"}
    OBVIOUS
  <2>2. proc' = [proc EXCEPT ![p] = [@ EXCEPT !.pc = "started", !.state = "Running",
                                              !.threads = t]]
    BY <1>22 DEF Connect
  <2> HIDE DEF t
  <2>3. [proc[p] EXCEPT !.pc = "started", !.state = "Running", !.threads = t] \in Agent
    BY <2>1 DEF Agent, Early, Looping, Late, States
  <2>4. proc' \in [Procs -> Agent]
    BY <2>2, <2>3
  <2> QED
    BY <1>22, <2>4 DEF Connect
<1>23. CASE runDown
  BY <1>23, SignalledAgent DEF runDown, Ready, DownSignals, Commands
<1>24. CASE runReset
  BY <1>24, SignalledAgent DEF runReset, Ready, DownSignals, Commands
<1>25. CASE runUninstall
  BY <1>25 DEF runUninstall, Ready, Commands
<1>26. CASE runInstall
  BY <1>26 DEF runInstall, Ready
<1>27. CASE ReadConfig
  BY <1>27 DEF ReadConfig, Ready, NoConfig, Commands, Settings
<1>28. CASE DownRemoves
  BY <1>28 DEF DownRemoves, CmdAt, Ends, Commands
<1>29. CASE StopService
  BY <1>29, SignalledAgent DEF StopService, CmdAt, Commands
<1>30. CASE UninstallService
  BY <1>30 DEF UninstallService, CmdAt, Ends, Commands
<1>31. CASE WipeConfig
  BY <1>31 DEF WipeConfig, CmdAt, Ends, Commands
<1>32. CASE runLogin
  BY <1>32 DEF runLogin, CmdAt, Ends, Commands, Settings
<1>33. CASE runConfig
  BY <1>33 DEF runConfig, CmdAt, Ends, Commands, Settings
<1>34. CASE Kill
  BY <1>34 DEF Kill, Dies, Live
<1>35. CASE ServiceStops
  BY <1>35 DEF ServiceStops
<1> QED
  BY <1>1, <1>2, <1>3, <1>4, <1>5, <1>6, <1>7, <1>8, <1>9, <1>10, <1>11, <1>12, <1>13, <1>14,
     <1>15, <1>16, <1>17, <1>18, <1>19, <1>20, <1>21, <1>22, <1>23, <1>24, <1>25, <1>26, <1>27,
     <1>28, <1>29, <1>30, <1>31, <1>32, <1>33, <1>34, <1>35 DEF Next, User, Command, Systemd,
     Step

-----------------------------------------------------------------------------
(* The inductive invariant *)

\* A process dies, by its own hand or another's: its device stays.
LEMMA OneDies ==
    ASSUME CInv, TypeOK', NEW p \in Procs, Alive(p), Dies(p),
           UNCHANGED <<starts, shared, pidfile>>
    PROVE  CInv'
<1>1. proc'[p] = Dead /\ \A q \in Procs \ {p} : proc'[q] = proc[q]
  BY DEF CInv, TypeOK, Dies
<1> QED
  BY <1>1, DeadAgent, OneMoves DEF Pc, Looping

\* A signal ends a process, starts its shutdown, or changes nothing.
LEMMA OneSignalled ==
    ASSUME CInv, TypeOK', NEW p \in Procs, proc' = [proc EXCEPT ![p] = Signalled(p)],
           UNCHANGED <<starts, shared, pidfile, device>>
    PROVE  CInv'
<1>1. proc'[p] = Signalled(p) /\ \A q \in Procs \ {p} : proc'[q] = proc[q]
  BY DEF CInv, TypeOK
<1>2. CASE Alive(p)
  <2>1. Pc(p)' \in Looping => Pc(p) \in Looping
    BY <1>1, SignalledAgent DEF CInv, Pc
  <2>2. Consistent(proc'[p]) /\ Pc(p)' \notin Early \ {"dead"}
    BY <1>1, SignalledAgent DEF CInv, Agents, Pc
  <2>3. Pc(p)' \notin {"connect", "link"}
    BY <2>2 DEF Early
  <2> QED
    BY <1>1, <1>2, <2>1, <2>2, <2>3, OneMoves DEF CInv, Owns
<1>3. CASE ~Alive(p)
  <2>1. proc' = proc
    BY <1>3, SignalledAgent DEF CInv, TypeOK
  <2> QED
    BY <2>1, NobodyMoves
<1> QED
  BY <1>2, <1>3

\* The invariant holds before anything is started.
LEMMA CInitInv == Init => CInv
<1> SUFFICES ASSUME Init PROVE CInv
    OBVIOUS
<1>1. \A p \in Procs : proc[p] = Dead
  BY DEF Init
<1>2. TypeOK
  BY DeadAgent DEF Init, TypeOK, Commands
<1>3. Agents /\ Shares /\ Owns
  BY <1>1, DeadAgent DEF Agents, Shares, Owns, Alive, Pc, Looping
<1>4. Numbered /\ Written
  BY <1>1, DeadAgent, ClientAssumption DEF Init, Numbered, Written, Alive, Pc, Procs
<1> QED
  BY <1>2, <1>3, <1>4 DEF CInv

\* Every step keeps the invariant.
LEMMA CNextInv == CInv /\ [Next]_vars => CInv'
<1> SUFFICES ASSUME CInv, [Next]_vars PROVE CInv'
    OBVIOUS
<1>1. TypeOK'
  BY CTyped DEF CInv
<1>2. CASE UNCHANGED vars
  BY <1>1, <1>2, NobodyMoves DEF vars
<1>3. ASSUME NEW p \in Procs, runUp(p) PROVE CInv'
  BY <1>3, <1>1, OneBegins DEF runUp
<1>4. ASSUME NEW p \in Procs, runJoin(p) PROVE CInv'
  BY <1>4, <1>1, OneBegins DEF runJoin
<1>5. ASSUME NEW p \in Procs, Restart(p) PROVE CInv'
  BY <1>5, <1>1, OneBegins DEF Restart
<1>6. ASSUME NEW p \in Procs, NEW approved \in BOOLEAN, JoinAnswer(p, approved) PROVE CInv'
  <2>1. CASE Dies(p)
    BY <1>6, <1>1, <2>1, OneDies DEF JoinAnswer, Dies, Alive
  <2>2. CASE ~Dies(p)
    <3>1. /\ Alive(p)
          /\ proc'[p] = [proc[p] EXCEPT !.pc = "save",
                                       !.cfg = [network |-> TRUE, member |-> joins + 1]]
          /\ \A q \in Procs \ {p} : proc'[q] = proc[q]
      BY <1>6, <2>2 DEF CInv, TypeOK, Agent, Alive, Pc, JoinAnswer, Dies
    <3>2. Consistent(proc'[p])
      BY <1>6, <3>1 DEF CInv, TypeOK, Agents, Agent, JoinAnswer, Pc, Consistent, Early,
         Looping, Late
    <3>3. /\ p \notin shared /\ Pc(p)' \in {"connect"} \cup Looping => device' = p
          /\ p \notin shared /\ Pc(p)' = "link" => device' = NONE
      BY <1>6, <2>2, <3>1 DEF CInv, TypeOK, Agent, Owns, Pc, Looping, JoinAnswer, Dies
    <3>4. pidfile' = p => Pc(p)' \notin Early \ {"dead"}
      BY <1>6, <2>2, <3>1 DEF CInv, TypeOK, Agent, Written, Pc, Early, JoinAnswer, Dies
    <3> QED
      BY <1>6, <1>1, <3>1, <3>2, <3>3, <3>4, OneMoves DEF JoinAnswer
  <2> QED
    BY <2>1, <2>2
<1>7. ASSUME NEW p \in Procs, JoinSave(p) PROVE CInv'
  <2>1. CASE Dies(p)
    BY <1>7, <1>1, <2>1, OneDies DEF JoinSave, Goto, Alive
  <2>2. CASE ~Dies(p)
    <3>1. /\ Alive(p) /\ proc'[p] = [proc[p] EXCEPT !.pc = "auth"]
          /\ \A q \in Procs \ {p} : proc'[q] = proc[q]
      BY <1>7, <2>2 DEF CInv, TypeOK, Agent, Alive, Pc, JoinSave, Goto
    <3>2. Consistent(proc'[p])
      BY <1>7, <3>1 DEF CInv, TypeOK, Agents, Agent, JoinSave, Pc, Consistent, Early, Looping,
         Late
    <3>3. /\ p \notin shared /\ Pc(p)' \in {"connect"} \cup Looping => device' = p
          /\ p \notin shared /\ Pc(p)' = "link" => device' = NONE
      BY <1>7, <2>2, <3>1 DEF CInv, TypeOK, Agent, Owns, Pc, Looping, JoinSave, Goto
    <3>4. pidfile' = p => Pc(p)' \notin Early \ {"dead"}
      BY <1>7, <2>2, <3>1 DEF CInv, TypeOK, Agent, Written, Pc, Early, JoinSave, Goto
    <3> QED
      BY <1>7, <1>1, <3>1, <3>2, <3>3, <3>4, OneMoves DEF JoinSave
  <2> QED
    BY <2>1, <2>2
<1>8. ASSUME NEW p \in Procs, Load(p) PROVE CInv'
  <2>1. /\ Alive(p)
        /\ proc'[p] = [proc[p] EXCEPT !.pc = "auth",
                                     !.cfg = IF config = NONE THEN NoConfig ELSE config]
        /\ \A q \in Procs \ {p} : proc'[q] = proc[q]
    BY <1>8 DEF CInv, TypeOK, Agent, Alive, Pc, Load
  <2>2. Consistent(proc'[p])
    BY <1>8, <2>1 DEF CInv, TypeOK, Agents, Agent, Load, Pc, Consistent, Early, Looping, Late
  <2>3. /\ p \notin shared /\ Pc(p)' \in {"connect"} \cup Looping => device' = p
        /\ p \notin shared /\ Pc(p)' = "link" => device' = NONE
    BY <1>8, <2>1 DEF CInv, TypeOK, Agent, Owns, Pc, Looping, Load
  <2>4. pidfile' = p => Pc(p)' \notin Early \ {"dead"}
    BY <1>8, <2>1 DEF CInv, TypeOK, Agent, Written, Pc, Early, Load
  <2> QED
    BY <1>8, <1>1, <2>1, <2>2, <2>3, <2>4, OneMoves DEF Load
<1>9. ASSUME NEW p \in Procs, TunDelete(p) PROVE CInv'
  <2>1. /\ Alive(p) /\ proc'[p] = [proc[p] EXCEPT !.pc = "link"]
        /\ \A q \in Procs \ {p} : proc'[q] = proc[q]
    BY <1>9 DEF CInv, TypeOK, Agent, Alive, Pc, TunDelete, Unlinked, Goto
  <2>2. Consistent(proc'[p])
    BY <1>9, <2>1 DEF CInv, TypeOK, Agents, Agent, TunDelete, Pc, Consistent, Early, Looping,
       Late
  <2>3. /\ p \notin shared /\ Pc(p)' \in {"connect"} \cup Looping => device' = p
        /\ p \notin shared /\ Pc(p)' = "link" => device' = NONE
    BY <1>9, <2>1 DEF CInv, TypeOK, Agent, Owns, Pc, Looping, TunDelete, Unlinked, Goto
  <2>4. pidfile' = p => Pc(p)' \notin Early \ {"dead"}
    BY <1>9, <2>1 DEF CInv, TypeOK, Agent, Written, Pc, Early, TunDelete, Unlinked, Goto
  <2> QED
    BY <1>9, <1>1, <2>1, <2>2, <2>3, <2>4, OneMoves DEF TunDelete
<1>10. ASSUME NEW p \in Procs, TunAdd(p) PROVE CInv'
  <2>1. CASE Dies(p)
    BY <1>10, <1>1, <2>1, OneDies DEF TunAdd, Alive
  <2>2. CASE ~Dies(p)
    <3>1. /\ Alive(p)
          /\ proc'[p] = [proc[p] EXCEPT !.pc = "connect", !.state = "Discovering",
                                       !.tunnel = TRUE]
          /\ \A q \in Procs \ {p} : proc'[q] = proc[q]
      BY <1>10, <2>2 DEF CInv, TypeOK, Agent, Alive, Pc, TunAdd
    <3>2. Consistent(proc'[p])
      BY <1>10, <3>1 DEF CInv, TypeOK, Agents, Agent, TunAdd, Pc, Consistent, Early, Looping,
         Late
    <3>3. /\ p \notin shared /\ Pc(p)' \in {"connect"} \cup Looping => device' = p
          /\ p \notin shared /\ Pc(p)' = "link" => device' = NONE
      BY <1>10, <2>2, <3>1 DEF CInv, TypeOK, Agent, Owns, Pc, Looping, TunAdd
    <3>4. pidfile' = p => Pc(p)' \notin Early \ {"dead"}
      BY <1>10, <2>2, <3>1 DEF CInv, TypeOK, Agent, Written, Pc, Early, TunAdd
    <3> QED
      BY <1>10, <1>1, <3>1, <3>2, <3>3, <3>4, OneMoves DEF TunAdd
  <2> QED
    BY <2>1, <2>2
<1>11. ASSUME NEW p \in Procs, NEW forwarding \in BOOLEAN, Connect(p, forwarding) PROVE CInv'
  <2>1. /\ Alive(p)
        /\ proc'[p] = [proc[p] EXCEPT !.pc = "started", !.state = "Running",
                                     !.threads = {"heartbeat"} \cup
                                                 (IF forwarding THEN {"udp"} ELSE {})]
        /\ \A q \in Procs \ {p} : proc'[q] = proc[q]
    BY <1>11 DEF CInv, TypeOK, Agent, Alive, Pc, Connect
  <2>2. Consistent(proc'[p])
    BY <1>11, <2>1 DEF CInv, TypeOK, Agents, Agent, Connect, Pc, Consistent, Early, Looping,
       Late
  <2>3. /\ p \notin shared /\ Pc(p)' \in {"connect"} \cup Looping => device' = p
        /\ p \notin shared /\ Pc(p)' = "link" => device' = NONE
    BY <1>11, <2>1 DEF CInv, TypeOK, Agent, Owns, Pc, Looping, Connect
  <2>4. pidfile' = p => Pc(p)' \notin Early \ {"dead"}
    BY <1>11, <2>1 DEF CInv, TypeOK, Agent, Written, Pc, Early, Connect
  <2> QED
    BY <1>11, <1>1, <2>1, <2>2, <2>3, <2>4, OneMoves DEF Connect
<1>12. ASSUME NEW p \in Procs, WritePID(p) PROVE CInv'
  <2>1. /\ Alive(p) /\ proc'[p] = [proc[p] EXCEPT !.pc = "notify"]
        /\ \A q \in Procs \ {p} : proc'[q] = proc[q]
    BY <1>12 DEF CInv, TypeOK, Agent, Alive, Pc, WritePID, Goto
  <2>2. Consistent(proc'[p])
    BY <1>12, <2>1 DEF CInv, TypeOK, Agents, Agent, WritePID, Pc, Consistent, Early, Looping,
       Late
  <2>3. /\ p \notin shared /\ Pc(p)' \in {"connect"} \cup Looping => device' = p
        /\ p \notin shared /\ Pc(p)' = "link" => device' = NONE
    BY <1>12, <2>1 DEF CInv, TypeOK, Agent, Owns, Pc, Looping, WritePID, Goto
  <2>4. pidfile' = p => Pc(p)' \notin Early \ {"dead"}
    BY <1>12, <2>1 DEF CInv, TypeOK, Agent, Written, Pc, Early, WritePID, Goto
  <2> QED
    BY <1>12, <1>1, <2>1, <2>2, <2>3, <2>4, OneMoves DEF WritePID
<1>13. ASSUME NEW p \in Procs, Notify(p) PROVE CInv'
  <2>1. /\ Alive(p) /\ proc'[p] = [proc[p] EXCEPT !.pc = "wait"]
        /\ \A q \in Procs \ {p} : proc'[q] = proc[q]
    BY <1>13 DEF CInv, TypeOK, Agent, Alive, Pc, Notify, Goto
  <2>2. Consistent(proc'[p])
    BY <1>13, <2>1 DEF CInv, TypeOK, Agents, Agent, Notify, Pc, Consistent, Early, Looping,
       Late
  <2>3. /\ p \notin shared /\ Pc(p)' \in {"connect"} \cup Looping => device' = p
        /\ p \notin shared /\ Pc(p)' = "link" => device' = NONE
    BY <1>13, <2>1 DEF CInv, TypeOK, Agent, Owns, Pc, Looping, Notify, Goto
  <2>4. pidfile' = p => Pc(p)' \notin Early \ {"dead"}
    BY <1>13, <2>1 DEF CInv, TypeOK, Agent, Written, Pc, Early, Notify, Goto
  <2> QED
    BY <1>13, <1>1, <2>1, <2>2, <2>3, <2>4, OneMoves DEF Notify
<1>14. ASSUME NEW p \in Procs, Cancel(p) PROVE CInv'
  <2>1. /\ Alive(p) /\ proc'[p] = [proc[p] EXCEPT !.pc = "drain"]
        /\ \A q \in Procs \ {p} : proc'[q] = proc[q]
    BY <1>14 DEF CInv, TypeOK, Agent, Alive, Pc, Cancel, Goto
  <2>2. Consistent(proc'[p])
    BY <1>14, <2>1 DEF CInv, TypeOK, Agents, Agent, Cancel, Pc, Consistent, Early, Looping,
       Late
  <2>3. /\ p \notin shared /\ Pc(p)' \in {"connect"} \cup Looping => device' = p
        /\ p \notin shared /\ Pc(p)' = "link" => device' = NONE
    BY <1>14, <2>1 DEF CInv, TypeOK, Agent, Owns, Pc, Looping, Cancel, Goto
  <2>4. pidfile' = p => Pc(p)' \notin Early \ {"dead"}
    BY <1>14, <2>1 DEF CInv, TypeOK, Agent, Written, Pc, Early, Cancel, Goto
  <2> QED
    BY <1>14, <1>1, <2>1, <2>2, <2>3, <2>4, OneMoves DEF Cancel
<1>15. ASSUME NEW p \in Procs, RemovePID(p) PROVE CInv'
  <2>1. /\ Alive(p) /\ proc'[p] = [proc[p] EXCEPT !.pc = "again"]
        /\ \A q \in Procs \ {p} : proc'[q] = proc[q]
    BY <1>15 DEF CInv, TypeOK, Agent, Alive, Pc, RemovePID, Goto
  <2>2. Consistent(proc'[p])
    BY <1>15, <2>1 DEF CInv, TypeOK, Agents, Agent, RemovePID, Pc, Consistent, Early, Looping,
       Late
  <2>3. /\ p \notin shared /\ Pc(p)' \in {"connect"} \cup Looping => device' = p
        /\ p \notin shared /\ Pc(p)' = "link" => device' = NONE
    BY <1>15, <2>1 DEF CInv, TypeOK, Agent, Owns, Pc, Looping, RemovePID, Goto
  <2>4. pidfile' = p => Pc(p)' \notin Early \ {"dead"}
    BY <1>15, <2>1 DEF CInv, TypeOK, Agent, Written, Pc, Early, RemovePID, Goto
  <2> QED
    BY <1>15, <1>1, <2>1, <2>2, <2>3, <2>4, OneMoves DEF RemovePID
<1>16. ASSUME NEW p \in Procs, HeartbeatEnds(p) PROVE CInv'
  <2>1. /\ Alive(p) /\ proc'[p] = [proc[p] EXCEPT !.threads = @ \ {"heartbeat"}]
        /\ \A q \in Procs \ {p} : proc'[q] = proc[q]
    BY <1>16 DEF CInv, TypeOK, Agent, Alive, Pc, HeartbeatEnds
  <2>2. Consistent(proc'[p])
    BY <1>16, <2>1 DEF CInv, TypeOK, Agents, Agent, HeartbeatEnds, Pc, Consistent, Early,
       Looping, Late
  <2>3. /\ p \notin shared /\ Pc(p)' \in {"connect"} \cup Looping => device' = p
        /\ p \notin shared /\ Pc(p)' = "link" => device' = NONE
    BY <1>16, <2>1 DEF CInv, TypeOK, Agent, Owns, Pc, Looping, HeartbeatEnds
  <2>4. pidfile' = p => Pc(p)' \notin Early \ {"dead"}
    BY <1>16, <2>1 DEF CInv, TypeOK, Agent, Written, Pc, Early, HeartbeatEnds
  <2> QED
    BY <1>16, <1>1, <2>1, <2>2, <2>3, <2>4, OneMoves DEF HeartbeatEnds
<1>17. ASSUME NEW p \in Procs, DatagramArrives(p) PROVE CInv'
  <2>1. /\ Alive(p) /\ proc'[p] = [proc[p] EXCEPT !.threads = @ \ {"udp"}]
        /\ \A q \in Procs \ {p} : proc'[q] = proc[q]
    BY <1>17 DEF CInv, TypeOK, Agent, Alive, Pc, DatagramArrives
  <2>2. Consistent(proc'[p])
    BY <1>17, <2>1 DEF CInv, TypeOK, Agents, Agent, DatagramArrives, Pc, Consistent, Early,
       Looping, Late
  <2>3. /\ p \notin shared /\ Pc(p)' \in {"connect"} \cup Looping => device' = p
        /\ p \notin shared /\ Pc(p)' = "link" => device' = NONE
    BY <1>17, <2>1 DEF CInv, TypeOK, Agent, Owns, Pc, Looping, DatagramArrives
  <2>4. pidfile' = p => Pc(p)' \notin Early \ {"dead"}
    BY <1>17, <2>1 DEF CInv, TypeOK, Agent, Written, Pc, Early, DatagramArrives
  <2> QED
    BY <1>17, <1>1, <2>1, <2>2, <2>3, <2>4, OneMoves DEF DatagramArrives
<1>18. ASSUME NEW p \in Procs, Authenticate(p) PROVE CInv'
  <2>1. CASE Dies(p)
    BY <1>18, <1>1, <2>1, OneDies DEF Authenticate, Alive
  <2>2. CASE ~Dies(p)
    <3>1. /\ Alive(p)
          /\ proc'[p].pc = "unlink" /\ proc'[p].state \in {"Authenticating", "Registering"}
          /\ proc'[p].threads = proc[p].threads /\ proc'[p].failures = proc[p].failures
          /\ \A q \in Procs \ {p} : proc'[q] = proc[q]
      BY <1>18, <2>2 DEF CInv, TypeOK, Agents, Consistent, Agent, Alive, Pc, Early, Looping,
         Late, Authenticate
    <3>2. Consistent(proc'[p])
      BY <1>18, <3>1 DEF CInv, TypeOK, Agents, Agent, Authenticate, Pc, Consistent, Early,
         Looping, Late
    <3>3. /\ p \notin shared /\ Pc(p)' \in {"connect"} \cup Looping => device' = p
          /\ p \notin shared /\ Pc(p)' = "link" => device' = NONE
      BY <1>18, <3>1 DEF CInv, Owns, Pc, Early, Looping, Late, Authenticate
    <3>4. pidfile' = p => Pc(p)' \notin Early \ {"dead"}
      BY <1>18, <3>1 DEF CInv, Written, Pc, Early, Looping, Late, Authenticate
    <3> QED
      BY <1>18, <1>1, <3>1, <3>2, <3>3, <3>4, OneMoves DEF Authenticate
  <2> QED
    BY <2>1, <2>2
<1>19. ASSUME NEW p \in Procs, HeartbeatFails(p) PROVE CInv'
  <2>1. /\ Alive(p)
        /\ proc[p].pc \in Looping
        /\ proc'[p] = [proc[p] EXCEPT !.state = "Reconnecting", !.failures = @ + 1]
        /\ \A q \in Procs \ {p} : proc'[q] = proc[q]
    BY <1>19 DEF CInv, TypeOK, Agents, Consistent, Agent, Alive, Pc, Early, Looping, Late,
       HeartbeatFails, Beating
  <2>2. Consistent(proc'[p])
    BY <1>19, <2>1 DEF CInv, TypeOK, Agents, Agent, HeartbeatFails, Pc, Consistent, Early,
       Looping, Late
  <2>3. /\ p \notin shared /\ Pc(p)' \in {"connect"} \cup Looping => device' = p
        /\ p \notin shared /\ Pc(p)' = "link" => device' = NONE
    BY <1>19, <2>1 DEF CInv, TypeOK, Agent, Owns, Pc, Early, Looping, Late, HeartbeatFails
  <2>4. pidfile' = p => Pc(p)' \notin Early \ {"dead"}
    BY <1>19, <2>1 DEF CInv, TypeOK, Agent, Written, Pc, Early, Looping, Late, HeartbeatFails
  <2> QED
    BY <1>19, <1>1, <2>1, <2>2, <2>3, <2>4, OneMoves DEF HeartbeatFails
<1>20. ASSUME NEW p \in Procs, HeartbeatSucceeds(p) PROVE CInv'
  <2>1. /\ Alive(p)
        /\ proc[p].pc \in Looping
        /\ proc'[p] = [proc[p] EXCEPT !.failures = 0, !.state = "Running"]
        /\ \A q \in Procs \ {p} : proc'[q] = proc[q]
    BY <1>20 DEF CInv, TypeOK, Agents, Consistent, Agent, Alive, Pc, Early, Looping, Late,
       HeartbeatSucceeds, Beating, Beaten
  <2>2. Consistent(proc'[p])
    BY <1>20, <2>1 DEF CInv, TypeOK, Agents, Agent, HeartbeatSucceeds, Pc, Consistent, Early,
       Looping, Late
  <2>3. /\ p \notin shared /\ Pc(p)' \in {"connect"} \cup Looping => device' = p
        /\ p \notin shared /\ Pc(p)' = "link" => device' = NONE
    BY <1>20, <2>1 DEF CInv, TypeOK, Agent, Owns, Pc, Early, Looping, Late, HeartbeatSucceeds
  <2>4. pidfile' = p => Pc(p)' \notin Early \ {"dead"}
    BY <1>20, <2>1 DEF CInv, TypeOK, Agent, Written, Pc, Early, Looping, Late,
       HeartbeatSucceeds
  <2> QED
    BY <1>20, <1>1, <2>1, <2>2, <2>3, <2>4, OneMoves DEF HeartbeatSucceeds
<1>21. ASSUME NEW p \in Procs, AgentStop(p) PROVE CInv'
  <2>1. /\ Alive(p) /\ proc[p].threads = {}
        /\ proc'[p] \in {StopEnds(p), [StopEnds(p) EXCEPT !.tunnel = FALSE]}
        /\ \A q \in Procs \ {p} : proc'[q] = proc[q]
    BY <1>21 DEF CInv, TypeOK, Alive, Pc, AgentStop, Drained, TunnelStop
  <2>2. proc'[p].pc = "defer" /\ proc'[p].state = "Stopped" /\ proc'[p].threads = {}
    BY <2>1 DEF CInv, TypeOK, Agent, StopEnds
  <2> QED
    BY <1>21, <1>1, <2>1, <2>2, OneMoves DEF AgentStop, Pc, Consistent, Early, Looping, Late
<1>22. ASSUME NEW p \in Procs, StopAgain(p) PROVE CInv'
  BY <1>22, <1>1, OneDies DEF StopAgain, Alive
<1>23. ASSUME NEW p \in Procs, Interrupt(p) PROVE CInv'
  BY <1>23, <1>1, OneSignalled DEF Interrupt
<1>24. CASE runDown
  <2>1. CASE pidfile = NONE
    BY <1>24, <1>1, <2>1, NobodyMoves DEF runDown, DownSignals
  <2>2. CASE pidfile # NONE
    BY <1>24, <1>1, <2>2, OneSignalled DEF runDown, DownSignals, CInv, TypeOK
  <2> QED
    BY <2>1, <2>2
<1>25. CASE runReset
  <2>1. CASE pidfile = NONE
    BY <1>25, <1>1, <2>1, NobodyMoves DEF runReset, DownSignals
  <2>2. CASE pidfile # NONE
    BY <1>25, <1>1, <2>2, OneSignalled DEF runReset, DownSignals, CInv, TypeOK
  <2> QED
    BY <2>1, <2>2
<1>26. CASE StopService
  <2>1. CASE service = "on" /\ main # NONE
    BY <1>26, <1>1, <2>1, OneSignalled DEF StopService, CInv, TypeOK
  <2>2. CASE ~(service = "on" /\ main # NONE)
    BY <1>26, <1>1, <2>2, NobodyMoves DEF StopService
  <2> QED
    BY <2>1, <2>2
<1>27. CASE Kill
  <2>1. main \in Procs /\ Alive(main)
    BY <1>27 DEF Kill, Live
  <2> QED
    BY <1>27, <1>1, <2>1, OneDies DEF Kill
<1>28. CASE \/ runUninstall \/ runInstall \/ ReadConfig \/ DownRemoves \/ UninstallService
           \/ WipeConfig \/ runLogin \/ runConfig \/ ServiceStops
  BY <1>28, <1>1, NobodyMoves DEF runUninstall, runInstall, ReadConfig, DownRemoves,
     UninstallService, WipeConfig, runLogin, runConfig, ServiceStops
<1> QED
  BY <1>2, <1>3, <1>4, <1>5, <1>6, <1>7, <1>8, <1>9, <1>10, <1>11, <1>12, <1>13, <1>14, <1>15,
     <1>16, <1>17, <1>18, <1>19, <1>20, <1>21, <1>22, <1>23, <1>24, <1>25, <1>26, <1>27, <1>28
     DEF Next, User, Command, Systemd, Step

\* The invariant holds in every reachable state.
LEMMA CInvariant == Spec => []CInv
<1>1. Init => CInv BY CInitInv
<1>2. CInv /\ [Next]_vars => CInv' BY CNextInv
<1> QED BY <1>1, <1>2, PTL DEF Spec

-----------------------------------------------------------------------------
(* The properties *)

\* Stop: an agent that is Stopped has no goroutines left.
THEOREM ClientQuietAfterStop == Spec => []QuietAfterStop
<1>1. CInv => QuietAfterStop
  BY DEF CInv, Agents, Consistent, QuietAfterStop, Looping, Late
<1> QED BY <1>1, CInvariant, PTL

\* heartbeatLoop: an agent that says Running has no failures behind it.
THEOREM ClientRunningMeansBeating == Spec => []RunningMeansBeating
<1>1. CInv => RunningMeansBeating
  BY DEF CInv, Agents, Consistent, RunningMeansBeating
<1> QED BY <1>1, CInvariant, PTL

\* An agent that no process lived beside has the device while it says it is connected.
THEOREM ClientAloneOwnsDevice == Spec => []AloneOwnsDevice
<1>1. CInv => AloneOwnsDevice
  BY DEF CInv, Agents, Consistent, Owns, AloneOwnsDevice, Pc
<1> QED BY <1>1, CInvariant, PTL

\* CreateTUN: alone, an agent dies after the deletion of a stale device only when it is
\* killed or a command fails.
THEOREM ClientStaleDeviceReplaced == Spec => StaleDeviceReplaced
<1> DEFINE Replaced ==
        \A p \in Procs \ shared :
            Pc(p) = "link" /\ Pc(p)' = "dead" => faults' # faults \/ service' = "stopping"
<1>1. CInv /\ [Next]_vars => [Replaced]_vars
  <2> SUFFICES ASSUME CInv, Next, NEW p \in Procs \ shared, Pc(p) = "link", Pc(p)' = "dead"
               PROVE  faults' # faults \/ service' = "stopping"
    OBVIOUS
  <2>1. device = NONE /\ pidfile # p
    BY DEF CInv, Owns, Written, Early
  <2>2. faults \in Nat /\ proc \in [Procs -> Agent]
    BY DEF CInv, TypeOK
  <2>3. CASE User
    <3>1. ASSUME NEW q \in Procs, runUp(q) \/ runJoin(q) PROVE FALSE
      BY <3>1, <2>2 DEF runUp, runJoin, Begin, Pc, Dead
    <3>2. ASSUME NEW q \in Procs, Interrupt(q) PROVE faults' # faults
      BY <3>2, <2>2 DEF Interrupt, Fault, Pc
    <3>3. ASSUME runDown \/ runReset PROVE FALSE
      BY <3>3, <2>1, <2>2 DEF runDown, runReset, DownSignals, Pc
    <3>4. ASSUME runUninstall \/ runInstall \/ ReadConfig PROVE FALSE
      BY <3>4 DEF runUninstall, runInstall, ReadConfig, Pc
    <3> QED
      BY <2>3, <3>1, <3>2, <3>3, <3>4 DEF User
  <2>4. CASE Command
    BY <2>4 DEF Command, DownRemoves, StopService, UninstallService, WipeConfig, runLogin,
       runConfig, Pc
  <2>5. CASE Systemd
    BY <2>2, <2>5 DEF Systemd, Restart, Kill, ServiceStops, Begin, Pc, Dead
  <2>6. ASSUME NEW q \in Procs, Step(q) PROVE faults' # faults
    <3>1. CASE q = p
      <4>1. TunAdd(p)
        BY <2>6, <3>1 DEF Step, JoinSave, Load, Authenticate, TunDelete, Connect, WritePID,
           Notify, Cancel, AgentStop, Drained, RemovePID, StopAgain
      <4> QED
        BY <2>1, <2>2, <4>1 DEF TunAdd, Fault, Pc, Agent
    <3>2. CASE q # p
      BY <2>2, <2>6, <3>2 DEF Step, JoinSave, Load, Authenticate, TunDelete, TunAdd,
         Connect, WritePID, Notify, Cancel, AgentStop, TunnelStop, RemovePID, StopAgain, Goto,
         Dies, Pc
    <3> QED
      BY <3>1, <3>2
  <2>7. ASSUME NEW q \in Procs,
               \/ HeartbeatEnds(q) \/ DatagramArrives(q)
               \/ HeartbeatFails(q) \/ HeartbeatSucceeds(q)
        PROVE  FALSE
    <3>1. CASE HeartbeatEnds(q) \/ DatagramArrives(q)
      BY <2>2, <3>1 DEF HeartbeatEnds, DatagramArrives, Pc, Agent
    <3>2. CASE HeartbeatFails(q)
      BY <2>2, <3>2 DEF HeartbeatFails, Pc, Agent
    <3>3. CASE HeartbeatSucceeds(q)
      <4>1. Beaten(proc[q]).pc = proc[q].pc
        BY <2>2 DEF Beaten, Agent
      <4> QED
        BY <2>2, <3>3, <4>1 DEF HeartbeatSucceeds, Pc
    <3> QED
      BY <2>7, <3>1, <3>2, <3>3
  <2>8. ASSUME NEW q \in Procs, NEW approved \in BOOLEAN, JoinAnswer(q, approved) PROVE FALSE
    BY <2>2, <2>8 DEF JoinAnswer, Dies, Pc
  <2> QED
    BY <2>3, <2>4, <2>5, <2>6, <2>7, <2>8 DEF Next
<1> QED BY <1>1, CInvariant, PTL DEF Spec, StaleDeviceReplaced
=============================================================================
