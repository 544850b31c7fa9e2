------------------------------- MODULE Relay -------------------------------
(***************************************************************************)
(* The UDP relay (relay/internal/relay_server.go): one goroutine reads     *)
(* datagrams and handles each to its end, a second one sweeps idle         *)
(* sessions, a third calls Stop.  They share sessions and tokenToSession   *)
(* under one mutex; every critical section is one action here.  A handler  *)
(* keeps the *Session pointer it looked up after the mutex is released, so *)
(* the sweep can run between its look-up and its use.                      *)
(*                                                                         *)
(* Abstractions: a *Session is its identifier (random 128-bit IDs never    *)
(* collide); LastActivity is kept as its age in clock ticks, saturated     *)
(* just past the idle timeout, the only thing the code asks of it; a       *)
(* datagram to a peer may be lost; a client may send any packet again, so  *)
(* duplicates and reordering are ordinary sends.  Clients know a session   *)
(* ID only from a control packet they received.                            *)
(***************************************************************************)
EXTENDS Naturals, FiniteSets

CONSTANTS
    Addrs,        \* UDP addresses of clients
    Tokens,       \* non-empty session tokens
    SessionIds,   \* session IDs still to be drawn: the bound on sessions created
    IdleTimeout,  \* sessionIdleTimeout, in clock ticks
    NONE          \* nil

ASSUME IdleTimeoutAssumption == IdleTimeout \in Nat \ {0}
ASSUME NONEAssumption == NONE \notin Addrs \cup Tokens \cup SessionIds

VARIABLES
    session,         \* the Session objects, live or detached
    age,             \* now - LastActivity of each Session
    sessions,        \* keys of the map s.sessions
    tokenToSession,  \* the map s.tokenToSession
    gauge,           \* metrics.activeSessions
    reader,          \* the goroutine in Start: where it is, its session and sender
    cleanup,         \* the goroutine in cleanupStaleSessions
    conn,            \* the UDP socket s.conn
    stop,            \* the caller of Stop; the context is cancelled from its start
    told,            \* history: last control packet a client got about a session
    lastData,        \* history: the last DATA packet that reached a client
    presented        \* history: tokens each address sent in a CONNECT

tables == <<session, sessions, tokenToSession, gauge>>
life == <<cleanup, conn, stop>>
vars == <<session, age, sessions, tokenToSession, gauge, reader, life,
          told, lastData, presented>>

Session == [Token : Tokens \cup {NONE}, PeerAAddr : Addrs \cup {NONE},
            PeerBAddr : Addrs \cup {NONE}]
Unallocated == [Token |-> NONE, PeerAAddr |-> NONE, PeerBAddr |-> NONE]
Allocated(s) == session[s].Token # NONE
Expired == IdleTimeout + 1
Status == {"nothing", "waiting", "paired"}
Data == [from : Addrs, to : Addrs, sid : SessionIds]
At(pc, s, a) == [pc |-> pc, sid |-> s, from |-> a]
Reading == At("read", NONE, NONE)

Init ==
    /\ session = [s \in SessionIds |-> Unallocated]
    /\ age = [s \in SessionIds |-> 0]
    /\ sessions = {}
    /\ tokenToSession = [t \in Tokens |-> NONE]
    /\ gauge = 0
    /\ reader = At("start", NONE, NONE)
    /\ cleanup = "unstarted"
    /\ conn = "nil"
    /\ stop = "no"
    /\ told = [s \in SessionIds |-> [a \in Addrs |-> "nothing"]]
    /\ lastData = NONE
    /\ presented = [a \in Addrs |-> {}]

-----------------------------------------------------------------------------
(* Start, Stop and the clock *)

\* Start binds the socket and launches the sweeper; it does not look at the context.
Start ==
    /\ reader.pc = "start"
    /\ conn' = "open"
    /\ cleanup' = "running"
    /\ reader' = Reading
    /\ UNCHANGED <<tables, age, stop, told, lastData, presented>>

\* Binding fails: Start returns before the deferred close(s.done).
StartFails ==
    /\ reader.pc = "start"
    /\ reader' = At("failed", NONE, NONE)
    /\ UNCHANGED <<tables, age, life, told, lastData, presented>>

\* Mutant: a read error after the socket was closed is retried.
ReaderExits_RetriesClosed ==
    /\ reader.pc = "read"
    /\ conn = "open"
    /\ conn' = "closed"
    /\ reader' = At("exit", NONE, NONE)
    /\ UNCHANGED <<tables, age, cleanup, stop, told, lastData, presented>>

\* ReadFromUDP fails, because the socket is closed or for a reason of its own.
ReaderExits ==
    /\ reader.pc = "read"
    /\ conn' = "closed"
    /\ reader' = At("exit", NONE, NONE)
    /\ UNCHANGED <<tables, age, cleanup, stop, told, lastData, presented>>

\* Stop cancels the context, then closes the socket if Start has stored one.
Stop ==
    /\ stop = "no"
    /\ stop' = "waiting"
    /\ conn' = IF conn = "nil" THEN "nil" ELSE "closed"
    /\ UNCHANGED <<tables, age, reader, cleanup, told, lastData, presented>>

\* Stop returns when s.done is closed, or with an error after two seconds, which
\* may pass at any point.
StopReturns ==
    /\ stop = "waiting"
    /\ stop' = "returned"
    /\ UNCHANGED <<tables, age, reader, cleanup, conn, told, lastData, presented>>

Tick ==
    /\ age' = [s \in SessionIds |->
                 IF Allocated(s) /\ age[s] < Expired THEN age[s] + 1 ELSE age[s]]
    /\ UNCHANGED <<tables, reader, life, told, lastData, presented>>

-----------------------------------------------------------------------------
(* The sweeper *)

Paired(S) == S.PeerAAddr # NONE /\ S.PeerBAddr # NONE

\* Mutant: a session with both peers is never stale.
Stale_WaitingOnly == {s \in sessions : age[s] > IdleTimeout /\ ~Paired(session[s])}

Stale == {s \in sessions : age[s] > IdleTimeout}

\* Mutant: the token entry of a removed session is left behind.
DropTokens_Forgotten(removed) == tokenToSession

\* delete(s.tokenToSession, session.Token) for each removed session.
DropTokens(removed) ==
    [t \in Tokens |->
       IF \E s \in removed : session[s].Token = t THEN NONE ELSE tokenToSession[t]]

\* Mutant: the gauge is set before the sessions are deleted.
SweptGauge_Early == IF Stale # {} THEN Cardinality(sessions) ELSE gauge

SweptGauge == IF Stale # {} THEN Cardinality(sessions \ Stale) ELSE gauge

\* removeStaleSessions.  The ticker case may be selected after the context is
\* cancelled: select picks either ready case.
Sweep ==
    /\ cleanup = "running"
    /\ sessions' = sessions \ Stale
    /\ tokenToSession' = DropTokens(Stale)
    /\ gauge' = SweptGauge
    /\ UNCHANGED <<session, age, reader, life, told, lastData, presented>>

CleanupExits ==
    /\ cleanup = "running"
    /\ stop # "no"
    /\ cleanup' = "exit"
    /\ UNCHANGED <<tables, age, reader, conn, stop, told, lastData, presented>>

-----------------------------------------------------------------------------
(* The reader: one datagram at a time *)

Receiving == reader.pc = "read" /\ conn = "open"

\* Mutant: the newest peer becomes peer A.
TakePlace_NewestFirst(S, from) ==
    IF S.PeerAAddr # from /\ S.PeerBAddr = NONE
    THEN [S EXCEPT !.PeerAAddr = from, !.PeerBAddr = S.PeerAAddr] ELSE S

\* The place an address takes in an existing session, if one is free.
TakePlace(S, from) ==
    IF S.PeerAAddr = NONE THEN [S EXCEPT !.PeerAAddr = from]
    ELSE IF S.PeerAAddr # from /\ S.PeerBAddr = NONE
         THEN [S EXCEPT !.PeerBAddr = from] ELSE S

\* createSession, the token's session exists.
JoinSession(t, from) ==
    LET s == tokenToSession[t]
    IN  /\ s \in sessions
        /\ session' = [session EXCEPT ![s] = TakePlace(@, from)]
        /\ age' = [age EXCEPT ![s] = 0]
        /\ gauge' = Cardinality(sessions)
        /\ reader' = At("ack", s, from)
        /\ UNCHANGED <<sessions, tokenToSession>>

\* createSession, no session for the token: a new one with the sender as peer A.
NewSession(t, from, s) ==
    /\ tokenToSession[t] \notin sessions
    /\ ~Allocated(s)
    /\ session' = [session EXCEPT ![s] =
                     [Token |-> t, PeerAAddr |-> from, PeerBAddr |-> NONE]]
    /\ age' = [age EXCEPT ![s] = 0]
    /\ sessions' = sessions \cup {s}
    /\ tokenToSession' = [tokenToSession EXCEPT ![t] = s]
    /\ gauge' = Cardinality(sessions')
    /\ reader' = At("ack", s, from)

\* handlePacket, CONNECT.  An unparsable payload or an empty token is logged
\* and dropped without a state change.
Connect(t, from) ==
    /\ Receiving
    /\ \/ JoinSession(t, from)
       \/ \E s \in SessionIds : NewSession(t, from, s)
    /\ presented' = [presented EXCEPT ![from] = @ \cup {t}]
    /\ UNCHANGED <<life, told, lastData>>

\* Who is written to in the rest of CONNECT: broadcastControl writes to both
\* peers once both are there, the acknowledgement goes to the sender.
ConnectReceivers(S, from) ==
    {from} \cup (IF Paired(S) THEN {S.PeerAAddr, S.PeerBAddr} ELSE {})

\* A closed socket sends nothing; the network delivers any of the datagrams.
Acknowledge ==
    LET s == reader.sid
        status == IF Paired(session[s]) THEN "paired" ELSE "waiting"
    IN  /\ reader.pc = "ack"
        /\ \E heard \in SUBSET ConnectReceivers(session[s], reader.from) :
             /\ heard # {} => conn = "open"
             /\ told' = [told EXCEPT ![s] =
                           [a \in Addrs |-> IF a \in heard THEN status ELSE @[a]]]
        /\ reader' = Reading
        /\ UNCHANGED <<tables, age, life, lastData, presented>>

\* getSessionByID for DATA, PING and DISCONNECT: the read lock is released and
\* the pointer kept.  A packet for a session not in the map changes nothing.
LookUp(kind, s, from) ==
    /\ Receiving
    /\ told[s][from] # "nothing"
    /\ s \in sessions
    /\ reader' = At(kind, s, from)
    /\ UNCHANGED <<tables, age, life, told, lastData, presented>>

\* Mutant: anybody who is not peer A is taken for peer B.
destinationAddr_NoMembership(S, from) ==
    IF S.PeerAAddr = from THEN S.PeerBAddr ELSE S.PeerAAddr

destinationAddr(S, from) ==
    CASE S.PeerAAddr = from -> S.PeerBAddr
      [] S.PeerAAddr # from /\ S.PeerBAddr = from -> S.PeerAAddr
      [] OTHER -> NONE

Transits(to) == to # NONE /\ conn = "open"

\* Mutant: the session is stored in the map again when it is refreshed.
touchSession_Reinserts(s) ==
    /\ age' = [age EXCEPT ![s] = 0]
    /\ sessions' = sessions \cup {s}
    /\ UNCHANGED <<session, tokenToSession, gauge>>

\* LastActivity of the object is set, in the map or not.
touchSession(s) ==
    /\ age' = [age EXCEPT ![s] = 0]
    /\ UNCHANGED tables

\* forwardPacket: LastActivity is refreshed before membership is examined; the
\* packet is written after the mutex is released, or lost, or has no destination.
Forward ==
    LET to == destinationAddr(session[reader.sid], reader.from)
    IN  /\ reader.pc = "data"
        /\ touchSession(reader.sid)
        /\ \/ /\ Transits(to)
              /\ lastData' = [from |-> reader.from, to |-> to, sid |-> reader.sid]
           \/ UNCHANGED lastData
        /\ reader' = Reading
        /\ UNCHANGED <<life, told, presented>>

\* touchSession, then the pong, which tells its receiver no ID it did not know.
Pong ==
    /\ reader.pc = "ping"
    /\ touchSession(reader.sid)
    /\ reader' = Reading
    /\ UNCHANGED <<life, told, lastData, presented>>

\* removeSession, asked by any sender; it looks the key up again.
removeSession(s) ==
    IF s \in sessions
    THEN /\ sessions' = sessions \ {s}
         /\ tokenToSession' = DropTokens({s})
         /\ gauge' = Cardinality(sessions')
    ELSE UNCHANGED <<sessions, tokenToSession, gauge>>

Disconnect ==
    /\ reader.pc = "disconnect"
    /\ removeSession(reader.sid)
    /\ reader' = Reading
    /\ UNCHANGED <<session, age, life, told, lastData, presented>>

-----------------------------------------------------------------------------
Handler == Acknowledge \/ Forward \/ Pong \/ Disconnect

Next ==
    \/ Start \/ StartFails \/ ReaderExits \/ Stop \/ StopReturns
    \/ Tick \/ Sweep \/ CleanupExits
    \/ \E t \in Tokens, a \in Addrs : Connect(t, a)
    \/ \E s \in SessionIds, a \in Addrs :
         \/ LookUp("data", s, a)
         \/ LookUp("ping", s, a)
         \/ LookUp("disconnect", s, a)
    \/ Handler

Spec == Init /\ [][Next]_vars

\* Go schedules every runnable goroutine; time passes; a blocked ReadFromUDP
\* returns once the socket is closed.  Nobody has to send, stop or fail.
Fairness ==
    /\ WF_vars(Start \/ StartFails)
    /\ WF_vars(Handler)
    /\ WF_vars(conn = "closed" /\ ReaderExits)
    /\ WF_vars(StopReturns)
    /\ WF_vars(Tick)
    /\ WF_vars(Sweep)
    /\ WF_vars(CleanupExits)

FairSpec == Spec /\ Fairness

-----------------------------------------------------------------------------
(* Properties *)

TypeOK ==
    /\ session \in [SessionIds -> Session]
    /\ age \in [SessionIds -> 0 .. Expired]
    /\ sessions \subseteq SessionIds
    /\ tokenToSession \in [Tokens -> SessionIds \cup {NONE}]
    /\ reader \in [pc : {"start", "failed", "read", "ack", "data", "ping",
                         "disconnect", "exit"},
                   sid : SessionIds \cup {NONE}, from : Addrs \cup {NONE}]
    /\ reader.pc \in {"ack", "data", "ping", "disconnect"}
         => reader.sid \in SessionIds /\ reader.from \in Addrs
    /\ cleanup \in {"unstarted", "running", "exit"}
    /\ conn \in {"nil", "open", "closed"}
    /\ stop \in {"no", "waiting", "returned"}
    /\ told \in [SessionIds -> [Addrs -> Status]]
    /\ lastData \in Data \cup {NONE}
    /\ presented \in [Addrs -> SUBSET Tokens]

\* The two maps of the server agree: a token leads to a live session created for
\* it, and every live session is the one its token leads to.  createSession,
\* removeSession and removeStaleSessions each update both maps.
TokenIndexAgrees ==
    /\ \A t \in Tokens : tokenToSession[t] # NONE =>
         tokenToSession[t] \in sessions /\ session[tokenToSession[t]].Token = t
    /\ \A s \in sessions : Allocated(s) /\ tokenToSession[session[s].Token] = s

\* A session object always has a first peer, and a second one only at another
\* address: the relay never sends a peer its own traffic back (createSession).
PeersDistinct ==
    \A s \in SessionIds : Allocated(s) =>
        session[s].PeerAAddr # NONE /\ session[s].PeerBAddr # session[s].PeerAAddr

\* Data crosses the relay only between two different addresses that both
\* presented the token of the session it was sent on, whatever sweeps, removals
\* and re-created sessions of the same token happened in between.
DataStaysWithTokenHolders ==
    LET d == lastData
    IN  d # NONE =>
          /\ d.from # d.to
          /\ {d.from, d.to} = {session[d.sid].PeerAAddr, session[d.sid].PeerBAddr}
          /\ session[d.sid].Token \in presented[d.from] \cap presented[d.to]

\* What a client was told of a session stays true of it: "waiting" is only told
\* to its first peer, "paired" only once both places are taken (handlePacket).
ControlTruthful ==
    \A s \in SessionIds, a \in Addrs :
        /\ told[s][a] = "waiting" => session[s].PeerAAddr = a
        /\ told[s][a] = "paired" => Paired(session[s])

\* The exported gauge is the number of live sessions whenever the mutex is free.
GaugeExact == gauge = Cardinality(sessions)

\* A session removed by a sweep or a DISCONNECT never becomes live again, not
\* even by a handler that looked it up before its removal.
RemovedStaysRemoved ==
    [][\A s \in SessionIds :
         Allocated(s) /\ s \notin sessions => s \notin sessions']_vars

\* A session nobody uses disappears, as long as the sweeper runs
\* (docs/protocol.md: "Idle sessions are removed after 5 minutes.").
IdleSessionRemoved ==
    \A s \in SessionIds :
        (s \in sessions /\ age[s] > 0)
            ~> (s \notin sessions \/ age[s] = 0 \/ cleanup # "running")

\* Once Stop has closed the socket, both goroutines end, a handler in progress
\* included, and Stop returns.
ShutdownCompletes ==
    (stop # "no" /\ conn = "closed")
        ~> (reader.pc = "exit" /\ cleanup # "running" /\ stop = "returned")

-----------------------------------------------------------------------------
(* What the repository says of the relay and its code does not do *)
=============================================================================
