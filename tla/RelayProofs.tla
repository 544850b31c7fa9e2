---------------------------- MODULE RelayProofs ----------------------------
(***************************************************************************)
(* Proofs about the relay for every set of addresses, tokens and session   *)
(* IDs and every idle timeout.                                             *)
(***************************************************************************)
EXTENDS Relay, FiniteSetTheorems, TLAPS

\* Every session object's peers presented its token (createSession stores only
\* the address a CONNECT with that token came from).
MembersPresented ==
    \A s \in SessionIds : Allocated(s) =>
        /\ session[s].Token \in presented[session[s].PeerAAddr]
        /\ session[s].PeerBAddr # NONE => session[s].Token \in presented[session[s].PeerBAddr]

\* The pointer a handler holds is to a session that was created, and the sender
\* of an unanswered CONNECT is peer A unless both places are taken.
HandlerSession ==
    /\ reader.pc \in {"ack", "data", "ping", "disconnect"} => Allocated(reader.sid)
    /\ reader.pc = "ack" => \/ Paired(session[reader.sid])
                            \/ session[reader.sid].PeerAAddr = reader.from

\* Control packets name sessions that were created.
ToldAllocated == \A s \in SessionIds, a \in Addrs : told[s][a] # "nothing" => Allocated(s)

\* The inductive invariant.
IInv ==
    /\ TypeOK
    /\ TokenIndexAgrees
    /\ PeersDistinct
    /\ MembersPresented
    /\ HandlerSession
    /\ ToldAllocated
    /\ ControlTruthful
    /\ DataStaysWithTokenHolders
    /\ GaugeExact

-----------------------------------------------------------------------------
\* The initial state satisfies the invariant.
LEMMA InitIInv == Init => IInv
<1> SUFFICES ASSUME Init PROVE IInv
    OBVIOUS
<1> USE NONEAssumption, IdleTimeoutAssumption DEF Init
<1>1. TypeOK
    BY DEF TypeOK, Session, Unallocated, Expired, Data, Status, At
<1>2. TokenIndexAgrees
    BY DEF TokenIndexAgrees
<1>3. PeersDistinct /\ MembersPresented /\ ToldAllocated /\ ControlTruthful
    BY DEF PeersDistinct, MembersPresented, ToldAllocated, ControlTruthful, Allocated,
           Unallocated
<1>4. HandlerSession /\ DataStaysWithTokenHolders
    BY DEF HandlerSession, DataStaysWithTokenHolders, At
<1>5. GaugeExact
    BY FS_EmptySet DEF GaugeExact
<1> QED
    BY <1>1, <1>2, <1>3, <1>4, <1>5 DEF IInv

\* Starting, stopping and the passing of time leave the tables and the clients'
\* knowledge alone.
LEMMA LifecycleStep ==
    ASSUME IInv,
           \/ Start \/ StartFails \/ ReaderExits \/ Stop \/ StopReturns
           \/ Tick \/ CleanupExits
    PROVE  IInv'
<1> USE NONEAssumption, IdleTimeoutAssumption DEF IInv, tables, life
<1>1. /\ UNCHANGED <<session, sessions, tokenToSession, gauge, told, lastData, presented>>
      /\ \/ UNCHANGED reader
         \/ reader'.pc \in {"read", "failed", "exit"}
    BY DEF Start, StartFails, ReaderExits, Stop, StopReturns, Tick, CleanupExits,
           Reading, At
<1>2. TypeOK'
  <2>1. UNCHANGED reader \/ reader' \in {Reading, At("failed", NONE, NONE), At("exit", NONE, NONE)}
    BY DEF Start, StartFails, ReaderExits, Stop, StopReturns, Tick, CleanupExits
  <2>2. age' \in [SessionIds -> 0 .. Expired]
    BY DEF Start, StartFails, ReaderExits, Stop, StopReturns, Tick, CleanupExits, TypeOK,
           Expired, Allocated
  <2>3. /\ cleanup' \in {"unstarted", "running", "exit"}
        /\ conn' \in {"nil", "open", "closed"}
        /\ stop' \in {"no", "waiting", "returned"}
    BY DEF Start, StartFails, ReaderExits, Stop, StopReturns, Tick, CleanupExits, TypeOK
  <2> QED
    BY <1>1, <2>1, <2>2, <2>3 DEF TypeOK, Reading, At
<1>3. TokenIndexAgrees' /\ PeersDistinct' /\ MembersPresented' /\ ToldAllocated'
    BY <1>1 DEF TokenIndexAgrees, PeersDistinct, MembersPresented, ToldAllocated, Allocated
<1>4. ControlTruthful' /\ DataStaysWithTokenHolders' /\ GaugeExact'
    BY <1>1 DEF ControlTruthful, DataStaysWithTokenHolders, GaugeExact, Paired
<1>5. HandlerSession'
    BY <1>1 DEF HandlerSession, Allocated, Paired
<1> QED
    BY <1>2, <1>3, <1>4, <1>5

\* Removing a set of live sessions with their tokens keeps the two maps in step.
LEMMA RemovalKeepsIndex ==
    ASSUME TypeOK, TokenIndexAgrees, NEW R \in SUBSET sessions,
           sessions' = sessions \ R, tokenToSession' = DropTokens(R), UNCHANGED session
    PROVE  TokenIndexAgrees' /\ tokenToSession' \in [Tokens -> SessionIds \cup {NONE}]
<1> USE NONEAssumption DEF DropTokens, TypeOK
<1>1. tokenToSession' \in [Tokens -> SessionIds \cup {NONE}]
    OBVIOUS
<1>2. ASSUME NEW t \in Tokens, tokenToSession'[t] # NONE
      PROVE  tokenToSession'[t] \in sessions' /\ session'[tokenToSession'[t]].Token = t
    BY <1>2 DEF TokenIndexAgrees
<1>3. ASSUME NEW s \in sessions'
      PROVE  Allocated(s)' /\ tokenToSession'[session'[s].Token] = s
  <2>1. s \in sessions /\ s \notin R /\ session[s].Token \in Tokens
    BY <1>3 DEF TokenIndexAgrees, Allocated, Session
  <2>2. ~\E r \in R : session[r].Token = session[s].Token
    BY <2>1 DEF TokenIndexAgrees, Allocated
  <2> QED
    BY <2>1, <2>2 DEF TokenIndexAgrees, Allocated
<1> QED
    BY <1>1, <1>2, <1>3 DEF TokenIndexAgrees

\* A sweep removes the stale sessions.
LEMMA SweepStep == ASSUME IInv, Sweep PROVE IInv'
<1> USE NONEAssumption, IdleTimeoutAssumption DEF IInv, life
<1>1. /\ UNCHANGED <<session, age, reader, cleanup, conn, stop, told, lastData, presented>>
      /\ sessions' = sessions \ Stale /\ Stale \in SUBSET sessions
      /\ tokenToSession' = DropTokens(Stale)
    BY DEF Sweep, Stale
<1>2. TokenIndexAgrees' /\ tokenToSession' \in [Tokens -> SessionIds \cup {NONE}]
    BY <1>1, RemovalKeepsIndex
<1>3. TypeOK'
    BY <1>1, <1>2 DEF TypeOK
<1>4. GaugeExact'
    BY <1>1 DEF GaugeExact, Sweep, SweptGauge
<1>5. PeersDistinct' /\ MembersPresented' /\ ToldAllocated' /\ HandlerSession'
    BY <1>1 DEF PeersDistinct, MembersPresented, ToldAllocated, HandlerSession, Allocated,
       Paired
<1>6. ControlTruthful' /\ DataStaysWithTokenHolders'
    BY <1>1 DEF ControlTruthful, DataStaysWithTokenHolders, Paired
<1> QED
    BY <1>2, <1>3, <1>4, <1>5, <1>6

\* Taking a place in a session changes at most its free second place.
LEMMA TakePlaceFact ==
    ASSUME NEW S \in Session, NEW a \in Addrs, S.PeerAAddr # NONE
    PROVE  /\ TakePlace(S, a) \in Session
           /\ TakePlace(S, a).Token = S.Token
           /\ TakePlace(S, a).PeerAAddr = S.PeerAAddr
           /\ \/ TakePlace(S, a) = S /\ (S.PeerBAddr = NONE => S.PeerAAddr = a)
              \/ /\ S.PeerBAddr = NONE /\ a # S.PeerAAddr
                 /\ TakePlace(S, a).PeerBAddr = a
<1> USE NONEAssumption DEF Session
<1>1. CASE S.PeerAAddr # a /\ S.PeerBAddr = NONE
  <2>1. TakePlace(S, a) = [S EXCEPT !.PeerBAddr = a]
    BY <1>1 DEF TakePlace
  <2> QED
    BY <1>1, <2>1
<1>2. CASE ~(S.PeerAAddr # a /\ S.PeerBAddr = NONE)
  <2>1. TakePlace(S, a) = S
    BY <1>2 DEF TakePlace
  <2> QED
    BY <1>2, <2>1
<1> QED
    BY <1>1, <1>2

\* CONNECT with the token of a live session.
LEMMA JoinStep ==
    ASSUME IInv, NEW t \in Tokens, NEW a \in Addrs, Connect(t, a), JoinSession(t, a)
    PROVE  IInv'
<1> DEFINE s == tokenToSession[t]
<1> USE NONEAssumption, IdleTimeoutAssumption DEF IInv, life
<1>1. /\ s \in sessions /\ s \in SessionIds /\ session[s].Token = t
      /\ session' = [session EXCEPT ![s] = TakePlace(@, a)]
      /\ age' = [age EXCEPT ![s] = 0]
      /\ gauge' = Cardinality(sessions)
      /\ reader' = At("ack", s, a)
      /\ presented' = [presented EXCEPT ![a] = @ \cup {t}]
      /\ UNCHANGED <<sessions, tokenToSession, cleanup, conn, stop, told, lastData>>
    BY DEF JoinSession, Connect, TokenIndexAgrees, TypeOK
<1> HIDE DEF s
<1>2. /\ session'[s] \in Session /\ session'[s].Token = t
      /\ session'[s].PeerAAddr = session[s].PeerAAddr
      /\ \/ session'[s].PeerBAddr = session[s].PeerBAddr
         \/ /\ session[s].PeerBAddr = NONE /\ a # session[s].PeerAAddr
            /\ session'[s].PeerBAddr = a
      /\ session[s].PeerAAddr # NONE
      /\ session'[s].PeerBAddr = NONE => session[s].PeerAAddr = a
  <2>1. session'[s] = TakePlace(session[s], a) /\ session[s] \in Session
    BY <1>1 DEF TypeOK
  <2>2. session[s].PeerAAddr # NONE
    BY <1>1 DEF PeersDistinct, Allocated
  <2> QED
    BY <2>1, <2>2, <1>1, TakePlaceFact
<1>3. \A r \in SessionIds : r # s => session'[r] = session[r]
    BY <1>1 DEF TypeOK
<1>4. \A b \in Addrs : presented[b] \subseteq presented'[b] /\ t \in presented'[a]
    BY <1>1 DEF TypeOK
<1>5. TypeOK'
    BY <1>1, <1>2, <1>3 DEF TypeOK, Session, Expired, At, TakePlace
<1>6. TokenIndexAgrees' /\ PeersDistinct' /\ ToldAllocated'
    BY <1>1, <1>2, <1>3 DEF TokenIndexAgrees, PeersDistinct, ToldAllocated, Allocated, TypeOK
<1>7. MembersPresented'
    BY <1>1, <1>2, <1>3, <1>4
    DEF MembersPresented, PeersDistinct, Allocated, TypeOK, Session
<1>8. HandlerSession'
    BY <1>1, <1>2 DEF HandlerSession, Allocated, Paired, At
<1>9. ControlTruthful'
    BY <1>1, <1>2, <1>3 DEF ControlTruthful, Paired
<1>10. DataStaysWithTokenHolders'
  <2>1. lastData # NONE => session[lastData.sid].PeerBAddr # NONE
    <3>1. lastData # NONE => lastData.from \in Addrs /\ lastData.to \in Addrs
      BY DEF TypeOK, Data
    <3>2. lastData # NONE => session[lastData.sid].PeerBAddr \in {lastData.from, lastData.to}
      BY DEF DataStaysWithTokenHolders
    <3> QED
      BY <3>1, <3>2
  <2>2. lastData # NONE =>
          /\ session'[lastData.sid].PeerAAddr = session[lastData.sid].PeerAAddr
          /\ session'[lastData.sid].PeerBAddr = session[lastData.sid].PeerBAddr
          /\ session'[lastData.sid].Token = session[lastData.sid].Token
    BY <2>1, <1>1, <1>2, <1>3 DEF TypeOK, Data
  <2> QED
    BY <2>2, <1>1, <1>4 DEF DataStaysWithTokenHolders, TypeOK, Data
<1>11. GaugeExact'
    BY <1>1 DEF GaugeExact
<1> QED
    BY <1>5, <1>6, <1>7, <1>8, <1>9, <1>10, <1>11

\* CONNECT that creates a session.
LEMMA NewStep ==
    ASSUME IInv, NEW t \in Tokens, NEW a \in Addrs, NEW s \in SessionIds,
           Connect(t, a), NewSession(t, a, s)
    PROVE  IInv'
<1> USE NONEAssumption, IdleTimeoutAssumption DEF IInv, life
<1>1. /\ ~Allocated(s) /\ s \notin sessions /\ tokenToSession[t] \notin sessions
      /\ session' = [session EXCEPT ![s] =
                       [Token |-> t, PeerAAddr |-> a, PeerBAddr |-> NONE]]
      /\ age' = [age EXCEPT ![s] = 0]
      /\ sessions' = sessions \cup {s}
      /\ tokenToSession' = [tokenToSession EXCEPT ![t] = s]
      /\ gauge' = Cardinality(sessions')
      /\ reader' = At("ack", s, a)
      /\ presented' = [presented EXCEPT ![a] = @ \cup {t}]
      /\ UNCHANGED <<cleanup, conn, stop, told, lastData>>
    BY DEF NewSession, Connect, TokenIndexAgrees
<1>2. /\ session'[s] = [Token |-> t, PeerAAddr |-> a, PeerBAddr |-> NONE]
      /\ \A r \in SessionIds : r # s => session'[r] = session[r]
    BY <1>1 DEF TypeOK
<1>3. \A b \in Addrs : presented[b] \subseteq presented'[b] /\ t \in presented'[a]
    BY <1>1 DEF TypeOK
<1>4. TypeOK'
    BY <1>1 DEF TypeOK, Session, Expired, At
<1>5. TokenIndexAgrees'
  <2>1. \A u \in Tokens : u # t => tokenToSession'[u] = tokenToSession[u]
    BY <1>1 DEF TypeOK
  <2>2. tokenToSession'[t] = s
    BY <1>1 DEF TypeOK
  <2>3. \A r \in sessions : session[r].Token # t
    BY <1>1 DEF TokenIndexAgrees
  <2>4. ASSUME NEW u \in Tokens, tokenToSession'[u] # NONE
        PROVE  tokenToSession'[u] \in sessions' /\ session'[tokenToSession'[u]].Token = u
    BY <1>1, <1>2, <2>1, <2>2, <2>4 DEF TokenIndexAgrees, TypeOK
  <2>5. ASSUME NEW r \in sessions'
        PROVE  Allocated(r)' /\ tokenToSession'[session'[r].Token] = r
    <3>1. CASE r = s
      BY <3>1, <1>2, <2>2 DEF Allocated
    <3>2. CASE r # s
      <4>1. r \in sessions /\ r \in SessionIds /\ session[r].Token \in Tokens
        BY <3>2, <1>1, <2>5 DEF TypeOK, TokenIndexAgrees, Allocated, Session
      <4> QED
        BY <3>2, <4>1, <1>2, <2>1, <2>3 DEF TokenIndexAgrees, Allocated
    <3> QED
      BY <3>1, <3>2
  <2> QED
    BY <2>4, <2>5 DEF TokenIndexAgrees
<1>6. PeersDistinct' /\ ToldAllocated'
    BY <1>1, <1>2 DEF PeersDistinct, ToldAllocated, Allocated
<1>7. MembersPresented'
    BY <1>1, <1>2, <1>3 DEF MembersPresented, PeersDistinct, Allocated, TypeOK, Session
<1>8. HandlerSession'
    BY <1>1, <1>2 DEF HandlerSession, Allocated, At
<1>9. ControlTruthful'
    BY <1>1, <1>2 DEF ControlTruthful, ToldAllocated, Paired
<1>10. DataStaysWithTokenHolders'
  <2>1. lastData # NONE => session[lastData.sid].Token # NONE
    BY DEF DataStaysWithTokenHolders, TypeOK, Data
  <2>2. lastData # NONE => lastData.sid # s
    BY <2>1, <1>1 DEF Allocated
  <2> QED
    BY <1>1, <1>2, <1>3, <2>2 DEF DataStaysWithTokenHolders, TypeOK, Data
<1>11. GaugeExact'
    BY <1>1 DEF GaugeExact
<1> QED
    BY <1>4, <1>5, <1>6, <1>7, <1>8, <1>9, <1>10, <1>11

\* The replies to a CONNECT.
LEMMA AcknowledgeStep == ASSUME IInv, Acknowledge PROVE IInv'
<1> DEFINE s == reader.sid
           S == session[s]
<1> USE NONEAssumption DEF IInv, tables, life
<1>1. /\ reader.pc = "ack" /\ reader' = Reading
      /\ s \in SessionIds /\ reader.from \in Addrs /\ Allocated(s)
      /\ UNCHANGED <<session, sessions, tokenToSession, gauge, age, cleanup, conn, stop,
                     lastData, presented>>
    BY DEF Acknowledge, TypeOK, HandlerSession
<1>2. PICK heard \in SUBSET ConnectReceivers(S, reader.from) :
        told' = [told EXCEPT ![s] =
                   [a \in Addrs |-> IF a \in heard
                      THEN IF Paired(S) THEN "paired" ELSE "waiting" ELSE @[a]]]
    BY DEF Acknowledge
<1>3. \A r \in SessionIds, a \in Addrs :
        \/ told'[r][a] = told[r][a]
        \/ r = s /\ told'[r][a] = "paired" /\ Paired(S)
        \/ r = s /\ told'[r][a] = "waiting" /\ ~Paired(S) /\ a = reader.from
    BY <1>1, <1>2 DEF TypeOK, ConnectReceivers
<1>4. told' \in [SessionIds -> [Addrs -> Status]]
    BY <1>1, <1>2 DEF TypeOK, Status
<1>5. TypeOK'
    BY <1>1, <1>4 DEF TypeOK, Reading, At
<1>6. ToldAllocated' /\ ControlTruthful'
    BY <1>1, <1>3 DEF ToldAllocated, ControlTruthful, HandlerSession, Allocated, Paired
<1>7. TokenIndexAgrees' /\ PeersDistinct' /\ MembersPresented'
    BY <1>1 DEF TokenIndexAgrees, PeersDistinct, MembersPresented, Allocated
<1>8. DataStaysWithTokenHolders' /\ GaugeExact' /\ HandlerSession'
    BY <1>1 DEF DataStaysWithTokenHolders, GaugeExact, HandlerSession, Reading, At
<1> QED
    BY <1>5, <1>6, <1>7, <1>8

\* Looking a session up changes only what the reader holds.
LEMMA LookUpStep ==
    ASSUME IInv, NEW kind \in {"data", "ping", "disconnect"}, NEW s \in SessionIds,
           NEW a \in Addrs, LookUp(kind, s, a)
    PROVE  IInv'
<1> USE NONEAssumption DEF IInv, tables, life
<1>1. /\ s \in sessions /\ reader' = At(kind, s, a) /\ Allocated(s)
      /\ UNCHANGED <<session, sessions, tokenToSession, gauge, age, cleanup, conn, stop,
                     told, lastData, presented>>
    BY DEF LookUp, TokenIndexAgrees
<1>2. TypeOK'
    BY <1>1 DEF TypeOK, At
<1>3. HandlerSession'
    BY <1>1 DEF HandlerSession, Allocated, At
<1>4. TokenIndexAgrees' /\ PeersDistinct' /\ MembersPresented' /\ ToldAllocated'
    BY <1>1 DEF TokenIndexAgrees, PeersDistinct, MembersPresented, ToldAllocated, Allocated
<1>5. ControlTruthful' /\ DataStaysWithTokenHolders' /\ GaugeExact'
    BY <1>1 DEF ControlTruthful, DataStaysWithTokenHolders, GaugeExact, Paired
<1> QED
    BY <1>2, <1>3, <1>4, <1>5

\* Forwarding: the destination is the other member of the session.
LEMMA ForwardStep == ASSUME IInv, Forward PROVE IInv'
<1> DEFINE S == session[reader.sid]
           to == destinationAddr(S, reader.from)
<1> USE NONEAssumption, IdleTimeoutAssumption DEF IInv, tables, life
<1>1. /\ reader.pc = "data" /\ reader' = Reading
      /\ reader.sid \in SessionIds /\ reader.from \in Addrs /\ Allocated(reader.sid)
      /\ age' = [age EXCEPT ![reader.sid] = 0]
      /\ UNCHANGED <<session, sessions, tokenToSession, gauge, cleanup, conn, stop,
                     told, presented>>
    BY DEF Forward, touchSession, TypeOK, HandlerSession
<1>2. \/ UNCHANGED lastData
      \/ /\ lastData' = [from |-> reader.from, to |-> to, sid |-> reader.sid]
         /\ to # NONE
    BY DEF Forward, Transits
<1>3. to # NONE =>
        /\ to \in Addrs /\ to # reader.from
        /\ {reader.from, to} = {S.PeerAAddr, S.PeerBAddr}
        /\ S.Token \in presented[reader.from] \cap presented[to]
    BY <1>1 DEF destinationAddr, TypeOK, Session, PeersDistinct, MembersPresented, Allocated
<1>4. TypeOK'
    BY <1>1, <1>2, <1>3 DEF TypeOK, Data, Expired, Reading, At
<1>5. DataStaysWithTokenHolders'
    BY <1>1, <1>2, <1>3 DEF DataStaysWithTokenHolders
<1>6. TokenIndexAgrees' /\ PeersDistinct' /\ MembersPresented' /\ ToldAllocated'
    BY <1>1 DEF TokenIndexAgrees, PeersDistinct, MembersPresented, ToldAllocated, Allocated
<1>7. ControlTruthful' /\ GaugeExact' /\ HandlerSession'
    BY <1>1 DEF ControlTruthful, GaugeExact, HandlerSession, Paired, Reading, At
<1> QED
    BY <1>4, <1>5, <1>6, <1>7

\* A pong refreshes the session.
LEMMA PongStep == ASSUME IInv, Pong PROVE IInv'
<1> USE NONEAssumption, IdleTimeoutAssumption DEF IInv, tables, life
<1>1. /\ reader.pc = "ping" /\ reader' = Reading /\ reader.sid \in SessionIds
      /\ age' = [age EXCEPT ![reader.sid] = 0]
      /\ UNCHANGED <<session, sessions, tokenToSession, gauge, cleanup, conn, stop,
                     told, lastData, presented>>
    BY DEF Pong, touchSession, TypeOK
<1>2. TypeOK'
    BY <1>1 DEF TypeOK, Expired, Reading, At
<1>3. TokenIndexAgrees' /\ PeersDistinct' /\ MembersPresented' /\ ToldAllocated'
    BY <1>1 DEF TokenIndexAgrees, PeersDistinct, MembersPresented, ToldAllocated, Allocated
<1>4. ControlTruthful' /\ DataStaysWithTokenHolders' /\ GaugeExact' /\ HandlerSession'
    BY <1>1 DEF ControlTruthful, DataStaysWithTokenHolders, GaugeExact, HandlerSession,
                Paired, Reading, At
<1> QED
    BY <1>2, <1>3, <1>4

\* A DISCONNECT removes the session if it is still in the map.
LEMMA DisconnectStep == ASSUME IInv, Disconnect PROVE IInv'
<1> USE NONEAssumption DEF IInv, life
<1>1. /\ reader' = Reading
      /\ UNCHANGED <<session, age, cleanup, conn, stop, told, lastData, presented>>
    BY DEF Disconnect
<1>2. /\ TokenIndexAgrees' /\ GaugeExact' /\ sessions' \subseteq sessions
      /\ tokenToSession' \in [Tokens -> SessionIds \cup {NONE}]
  <2>1. CASE reader.sid \in sessions
    <3>1. /\ sessions' = sessions \ {reader.sid} /\ {reader.sid} \in SUBSET sessions
          /\ tokenToSession' = DropTokens({reader.sid})
          /\ gauge' = Cardinality(sessions')
      BY <2>1 DEF Disconnect, removeSession
    <3> QED
      BY <3>1, <1>1, RemovalKeepsIndex DEF GaugeExact
  <2>2. CASE reader.sid \notin sessions
    BY <2>2, <1>1 DEF Disconnect, removeSession, TokenIndexAgrees, GaugeExact, TypeOK,
       Allocated
  <2> QED
    BY <2>1, <2>2
<1>3. TypeOK'
    BY <1>1, <1>2 DEF TypeOK, Reading, At
<1>4. PeersDistinct' /\ MembersPresented' /\ ToldAllocated' /\ HandlerSession'
    BY <1>1 DEF PeersDistinct, MembersPresented, ToldAllocated, HandlerSession, Allocated,
                Reading, At
<1>5. ControlTruthful' /\ DataStaysWithTokenHolders'
    BY <1>1 DEF ControlTruthful, DataStaysWithTokenHolders, Paired
<1> QED
    BY <1>2, <1>3, <1>4, <1>5

\* Every step keeps the inductive invariant.
LEMMA StepIInv == IInv /\ [Next]_vars => IInv'
<1> SUFFICES ASSUME IInv, [Next]_vars PROVE IInv'
    OBVIOUS
<1>1. CASE \/ Start \/ StartFails \/ ReaderExits \/ Stop \/ StopReturns
           \/ Tick \/ CleanupExits
    BY <1>1, LifecycleStep
<1>2. CASE Sweep
    BY <1>2, SweepStep
<1>3. ASSUME NEW t \in Tokens, NEW a \in Addrs, Connect(t, a) PROVE IInv'
    BY <1>3, JoinStep, NewStep DEF Connect
<1>4. ASSUME NEW s \in SessionIds, NEW a \in Addrs,
             LookUp("data", s, a) \/ LookUp("ping", s, a) \/ LookUp("disconnect", s, a)
      PROVE  IInv'
    BY <1>4, LookUpStep
<1>5. CASE Handler
    BY <1>5, AcknowledgeStep, ForwardStep, PongStep, DisconnectStep DEF Handler
<1>6. CASE UNCHANGED vars
  <2> USE <1>6 DEF vars, life, IInv
  <2>1. TypeOK'
    BY DEF TypeOK
  <2>2. TokenIndexAgrees' /\ PeersDistinct' /\ MembersPresented' /\ ToldAllocated'
    BY DEF TokenIndexAgrees, PeersDistinct, MembersPresented, ToldAllocated, Allocated
  <2>3. ControlTruthful' /\ DataStaysWithTokenHolders' /\ GaugeExact' /\ HandlerSession'
    BY DEF ControlTruthful, DataStaysWithTokenHolders, GaugeExact, HandlerSession,
           Allocated, Paired
  <2> QED
    BY <2>1, <2>2, <2>3
<1> QED
    BY <1>1, <1>2, <1>3, <1>4, <1>5, <1>6 DEF Next

-----------------------------------------------------------------------------
\* The relay's state is well typed, and all the facts above hold, in every
\* behaviour.
THEOREM RelayInvariant == Spec => []IInv
    BY InitIInv, StepIInv, PTL DEF Spec

\* createSession, removeSession and removeStaleSessions keep the session map and
\* the token map in step, for any number of clients, tokens and sessions.
THEOREM RelayTokenIndex == Spec => []TokenIndexAgrees
<1>1. IInv => TokenIndexAgrees
    BY DEF IInv
<1> QED
    BY <1>1, RelayInvariant, PTL

\* DATA crosses the relay only between the two addresses of a session, both of
\* which presented its token.
THEOREM RelayIsolation == Spec => []DataStaysWithTokenHolders
<1>1. IInv => DataStaysWithTokenHolders
    BY DEF IInv
<1> QED
    BY <1>1, RelayInvariant, PTL

\* What clients are told of a session stays true.
THEOREM RelayControlTruthful == Spec => []ControlTruthful
<1>1. IInv => ControlTruthful
    BY DEF IInv
<1> QED
    BY <1>1, RelayInvariant, PTL

\* The gauge the relay exports is the size of its session map.
THEOREM RelayGauge == Spec => []GaugeExact
<1>1. IInv => GaugeExact
    BY DEF IInv
<1> QED
    BY <1>1, RelayInvariant, PTL

\* A removed session never comes back.
THEOREM RelayRemoval == Spec => RemovedStaysRemoved
<1>1. IInv /\ [Next]_vars =>
        [\A s \in SessionIds : Allocated(s) /\ s \notin sessions => s \notin sessions']_vars
  <2> SUFFICES ASSUME IInv, Next, NEW s \in SessionIds, Allocated(s), s \notin sessions
               PROVE  s \notin sessions'
    OBVIOUS
  <2>1. ASSUME NEW t \in Tokens, NEW a \in Addrs, Connect(t, a) PROVE s \notin sessions'
    BY <2>1 DEF Connect, JoinSession, NewSession
  <2>2. CASE Handler
    BY <2>2 DEF Handler, Acknowledge, Forward, Pong, Disconnect, removeSession,
                touchSession, tables
  <2> QED
    BY <2>1, <2>2 DEF Next, Start, StartFails, ReaderExits, Stop, StopReturns, Tick, Sweep,
                      CleanupExits, LookUp, tables
<1> QED
    BY <1>1, RelayInvariant, PTL DEF Spec, RemovedStaysRemoved
=============================================================================
