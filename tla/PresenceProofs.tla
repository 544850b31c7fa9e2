--------------------------- MODULE PresenceProofs ---------------------------
(***************************************************************************)
(* Proofs about presence for every set of peers and concurrent requests    *)
(* and all intervals the assumption allows.                                *)
(***************************************************************************)
EXTENDS Presence, TLAPS

\* The index lives at least as long as every announcement it leads to.
IndexOutlives ==
    \A p \in Peers : (Announced(p) /\ p \notin lost) => p \in index.ids /\ entry[p] <= index.ttl

\* The row of a deleted id is gone for good.
DeletedGone == \A p \in deleted : row[p] = NONE

\* What was deleted before a listing began is deleted, and not found.
ListsUndeleted ==
    \A r \in Requests : req[r].pc \in {"list", "index", "get", "srem"} =>
        req[r].barred \subseteq deleted /\ req[r].found \cap req[r].barred = {}

\* The inductive invariant.
IInv == TypeOK /\ IndexOutlives /\ DeletedGone /\ ListsUndeleted /\ OfflineEndsOffline

-----------------------------------------------------------------------------
(* Which steps can change what *)

\* Only announcements, Offline, ListPeers and time change the cache.
LEMMA RedisFrame ==
    ASSUME [Next]_vars
    PROVE  \/ \E r \in Requests : AnnounceStore(r) \/ OfflineRedis(r) \/ ListRemove(r)
           \/ Tick
           \/ UNCHANGED redis
<1>1. CASE \E r \in Requests : Begin(r) \/ Continue(r) \/ StatementFails(r)
    BY <1>1 DEF Begin, Continue, StatementFails, Heartbeat, Announce, Offline, List,
                HeartbeatStore, OfflineUpdate, OfflineMark, ListRows, ListIndex, ListGet,
                ListResponds
<1>2. CASE UNCHANGED vars
    BY <1>2 DEF vars, redis
<1> QED
    BY <1>1, <1>2 DEF Next, Register, JoinAuto, JoinPending, StoreRow, DeviceStarts,
                      ClientStops, ApprovePeer, RejectPeer, DeletePeer, CleanUp

\* Steps outside the handlers leave the requests alone.
LEMMA RequestFrame ==
    ASSUME [Next]_vars
    PROVE  \/ \E r \in Requests : Begin(r) \/ Continue(r) \/ StatementFails(r)
           \/ UNCHANGED req
BY DEF Next, vars, Register, JoinAuto, JoinPending, StoreRow, DeviceStarts,
       ClientStops, ApprovePeer, RejectPeer, DeletePeer, CleanUp, Tick

\* Only DeletePeer changes what is deleted.
LEMMA DeletedFrame ==
    ASSUME [Next]_vars
    PROVE  (\E p \in Peers : DeletePeer(p)) \/ UNCHANGED deleted
<1>1. CASE \E r \in Requests : Begin(r) \/ Continue(r) \/ StatementFails(r)
    BY <1>1 DEF Begin, Continue, StatementFails, Heartbeat, Announce, Offline, List,
                HeartbeatStore, OfflineUpdate, OfflineMark, ListRows, ListIndex, ListGet,
                ListResponds, AnnounceStore, OfflineRedis, ListRemove, table
<1>2. CASE UNCHANGED vars
    BY <1>2 DEF vars
<1> QED
    BY <1>1, <1>2 DEF Next, Register, JoinAuto, JoinPending, StoreRow, DeviceStarts,
                      ClientStops, ApprovePeer, RejectPeer, CleanUp, Tick, table

\* The statements that write rows.
LEMMA TableFrame ==
    ASSUME [Next]_vars
    PROVE  \/ \E r \in Requests : HeartbeatStore(r) \/ OfflineUpdate(r) \/ OfflineMark(r)
           \/ \E p \in Peers :
                \/ Register(p) \/ JoinAuto(p) \/ JoinPending(p)
                \/ ApprovePeer(p) \/ RejectPeer(p) \/ DeletePeer(p)
           \/ CleanUp \/ Tick
           \/ UNCHANGED <<row, deleted, onlineBy>>
<1>1. CASE \E r \in Requests : Begin(r) \/ Continue(r) \/ StatementFails(r)
    BY <1>1 DEF Begin, Continue, StatementFails, Heartbeat, Announce, Offline, List,
                ListRows, ListIndex, ListGet, ListResponds, AnnounceStore, OfflineRedis,
                ListRemove, table
<1>2. CASE UNCHANGED vars
    BY <1>2 DEF vars
<1> QED
    BY <1>1, <1>2 DEF Next, DeviceStarts, ClientStops, table

\* A step of a handler changes its own request only.
LEMMA OneRequest ==
    ASSUME NEW r \in Requests, Begin(r) \/ Continue(r) \/ StatementFails(r),
           req \in [Requests -> {Idle} \cup Reporting \cup Listings],
           NEW s \in Requests, s # r
    PROVE  req'[s] = req[s]
BY DEF Begin, Continue, StatementFails, Heartbeat, Announce, Offline, List, HeartbeatStore,
       AnnounceStore, OfflineUpdate, OfflineMark, OfflineRedis, ListRows, ListIndex, ListGet,
       ListRemove, ListResponds, Goto, Respond

-----------------------------------------------------------------------------
\* The initial states satisfy the invariant.
LEMMA InitIInv == Init => IInv
<1> SUFFICES ASSUME Init PROVE IInv
    OBVIOUS
<1> USE PresenceAssumption DEF Init
<1>1. TypeOK
    BY DEF TypeOK, NoIndex, Idle
<1>2. IndexOutlives /\ DeletedGone
    BY DEF IndexOutlives, DeletedGone, Announced
<1>3. ListsUndeleted /\ OfflineEndsOffline
    BY DEF ListsUndeleted, OfflineEndsOffline, Idle
<1> QED
    BY <1>1, <1>2, <1>3 DEF IInv

\* The cache: an announcement gives the index a full life, Offline and the loss of
\* an id are accounted for, and a tick takes the same from both.
LEMMA IndexStep == TypeOK /\ IndexOutlives /\ [Next]_vars => IndexOutlives'
<1> SUFFICES ASSUME TypeOK, IndexOutlives, [Next]_vars PROVE IndexOutlives'
    OBVIOUS
<1> USE PresenceAssumption
<1>1. /\ index \in [ids : SUBSET Peers, ttl : 0 .. IndexTTL]
      /\ entry \in [Peers -> 0 .. EntryTTL]
    BY DEF TypeOK
<1> SUFFICES ASSUME NEW p \in Peers, Announced(p)', p \notin lost'
             PROVE  p \in index.ids' /\ entry[p]' <= index.ttl'
    BY DEF IndexOutlives
<1>2. ASSUME NEW r \in Requests, AnnounceStore(r)
      PROVE  p \in index.ids' /\ entry[p]' <= index.ttl'
  <2>1. CASE p = req[r].peer
    BY <1>1, <1>2, <2>1 DEF AnnounceStore, Indexed
  <2>2. CASE p # req[r].peer
    BY <1>1, <1>2, <2>2 DEF AnnounceStore, Indexed, IndexOutlives, Announced
  <2> QED
    BY <2>1, <2>2
<1>3. ASSUME NEW r \in Requests, OfflineRedis(r)
      PROVE  p \in index.ids' /\ entry[p]' <= index.ttl'
    BY <1>1, <1>3 DEF OfflineRedis, Unindexed, NoIndex, IndexOutlives, Announced, redis
<1>4. ASSUME NEW r \in Requests, ListRemove(r)
      PROVE  p \in index.ids' /\ entry[p]' <= index.ttl'
    BY <1>1, <1>4 DEF ListRemove, Unindexed, NoIndex, IndexOutlives, Announced
<1>5. ASSUME Tick
      PROVE  p \in index.ids' /\ entry[p]' <= index.ttl'
  <2>1. entry[p] > 1 /\ p \notin lost /\ entry'[p] = entry[p] - 1
    BY <1>1, <1>5 DEF Tick, Announced
  <2>2. p \in index.ids /\ entry[p] <= index.ttl
    BY <1>1, <2>1 DEF IndexOutlives, Announced
  <2> QED
    BY <1>1, <1>5, <2>1, <2>2 DEF Tick
<1>6. ASSUME UNCHANGED redis
      PROVE  p \in index.ids' /\ entry[p]' <= index.ttl'
    BY <1>6 DEF redis, IndexOutlives, Announced
<1> QED
    BY <1>2, <1>3, <1>4, <1>5, <1>6, RedisFrame

\* A statement of a handler writes at most one row, and none that is gone.
LEMMA DeletedStep == TypeOK /\ DeletedGone /\ [Next]_vars => DeletedGone'
<1> SUFFICES ASSUME TypeOK, DeletedGone, [Next]_vars, NEW p \in deleted' PROVE row'[p] = NONE
    BY DEF DeletedGone
<1>1. p \in Peers /\ (p \in deleted => row[p] = NONE) /\ row \in [Peers -> Row \cup {NONE}]
    BY DeletedFrame DEF TypeOK, DeletedGone, DeletePeer
<1>2. ASSUME NEW q \in Peers, DeletePeer(q) PROVE row'[p] = NONE
    BY <1>1, <1>2 DEF DeletePeer
<1>3. ASSUME NEW q \in Peers, Register(q) \/ JoinAuto(q) \/ JoinPending(q) PROVE row'[p] = NONE
    BY <1>1, <1>3 DEF Register, JoinAuto, JoinPending, StoreRow
<1>4. ASSUME NEW q \in Peers, ApprovePeer(q) \/ RejectPeer(q) PROVE row'[p] = NONE
    BY <1>1, <1>4 DEF ApprovePeer, RejectPeer
<1>5. ASSUME CleanUp \/ Tick PROVE row'[p] = NONE
    BY <1>1, <1>5 DEF CleanUp, Tick, Stale
<1>6. ASSUME NEW r \in Requests, HeartbeatStore(r) \/ OfflineUpdate(r) \/ OfflineMark(r)
      PROVE  row'[p] = NONE
    BY <1>1, <1>6 DEF HeartbeatStore, OfflineUpdate, OfflineMark, UpdatePeerStatus,
       MarkPeerOffline
<1>7. ASSUME UNCHANGED <<row, deleted>> PROVE row'[p] = NONE
    BY <1>1, <1>7
<1> QED
    BY <1>2, <1>3, <1>4, <1>5, <1>6, <1>7, TableFrame

\* A listing begins with what is deleted then, and finds only rows.
LEMMA ListsStep ==
    TypeOK /\ DeletedGone /\ ListsUndeleted /\ [Next]_vars => ListsUndeleted'
<1> SUFFICES ASSUME TypeOK, DeletedGone, ListsUndeleted, [Next]_vars PROVE ListsUndeleted'
    OBVIOUS
<1>1. deleted \subseteq deleted' /\ req \in [Requests -> {Idle} \cup Reporting \cup Listings]
    BY DeletedFrame DEF DeletePeer, TypeOK
<1> SUFFICES ASSUME NEW r \in Requests, req'[r].pc \in {"list", "index", "get", "srem"}
             PROVE  req'[r].barred \subseteq deleted' /\ req'[r].found \cap req'[r].barred = {}
    BY DEF ListsUndeleted
<1> DEFINE Fine(q) == q.barred \subseteq deleted /\ q.found \cap q.barred = {}
<1>2. CASE req'[r] = req[r]
    BY <1>1, <1>2 DEF ListsUndeleted
<1>3. CASE req'[r] # req[r]
  <2>1. Begin(r) \/ Continue(r) \/ StatementFails(r)
    BY <1>1, <1>3, RequestFrame, OneRequest
  <2>2. CASE Begin(r)
    BY <1>1, <2>2 DEF Begin, Heartbeat, Announce, Offline, List, Listing, Goto
  <2>3. CASE StatementFails(r)
    BY <1>1, <2>3 DEF StatementFails, Respond, Goto, Idle
  <2>4. CASE ListRows(r)
    <3>1. req[r] \in Listings /\ Fine(req[r])
        BY <1>1, <2>4 DEF ListRows, Idle, Reporting, ListsUndeleted
    <3>2. req'[r].barred = req[r].barred /\ req'[r].found = Visible
        BY <1>1, <2>4, <3>1 DEF ListRows, Goto, Listings
    <3> QED
        BY <1>1, <3>1, <3>2 DEF Visible, DeletedGone
  <2>5. CASE ListIndex(r) \/ ListRemove(r)
    <3>1. req[r] \in Listings /\ Fine(req[r])
        BY <1>1, <2>5 DEF ListIndex, ListRemove, Idle, Reporting, ListsUndeleted
    <3>2. CASE ListIndex(r)
        BY <1>1, <3>1, <3>2 DEF ListIndex, Goto, Listings
    <3>3. CASE ListRemove(r)
        BY <1>1, <3>1, <3>3 DEF ListRemove, Goto, Listings
    <3> QED
        BY <2>5, <3>2, <3>3
  <2>6. ASSUME NEW p \in Peers, ListGet(r, p)
        PROVE  req'[r].barred \subseteq deleted' /\ req'[r].found \cap req'[r].barred = {}
    <3>1. req[r] \in Listings /\ Fine(req[r])
        BY <1>1, <2>6 DEF ListGet, Idle, Reporting, ListsUndeleted
    <3>2. CASE Goto(r, [req[r] EXCEPT !.todo = @ \ {p}, !.found = Merged(@, p)])
        BY <1>1, <3>1, <3>2 DEF Goto, Listings, Merged
    <3>3. CASE Goto(r, [req[r] EXCEPT !.todo = @ \ {p}, !.pc = "srem", !.missing = p])
        BY <1>1, <3>1, <3>3 DEF Goto, Listings
    <3>4. CASE Goto(r, [req[r] EXCEPT !.todo = @ \ {p}])
        BY <1>1, <3>1, <3>4 DEF Goto, Listings
    <3> QED
        BY <2>6, <3>2, <3>3, <3>4 DEF ListGet
  <2>7. CASE \/ HeartbeatStore(r) \/ AnnounceStore(r) \/ OfflineRedis(r) \/ ListResponds(r)
    BY <1>1, <2>7 DEF HeartbeatStore, AnnounceStore, OfflineRedis, ListResponds, Respond, Goto,
       Idle
  <2>8. CASE OfflineUpdate(r) \/ OfflineMark(r)
    BY <1>1, <2>8 DEF OfflineUpdate, OfflineMark, Goto, Reporting, Listings, Idle
  <2> QED
    BY <2>1, <2>2, <2>3, <2>4, <2>5, <2>6, <2>7, <2>8 DEF Continue
<1> QED
    BY <1>2, <1>3

\* Offline: the statement that marks a peer online is followed by the one that
\* takes it back.
LEMMA OfflineStep == TypeOK /\ OfflineEndsOffline /\ [Next]_vars => OfflineEndsOffline'
<1> SUFFICES ASSUME TypeOK, OfflineEndsOffline, [Next]_vars, NEW p \in Peers,
                    row'[p] # NONE, row'[p].online, onlineBy'[p] = "offline"
             PROVE  \E r \in Requests : req'[r].pc = "offline_mark" /\ req'[r].peer = p
    BY DEF OfflineEndsOffline
<1> DEFINE Marks(q) == q.pc = "offline_mark" /\ q.peer = p
           Was == row[p] # NONE /\ row[p].online /\ onlineBy[p] = "offline"
<1>1. /\ req \in [Requests -> {Idle} \cup Reporting \cup Listings]
      /\ row \in [Peers -> Row \cup {NONE}]
      /\ onlineBy \in [Peers -> {"nobody", "client", "offline", "failure"}]
    BY DEF TypeOK
<1>2. Was => \E r \in Requests : Marks(req[r])
    BY DEF OfflineEndsOffline
<1>3. ASSUME NEW r \in Requests, OfflineMark(r) PROVE \E s \in Requests : Marks(req'[s])
  <2>1. p # req[r].peer
    BY <1>1, <1>3 DEF OfflineMark, MarkPeerOffline, Row
  <2>2. Was
    BY <1>1, <1>3, <2>1 DEF OfflineMark, MarkPeerOffline
  <2>3. PICK s \in Requests : Marks(req[s])
    BY <1>2, <2>2
  <2>4. s # r /\ req'[s] = req[s]
    BY <1>1, <1>3, <2>1, <2>3, OneRequest DEF Continue
  <2> QED
    BY <2>3, <2>4
<1>4. ASSUME NEW r \in Requests, OfflineUpdate(r) PROVE \E s \in Requests : Marks(req'[s])
  <2>1. req'[r] = [req[r] EXCEPT !.pc = "offline_mark"] /\ req[r] \in Reporting
    BY <1>1, <1>4 DEF OfflineUpdate, Goto, Idle, Listings
  <2>2. CASE p = req[r].peer
    BY <2>1, <2>2 DEF Reporting
  <2>3. CASE p # req[r].peer
    <3>1. Was
        BY <1>1, <1>4, <2>3 DEF OfflineUpdate, UpdatePeerStatus
    <3>2. PICK s \in Requests : Marks(req[s])
        BY <1>2, <3>1
    <3>3. s # r /\ req'[s] = req[s]
        BY <1>1, <1>4, <3>2, OneRequest DEF Continue, OfflineUpdate
    <3> QED
        BY <3>2, <3>3
  <2> QED
    BY <2>2, <2>3
<1>5. ASSUME NEW r \in Requests, Begin(r) \/ Continue(r) \/ StatementFails(r),
             ~OfflineMark(r), ~OfflineUpdate(r)
      PROVE  \E s \in Requests : Marks(req'[s])
  <2>1. req[r].pc # "offline_mark"
    <3>1. CASE Begin(r)
        <4>1. req[r] = Idle
            BY <3>1 DEF Begin, Heartbeat, Announce, Offline, List
        <4> QED
            BY <4>1 DEF Idle
    <3>2. CASE StatementFails(r)
        BY <3>2 DEF StatementFails
    <3>3. CASE Continue(r)
        BY <1>5, <3>3 DEF Continue, HeartbeatStore, AnnounceStore, OfflineRedis, ListRows,
                          ListIndex, ListGet, ListRemove, ListResponds
    <3> QED
        BY <1>5, <3>1, <3>2, <3>3
  <2>2. Was
    <3>1. CASE HeartbeatStore(r)
        BY <1>1, <3>1 DEF HeartbeatStore, UpdatePeerStatus
    <3>2. CASE ~HeartbeatStore(r)
        <4>1. UNCHANGED <<row, onlineBy>>
            BY <1>5, <3>2 DEF Begin, Continue, StatementFails, Heartbeat, Announce, Offline,
               List,
                      AnnounceStore, OfflineRedis, ListRows, ListIndex,
                      ListGet, ListRemove, ListResponds, table
        <4> QED
            BY <4>1
    <3> QED
        BY <3>1, <3>2
  <2>3. PICK s \in Requests : Marks(req[s])
    BY <1>2, <2>2
  <2>4. s # r /\ req'[s] = req[s]
    BY <1>1, <1>5, <2>1, <2>3, OneRequest
  <2> QED
    BY <2>3, <2>4
<1>6. ASSUME UNCHANGED req PROVE \E s \in Requests : Marks(req'[s])
  <2>1. Was
    <3>1. ASSUME NEW q \in Peers, Register(q) \/ JoinAuto(q) \/ JoinPending(q) PROVE Was
        <4>1. q = p => JoinPending(q)
            BY <1>1, <3>1 DEF Register, JoinAuto
        <4>2. CASE q = p
            <5>1. JoinPending(p)
                BY <4>1, <4>2
            <5>2. row'[p] = PendingRow(p) /\ onlineBy'[p] = onlineBy[p]
                BY <1>1, <5>1 DEF JoinPending, StoreRow
            <5>3. row[p] # NONE
                BY <5>2 DEF PendingRow
            <5>4. row'[p] = [row[p] EXCEPT !.seen = 0] /\ row[p] \in Row
                BY <1>1, <5>2, <5>3 DEF PendingRow
            <5>5. row'[p].online = row[p].online
                BY <5>4 DEF Row
            <5> QED
                BY <5>2, <5>3, <5>5
        <4>3. CASE q # p
            BY <1>1, <3>1, <4>3 DEF Register, JoinAuto, JoinPending, StoreRow
        <4> QED
            BY <4>2, <4>3
    <3>2. ASSUME NEW q \in Peers, ApprovePeer(q) \/ RejectPeer(q) \/ DeletePeer(q) PROVE Was
        <4>1. row'[p] = row[p] \/ row'[p] = [row[p] EXCEPT !.status = "rejected"]
            BY <1>1, <3>2 DEF ApprovePeer, RejectPeer, DeletePeer, Row
        <4>2. row[p] # NONE
            BY <1>1, <3>2, <4>1 DEF ApprovePeer, RejectPeer, DeletePeer
        <4> QED
            BY <1>1, <3>2, <4>1, <4>2 DEF ApprovePeer, RejectPeer, DeletePeer, Row
    <3>3. ASSUME CleanUp \/ Tick PROVE Was
        <4>1. CASE CleanUp
            <5>1. onlineBy' = onlineBy
                BY <4>1 DEF CleanUp
            <5>2. row'[p] = row[p] \/ row'[p] = [row[p] EXCEPT !.online = FALSE]
                BY <4>1 DEF CleanUp
            <5>3. row[p] # NONE
                BY <4>1 DEF CleanUp, Stale
            <5>4. row[p] \in Row
                BY <1>1, <5>3
            <5> QED
                BY <5>1, <5>2, <5>3, <5>4 DEF Row
        <4>2. CASE Tick
            <5>1. onlineBy' = onlineBy
                BY <4>2 DEF Tick
            <5>2. row[p] # NONE /\ row'[p] = [row[p] EXCEPT !.seen = Older(@)]
                BY <4>2 DEF Tick
            <5>3. row[p] \in Row
                BY <1>1, <5>2
            <5> QED
                BY <5>1, <5>2, <5>3 DEF Row
        <4> QED
            BY <3>3, <4>1, <4>2
    <3>4. ASSUME NEW r \in Requests, OfflineUpdate(r) \/ HeartbeatStore(r) \/ OfflineMark(r)
          PROVE  FALSE
        BY <1>1, <1>6, <3>4 DEF OfflineUpdate, HeartbeatStore, OfflineMark, Goto, Respond,
           Idle,
                                Reporting, Listings
    <3> QED
        BY <3>1, <3>2, <3>3, <3>4, TableFrame
  <2> QED
    BY <1>2, <1>6, <2>1
<1> QED
    BY <1>3, <1>4, <1>5, <1>6, RequestFrame

-----------------------------------------------------------------------------
(* Types *)

\* A row that is written is a row.
LEMMA RowTypes ==
    ASSUME NEW p \in Peers, row \in [Peers -> Row \cup {NONE}]
    PROVE  /\ \A s \in {"", "approved"} : RegisteredRow(p, s) \in Row
           /\ PendingRow(p) \in Row
           /\ row[p] # NONE =>
                /\ \A s \in {"approved", "rejected"} : [row[p] EXCEPT !.status = s] \in Row
                /\ \A b \in BOOLEAN : [row[p] EXCEPT !.online = b] \in Row
                /\ [row[p] EXCEPT !.online = TRUE, !.seen = 0] \in Row
                /\ [row[p] EXCEPT !.status = "approved", !.online = FALSE] \in Row
                /\ [row[p] EXCEPT !.seen = Older(@)] \in Row
<1> USE PresenceAssumption
<1>1. /\ 0 \in (0 .. Expired) \cup {NONE} /\ NONE \in (0 .. Expired) \cup {NONE}
      /\ \A x \in (0 .. Expired) \cup {NONE} : Older(x) \in (0 .. Expired) \cup {NONE}
    BY DEF Expired, Older
<1>2. CASE row[p] = NONE
    BY <1>1, <1>2 DEF RegisteredRow, PendingRow, Row
<1>3. CASE row[p] # NONE
  <2>1. row[p] \in Row
    BY <1>3
  <2> QED
    BY <1>1, <1>3, <2>1 DEF RegisteredRow, PendingRow, Row
<1> QED
    BY <1>2, <1>3

\* Every statement on the table writes rows.
LEMMA TableTypes == TypeOK /\ [Next]_vars =>
    /\ row' \in [Peers -> Row \cup {NONE}]
    /\ deleted' \subseteq Peers
    /\ onlineBy' \in [Peers -> {"nobody", "client", "offline", "failure"}]
<1> SUFFICES ASSUME TypeOK, [Next]_vars
             PROVE  /\ row' \in [Peers -> Row \cup {NONE}]
                    /\ deleted' \subseteq Peers
                    /\ onlineBy' \in [Peers -> {"nobody", "client", "offline", "failure"}]
    OBVIOUS
<1>1. /\ row \in [Peers -> Row \cup {NONE}]
      /\ deleted \subseteq Peers
      /\ onlineBy \in [Peers -> {"nobody", "client", "offline", "failure"}]
      /\ req \in [Requests -> {Idle} \cup Reporting \cup Listings]
    BY DEF TypeOK
<1> DEFINE Fine == /\ row' \in [Peers -> Row \cup {NONE}]
                   /\ deleted' \subseteq Peers
                   /\ onlineBy' \in [Peers -> {"nobody", "client", "offline", "failure"}]
<1>2. ASSUME NEW p \in Peers, Register(p) \/ JoinAuto(p) \/ JoinPending(p) PROVE Fine
    BY <1>1, <1>2, RowTypes DEF Register, JoinAuto, JoinPending, StoreRow
<1>3. ASSUME NEW p \in Peers, ApprovePeer(p) \/ RejectPeer(p) \/ DeletePeer(p) PROVE Fine
  <2>1. row[p] \in Row /\ row[p] # NONE
    BY <1>1, <1>3 DEF ApprovePeer, RejectPeer, DeletePeer
  <2>2. CASE ApprovePeer(p)
    BY <1>1, <2>1, <2>2, RowTypes DEF ApprovePeer
  <2>3. CASE RejectPeer(p)
    BY <1>1, <2>1, <2>3, RowTypes DEF RejectPeer
  <2>4. CASE DeletePeer(p)
    BY <1>1, <2>4 DEF DeletePeer
  <2> QED
    BY <1>3, <2>2, <2>3, <2>4
<1>4. ASSUME CleanUp \/ Tick PROVE Fine
  <2>1. row' \in [Peers -> Row \cup {NONE}]
    BY <1>1, <1>4, RowTypes DEF CleanUp, Tick, Stale
  <2> QED
    BY <1>1, <1>4, <2>1 DEF CleanUp, Tick
<1>5. ASSUME NEW r \in Requests, HeartbeatStore(r) \/ OfflineUpdate(r) \/ OfflineMark(r)
      PROVE  Fine
  <2>1. req[r].peer \in Peers
    BY <1>1, <1>5 DEF HeartbeatStore, OfflineUpdate, OfflineMark, Idle, Reporting, Listings
  <2>2. ASSUME NEW who \in {"client", "offline"}, UpdatePeerStatus(req[r].peer, who)
        PROVE  /\ row' \in [Peers -> Row \cup {NONE}]
               /\ onlineBy' \in [Peers -> {"nobody", "client", "offline", "failure"}]
    BY <1>1, <2>1, <2>2, RowTypes DEF UpdatePeerStatus
  <2>3. ASSUME MarkPeerOffline(req[r].peer) PROVE row' \in [Peers -> Row \cup {NONE}]
    BY <1>1, <2>1, <2>3, RowTypes DEF MarkPeerOffline
  <2>4. deleted' = deleted
    BY <1>5 DEF HeartbeatStore, OfflineUpdate, OfflineMark
  <2>5. CASE HeartbeatStore(r) \/ OfflineUpdate(r)
    BY <1>1, <2>2, <2>4, <2>5 DEF HeartbeatStore, OfflineUpdate
  <2>6. CASE OfflineMark(r)
    BY <1>1, <2>1, <2>3, <2>4, <2>6 DEF OfflineMark
  <2> QED
    BY <1>5, <2>5, <2>6
<1>6. ASSUME UNCHANGED <<row, deleted, onlineBy>> PROVE Fine
    BY <1>1, <1>6
<1> QED
    BY <1>2, <1>3, <1>4, <1>5, <1>6, TableFrame

\* Every statement on the cache leaves entries, an index and ids.
LEMMA RedisTypes == TypeOK /\ [Next]_vars =>
    /\ entry' \in [Peers -> 0 .. EntryTTL]
    /\ index' \in [ids : SUBSET Peers, ttl : 0 .. IndexTTL]
    /\ lost' \subseteq Peers
<1> SUFFICES ASSUME TypeOK, [Next]_vars
             PROVE  /\ entry' \in [Peers -> 0 .. EntryTTL]
                    /\ index' \in [ids : SUBSET Peers, ttl : 0 .. IndexTTL]
                    /\ lost' \subseteq Peers
    OBVIOUS
<1> USE PresenceAssumption
<1>1. /\ entry \in [Peers -> 0 .. EntryTTL]
      /\ index \in [ids : SUBSET Peers, ttl : 0 .. IndexTTL]
      /\ lost \subseteq Peers
      /\ req \in [Requests -> {Idle} \cup Reporting \cup Listings]
      /\ \A r \in Requests : req[r].pc = "srem" => req[r].missing # NONE
    BY DEF TypeOK
<1> DEFINE Fine == /\ entry' \in [Peers -> 0 .. EntryTTL]
                   /\ index' \in [ids : SUBSET Peers, ttl : 0 .. IndexTTL]
                   /\ lost' \subseteq Peers
<1>2. ASSUME NEW r \in Requests, AnnounceStore(r) PROVE Fine
  <2>1. req[r].peer \in Peers
    BY <1>1, <1>2 DEF AnnounceStore, Idle, Reporting, Listings
  <2> QED
    BY <1>1, <1>2, <2>1 DEF AnnounceStore, Indexed
<1>3. ASSUME NEW r \in Requests, OfflineRedis(r) PROVE Fine
    BY <1>1, <1>3 DEF OfflineRedis, Unindexed, NoIndex, redis
<1>4. ASSUME NEW r \in Requests, ListRemove(r) PROVE Fine
  <2>1. req[r].missing \in Peers
    BY <1>1, <1>4 DEF ListRemove, Idle, Reporting, Listings
  <2> QED
    BY <1>1, <1>4, <2>1 DEF ListRemove, Unindexed, NoIndex
<1>5. ASSUME Tick PROVE Fine
  <2>1. entry' \in [Peers -> 0 .. EntryTTL] /\ lost' \subseteq Peers
    BY <1>1, <1>5 DEF Tick, Announced
  <2>2. index' \in [ids : SUBSET Peers, ttl : 0 .. IndexTTL]
    BY <1>1, <1>5 DEF Tick, NoIndex
  <2> QED
    BY <2>1, <2>2
<1>6. ASSUME UNCHANGED redis PROVE Fine
    BY <1>1, <1>6 DEF redis
<1> QED
    BY <1>2, <1>3, <1>4, <1>5, <1>6, RedisFrame

\* A handler's request stays a request of its kind, and remembers what it misses.
LEMMA RequestTypes == TypeOK /\ [Next]_vars =>
    /\ req' \in [Requests -> {Idle} \cup Reporting \cup Listings]
    /\ \A r \in Requests : req'[r].pc = "srem" => req'[r].missing # NONE
<1> SUFFICES ASSUME TypeOK, [Next]_vars
             PROVE  /\ req' \in [Requests -> {Idle} \cup Reporting \cup Listings]
                    /\ \A r \in Requests : req'[r].pc = "srem" => req'[r].missing # NONE
    OBVIOUS
<1> USE PresenceAssumption
<1> DEFINE Requested == {Idle} \cup Reporting \cup Listings
           Kept(q) == q \in Requested /\ (q.pc = "srem" => q.missing # NONE)
<1>1. /\ req \in [Requests -> Requested]
      /\ \A r \in Requests : req[r].pc = "srem" => req[r].missing # NONE
      /\ deleted \subseteq Peers /\ index.ids \subseteq Peers
    BY DEF TypeOK
<1>2. ASSUME NEW r \in Requests, NEW q, Kept(q), Goto(r, q)
      PROVE  /\ req' \in [Requests -> Requested]
             /\ \A s \in Requests : req'[s].pc = "srem" => req'[s].missing # NONE
    BY <1>1, <1>2 DEF Goto
<1>3. ASSUME NEW r \in Requests, Begin(r) \/ Continue(r) \/ StatementFails(r)
      PROVE  \E q : Kept(q) /\ Goto(r, q)
  <2>1. Kept(Idle)
    BY DEF Idle
  <2>2. CASE \/ HeartbeatStore(r) \/ AnnounceStore(r) \/ OfflineRedis(r) \/ ListResponds(r)
             \/ StatementFails(r)
    BY <2>1, <2>2 DEF HeartbeatStore, AnnounceStore, OfflineRedis, ListResponds,
       StatementFails,
                      Respond
  <2>3. ASSUME NEW p \in Peers, Heartbeat(r, p) \/ Announce(r, p) \/ Offline(r, p)
        PROVE  \E q : Kept(q) /\ Goto(r, q)
    <3>1. \A pc \in {"heartbeat", "announce", "offline_update"} :
            Kept([pc |-> pc, peer |-> p])
        BY DEF Reporting
    <3> QED
        BY <2>3, <3>1 DEF Heartbeat, Announce, Offline
  <2>4. ASSUME NEW handler \in {"Peers", "ListPeers"}, List(r, handler)
        PROVE  \E q : Kept(q) /\ Goto(r, q)
    <3>1. Kept(Listing(handler))
        BY <1>1 DEF Listing, Listings
    <3> QED
        BY <2>4, <3>1 DEF List
  <2>5. CASE OfflineUpdate(r) \/ OfflineMark(r)
    <3>1. req[r] \in Reporting
        BY <1>1, <2>5 DEF OfflineUpdate, OfflineMark, Idle, Listings
    <3>2. \A pc \in {"offline_mark", "offline_redis"} : Kept([req[r] EXCEPT !.pc = pc])
        BY <3>1 DEF Reporting
    <3> QED
        BY <2>5, <3>2 DEF OfflineUpdate, OfflineMark
  <2>6. CASE ListRows(r) \/ ListIndex(r) \/ ListRemove(r)
    <3>1. req[r] \in Listings
        BY <1>1, <2>6 DEF ListRows, ListIndex, ListRemove, Idle, Reporting
    <3>2. Kept([req[r] EXCEPT !.pc = "index", !.found = Visible])
        BY <3>1 DEF Listings, Visible
    <3>3. Kept([req[r] EXCEPT !.pc = "get", !.todo = index.ids])
        BY <1>1, <3>1 DEF Listings
    <3>4. Kept([req[r] EXCEPT !.pc = "get", !.missing = NONE])
        BY <3>1 DEF Listings
    <3> QED
        BY <2>6, <3>2, <3>3, <3>4 DEF ListRows, ListIndex, ListRemove
  <2>7. ASSUME NEW p \in Peers, ListGet(r, p)
        PROVE  \E q : Kept(q) /\ Goto(r, q)
    <3>1. req[r] \in Listings /\ req[r].pc = "get"
        BY <1>1, <2>7 DEF ListGet, Idle, Reporting
    <3>2. Kept([req[r] EXCEPT !.todo = @ \ {p}, !.found = Merged(@, p)])
        BY <3>1 DEF Listings, Merged
    <3>3. Kept([req[r] EXCEPT !.todo = @ \ {p}, !.pc = "srem", !.missing = p])
        BY <3>1 DEF Listings
    <3>4. Kept([req[r] EXCEPT !.todo = @ \ {p}])
        BY <3>1 DEF Listings
    <3> QED
        BY <2>7, <3>2, <3>3, <3>4 DEF ListGet
  <2> QED
    BY <1>3, <2>2, <2>3, <2>4, <2>5, <2>6, <2>7 DEF Begin, Continue
<1>4. CASE \E r \in Requests : Begin(r) \/ Continue(r) \/ StatementFails(r)
    BY <1>2, <1>3, <1>4
<1>5. CASE UNCHANGED req
    BY <1>1, <1>5
<1> QED
    BY <1>4, <1>5, RequestFrame

\* What is left: who an id was given to, which clients run, the network's mode.
LEMMA ClientTypes == TypeOK /\ [Next]_vars =>
    /\ accessControl' \in {"auto", "approve"}
    /\ kind' \in [Peers -> {NONE, "device", "agent"}]
    /\ running' \in [Peers -> BOOLEAN]
<1> SUFFICES ASSUME TypeOK, [Next]_vars
             PROVE  /\ accessControl' \in {"auto", "approve"}
                    /\ kind' \in [Peers -> {NONE, "device", "agent"}]
                    /\ running' \in [Peers -> BOOLEAN]
    OBVIOUS
<1>1. /\ accessControl \in {"auto", "approve"}
      /\ kind \in [Peers -> {NONE, "device", "agent"}]
      /\ running \in [Peers -> BOOLEAN]
    BY DEF TypeOK
<1>2. ASSUME NEW r \in Requests, Begin(r) \/ Continue(r) \/ StatementFails(r)
      PROVE  UNCHANGED <<accessControl, kind, running>>
    BY <1>2 DEF Begin, Continue, StatementFails, Heartbeat, Announce, Offline, List,
                HeartbeatStore, OfflineUpdate, OfflineMark, ListRows, ListIndex, ListGet,
                ListResponds, AnnounceStore, OfflineRedis, ListRemove, table
<1>3. ASSUME NEW p \in Peers,
             \/ Register(p) \/ JoinAuto(p) \/ JoinPending(p)
             \/ DeviceStarts(p) \/ ClientStops(p)
      PROVE  /\ accessControl' = accessControl
             /\ kind' \in [Peers -> {NONE, "device", "agent"}]
             /\ running' \in [Peers -> BOOLEAN]
    BY <1>1, <1>3 DEF Register, JoinAuto, JoinPending, StoreRow, DeviceStarts, ClientStops,
       table
<1>4. ASSUME NEW p \in Peers, ApprovePeer(p) \/ RejectPeer(p) \/ DeletePeer(p)
      PROVE  UNCHANGED <<accessControl, kind, running>>
    BY <1>4 DEF ApprovePeer, RejectPeer, DeletePeer
<1>5. CASE CleanUp \/ Tick \/ UNCHANGED vars
    BY <1>1, <1>5 DEF CleanUp, Tick, vars
<1> QED
    BY <1>1, <1>2, <1>3, <1>4, <1>5 DEF Next

\* A step keeps the types.
LEMMA TypeStep == TypeOK /\ [Next]_vars => TypeOK'
BY TableTypes, RedisTypes, RequestTypes, ClientTypes DEF TypeOK

-----------------------------------------------------------------------------
(* The theorems *)

\* The invariant holds in every reachable state, for any number of peers and of
\* concurrent requests and for any lifetimes with EntryTTL <= IndexTTL.
THEOREM PresenceInvariant == Spec => []IInv
<1>1. IInv /\ [Next]_vars => IInv'
    BY TypeStep, IndexStep, DeletedStep, ListsStep, OfflineStep DEF IInv
<1> QED
    BY InitIInv, <1>1, PTL DEF Spec

\* A live announcement is on the index, unless a listing took it off in a race with
\* the announcement (ListPeers, coord_handler.go).
THEOREM PresenceIndex == Spec => []AnnouncementsIndexed
<1>1. IInv => AnnouncementsIndexed
    BY DEF IInv, TypeOK, IndexOutlives, AnnouncementsIndexed
<1> QED
    BY PresenceInvariant, <1>1, PTL

\* Offline (member_tunnel_handler.go) leaves no peer online by its own statement.
THEOREM PresenceOffline == Spec => []OfflineEndsOffline
<1>1. IInv => OfflineEndsOffline
    BY DEF IInv
<1> QED
    BY PresenceInvariant, <1>1, PTL

\* No listing returns a peer that was deleted before it began, whatever the cache
\* still holds.
THEOREM PresenceDeleted == Spec => []DeletedNotListed
<1>1. IInv => DeletedNotListed
    BY DEF IInv, ListsUndeleted, DeletedNotListed
<1> QED
    BY PresenceInvariant, <1>1, PTL
=============================================================================
