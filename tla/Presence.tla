------------------------------ MODULE Presence ------------------------------
(***************************************************************************)
(* Who is online and who can be found: the presence columns of the peers   *)
(* table (is_online, last_seen) and the coordination cache in Redis, for   *)
(* one active network (member_tunnel_handler.go, coord_handler.go, the     *)
(* heartbeat of peer_handler.go, the clean-up loop of cmd/server/main.go). *)
(*                                                                         *)
(* A handler is a chain of statements to two stores without a transaction; *)
(* each statement, and each MULTI/EXEC pipeline, is one action.  A server  *)
(* that crashes in a handler, or a client that goes away, leaves the       *)
(* stores as if the remaining statements had failed.                       *)
(*                                                                         *)
(* A peer is the id of a row: a row inserted after a deletion is another   *)
(* peer.  The endpoints a peer reports are data no property looks at: an   *)
(* announcement is the remaining life of its key, a listing the set of the *)
(* peers it has found.  All callers form keys with the network's UUID.     *)
(* Times are clock ticks; the age of last_seen saturates just past the     *)
(* expiry interval.                                                        *)
(***************************************************************************)
EXTENDS Naturals, FiniteSets

CONSTANTS
    Peers,          \* ids of rows
    Requests,       \* slots for concurrent requests
    StaleAfter,     \* the clean-up loop's 90 seconds
    EntryTTL,       \* lifetime of an announcement, 60 seconds
    IndexTTL,       \* lifetime of the index of announcements, 70 seconds
    NONE            \* no row, SQL NULL

ASSUME PresenceAssumption ==
    /\ {StaleAfter, EntryTTL, IndexTTL} \subseteq Nat \ {0}
    /\ EntryTTL <= IndexTTL
    /\ NONE \notin Peers \cup Nat

VARIABLES
    accessControl,  \* networks.access_control, fixed at creation
    row,      \* the peers table
    kind,     \* what an id was given to: a device that joined, an agent, nothing yet
    deleted,  \* ids of deleted rows
    entry,    \* life left to the keys coord:announce:{network}:{peer}, 0 for no key
    index,    \* the key coord:network:{network}:peers
    req,      \* the requests in progress
    running,  \* the clients that have a process running
    lost,     \* history: live announcements whose id a listing took off the index
    onlineBy  \* history: who last set is_online of a row

vars == <<accessControl, row, kind, deleted, entry, index, req, running, lost, onlineBy>>
redis == <<entry, index, lost>>
table == <<accessControl, row, kind, deleted, onlineBy>>

Expired == StaleAfter + 1
Row == [status : {"", "pending", "approved", "rejected"}, online : BOOLEAN,
        seen : (0 .. Expired) \cup {NONE}]
Announced(p) == entry[p] > 0
NoIndex == [ids |-> {}, ttl |-> 0]

Idle == [pc |-> "idle"]
Goto(r, request) == req' = [req EXCEPT ![r] = request]
Respond(r) == Goto(r, Idle)

Init ==
    /\ accessControl \in {"auto", "approve"}
    /\ row = [p \in Peers |-> NONE]
    /\ kind = [p \in Peers |-> NONE]
    /\ deleted = {}
    /\ entry = [p \in Peers |-> 0]
    /\ index = NoIndex
    /\ req = [r \in Requests |-> Idle]
    /\ running = [p \in Peers |-> FALSE]
    /\ lost = {}
    /\ onlineBy = [p \in Peers |-> "nobody"]

-----------------------------------------------------------------------------
(* Rows come and go: the presence side of registration and membership *)

\* PeerStore.RegisterPeer: an inserted row is online with last_seen NULL, an
\* existing one is seen now.
RegisteredRow(p, status) ==
    IF row[p] = NONE
    THEN [status |-> status, online |-> TRUE, seen |-> NONE]
    ELSE [row[p] EXCEPT !.online = TRUE, !.seen = 0]

\* PeerStore.RegisterPendingPeer.
PendingRow(p) ==
    IF row[p] = NONE
    THEN [status |-> "pending", online |-> FALSE, seen |-> NONE]
    ELSE [row[p] EXCEPT !.seen = 0]

\* A client stores the row of an id, not yet used or used by it before, and runs.
StoreRow(p, k, stored) ==
    /\ kind[p] \in {NONE, k}
    /\ p \notin deleted
    /\ kind' = [kind EXCEPT ![p] = k]
    /\ row' = [row EXCEPT ![p] = stored]
    /\ running' = [running EXCEPT ![p] = TRUE]
    /\ UNCHANGED <<accessControl, deleted, redis, req>>

\* An agent registers whenever it starts.
Register(p) ==
    /\ StoreRow(p, "agent", RegisteredRow(p, ""))
    /\ onlineBy' = [onlineBy EXCEPT ![p] = "client"]

\* A device joins; it is stored again only if the look-up of its key failed.
JoinAuto(p) ==
    /\ accessControl = "auto"
    /\ StoreRow(p, "device", RegisteredRow(p, "approved"))
    /\ onlineBy' = [onlineBy EXCEPT ![p] = "client"]

JoinPending(p) ==
    /\ accessControl = "approve"
    /\ StoreRow(p, "device", PendingRow(p))
    /\ UNCHANGED onlineBy

\* A device starts from its stored configuration: it has a member token.
DeviceStarts(p) ==
    /\ kind[p] = "device"
    /\ row[p] # NONE
    /\ running' = [running EXCEPT ![p] = TRUE]
    /\ UNCHANGED <<table, redis, req>>

\* A client crashes or stops: Agent.Stop tells the server nothing.
ClientStops(p) ==
    /\ running[p]
    /\ running' = [running EXCEPT ![p] = FALSE]
    /\ UNCHANGED <<table, redis, req>>

\* PeerStore.ApprovePeer, by id.  ApproveMember made sure earlier that the row was
\* not approved; it may be by now, while an agent's status '' never comes back.
ApprovePeer(p) ==
    /\ row[p] # NONE
    /\ row[p].status # ""
    /\ row' = [row EXCEPT ![p].status = "approved", ![p].online = FALSE]
    /\ UNCHANGED <<accessControl, kind, deleted, redis, req, running, onlineBy>>

RejectPeer(p) ==
    /\ row[p] # NONE
    /\ row' = [row EXCEPT ![p].status = "rejected"]
    /\ UNCHANGED <<accessControl, kind, deleted, redis, req, running, onlineBy>>

\* DeletePeer and DeletePeerByMachineID: the cache is left alone.
DeletePeer(p) ==
    /\ row[p] # NONE
    /\ row' = [row EXCEPT ![p] = NONE]
    /\ deleted' = deleted \cup {p}
    /\ UNCHANGED <<accessControl, kind, redis, req, running, onlineBy>>

-----------------------------------------------------------------------------
(* Heartbeat *)

\* Both heartbeat handlers first find the row; its status is not examined.
Heartbeat(r, p) ==
    /\ req[r] = Idle
    /\ running[p]
    /\ row[p] # NONE
    /\ Goto(r, [pc |-> "heartbeat", peer |-> p])
    /\ UNCHANGED <<table, redis, running>>

\* PeerStore.UpdatePeerStatus: an UPDATE by id, of no row if it was deleted.
UpdatePeerStatus(p, who) ==
    IF row[p] = NONE THEN UNCHANGED <<row, onlineBy>>
    ELSE /\ row' = [row EXCEPT ![p].online = TRUE, ![p].seen = 0]
         /\ onlineBy' = [onlineBy EXCEPT ![p] = who]

HeartbeatStore(r) ==
    /\ req[r].pc = "heartbeat"
    /\ UpdatePeerStatus(req[r].peer, "client")
    /\ Respond(r)
    /\ UNCHANGED <<accessControl, kind, deleted, redis, running>>

-----------------------------------------------------------------------------
(* Announce *)

\* A member is authenticated by its row; an agent's announcement is taken as it
\* is.  (Without an endpoint neither handler does anything.)
Announce(r, p) ==
    /\ req[r] = Idle
    /\ running[p]
    /\ kind[p] = "device" => row[p] # NONE
    /\ Goto(r, [pc |-> "announce", peer |-> p])
    /\ UNCHANGED <<table, redis, running>>

\* Mutant: EXPIRE only gives the index a lifetime when it has none.
Indexed_KeepsTTL(p) ==
    [ids |-> index.ids \cup {p}, ttl |-> IF index.ttl = 0 THEN IndexTTL ELSE index.ttl]

\* SADD and EXPIRE of the index.
Indexed(p) == [ids |-> index.ids \cup {p}, ttl |-> IndexTTL]

AnnounceStore(r) ==
    LET p == req[r].peer
    IN  /\ req[r].pc = "announce"
        /\ entry' = [entry EXCEPT ![p] = EntryTTL]
        /\ index' = Indexed(p)
        /\ lost' = lost \ {p}
        /\ Respond(r)
        /\ UNCHANGED <<table, running>>

\* An id leaves the index; Redis drops a set without members.
Unindexed(p) ==
    IF index.ids \subseteq {p} THEN NoIndex ELSE [index EXCEPT !.ids = @ \ {p}]

-----------------------------------------------------------------------------
(* Offline: UpdatePeerStatus, MarkPeerOffline and the cache, errors ignored *)

Offline(r, p) ==
    /\ req[r] = Idle
    /\ running[p]
    /\ kind[p] = "device"
    /\ row[p] # NONE
    /\ Goto(r, [pc |-> "offline_update", peer |-> p])
    /\ UNCHANGED <<table, redis, running>>

OfflineUpdate(r) ==
    /\ req[r].pc = "offline_update"
    /\ \/ UpdatePeerStatus(req[r].peer, "offline")
       \/ UNCHANGED <<row, onlineBy>>
    /\ Goto(r, [req[r] EXCEPT !.pc = "offline_mark"])
    /\ UNCHANGED <<accessControl, kind, deleted, redis, running>>

\* Mutant: UpdatePeerStatus is taken to be enough.
MarkPeerOffline_Omitted(p) == UNCHANGED row

MarkPeerOffline(p) ==
    IF row[p] = NONE THEN UNCHANGED row ELSE row' = [row EXCEPT ![p].online = FALSE]

OfflineMark(r) ==
    LET p == req[r].peer
    IN  /\ req[r].pc = "offline_mark"
        /\ \/ MarkPeerOffline(p) /\ UNCHANGED onlineBy
           \/ UNCHANGED row /\ onlineBy' = [onlineBy EXCEPT ![p] = "failure"]
        /\ Goto(r, [req[r] EXCEPT !.pc = "offline_redis"])
        /\ UNCHANGED <<accessControl, kind, deleted, redis, running>>

\* DEL of the entry and SREM from the index in one transaction.
OfflineRedis(r) ==
    LET p == req[r].peer
    IN  /\ req[r].pc = "offline_redis"
        /\ \/ /\ entry' = [entry EXCEPT ![p] = 0]
              /\ index' = Unindexed(p)
              /\ lost' = lost \ {p}
           \/ UNCHANGED redis
        /\ Respond(r)
        /\ UNCHANGED <<table, running>>

-----------------------------------------------------------------------------
(* Listings: members ask Peers, agents ask ListPeers *)

Visible == {p \in Peers : row[p] # NONE /\ row[p].online /\ row[p].status = "approved"}

\* A listing in progress: its handler ("Peers" or "ListPeers"), the answer so far,
\* the ids still to be asked for and the one found missing; barred is history:
\* what was deleted before it began.
Listing(handler) ==
    [pc |-> "list", handler |-> handler, found |-> {}, todo |-> {}, missing |-> NONE,
     barred |-> deleted]

List(r, handler) ==
    /\ req[r] = Idle
    /\ Goto(r, Listing(handler))
    /\ UNCHANGED <<table, redis, running>>

\* GetOnlinePeers.
ListRows(r) ==
    /\ req[r].pc = "list"
    /\ Goto(r, [req[r] EXCEPT !.pc = "index", !.found = Visible])
    /\ UNCHANGED <<table, redis, running>>

\* SMEMBERS of the index.
ListIndex(r) ==
    /\ req[r].pc = "index"
    /\ Goto(r, [req[r] EXCEPT !.pc = "get", !.todo = index.ids])
    /\ UNCHANGED <<table, redis, running>>

\* Mutant: an announcement adds its peer to the answer.
Merged_Adds(found, p) == found \cup {p}

\* An announcement replaces the endpoints of a peer already found, and is passed
\* over if its peer is not.
Merged(found, p) == found

\* GET of one announcement; an error, and in Peers a missing key, passes it over.
ListGet(r, p) ==
    /\ req[r].pc = "get"
    /\ p \in req[r].todo
    /\ \/ /\ Announced(p)
          /\ Goto(r, [req[r] EXCEPT !.todo = @ \ {p}, !.found = Merged(@, p)])
       \/ /\ ~Announced(p) /\ req[r].handler = "ListPeers"
          /\ Goto(r, [req[r] EXCEPT !.todo = @ \ {p}, !.pc = "srem", !.missing = p])
       \/ Goto(r, [req[r] EXCEPT !.todo = @ \ {p}])
    /\ UNCHANGED <<table, redis, running>>

\* SREM of an id whose announcement was missing when it was asked for.
ListRemove(r) ==
    LET p == req[r].missing
    IN  /\ req[r].pc = "srem"
        /\ \/ /\ index' = Unindexed(p)
              /\ lost' = IF Announced(p) THEN lost \cup {p} ELSE lost
           \/ UNCHANGED <<index, lost>>
        /\ Goto(r, [req[r] EXCEPT !.pc = "get", !.missing = NONE])
        /\ UNCHANGED <<table, entry, running>>

ListResponds(r) ==
    /\ req[r].pc = "get"
    /\ req[r].todo = {}
    /\ Respond(r)
    /\ UNCHANGED <<table, redis, running>>

\* A statement fails and the handler answers without effect.
StatementFails(r) ==
    /\ req[r].pc \in {"heartbeat", "announce", "list", "index"}
    /\ Respond(r)
    /\ UNCHANGED <<table, redis, running>>

-----------------------------------------------------------------------------
(* Time *)

\* Mutant: the comparison with the interval is the wrong way round.
Stale_Recent(p) == row[p] # NONE /\ row[p].online /\ row[p].seen \in 0 .. StaleAfter

\* The rows the clean-up statement selects: NULL is not less than any time.
Stale(p) == row[p] # NONE /\ row[p].online /\ row[p].seen = Expired

CleanUp ==
    /\ row' = [p \in Peers |-> IF Stale(p) THEN [row[p] EXCEPT !.online = FALSE] ELSE row[p]]
    /\ UNCHANGED <<accessControl, kind, deleted, redis, req, running, onlineBy>>

Older(seen) == IF seen \in 0 .. StaleAfter THEN seen + 1 ELSE seen

Tick ==
    /\ row' = [p \in Peers |->
         IF row[p] = NONE THEN NONE ELSE [row[p] EXCEPT !.seen = Older(@)]]
    /\ entry' = [p \in Peers |-> IF Announced(p) THEN entry[p] - 1 ELSE 0]
    /\ index' = IF index.ttl <= 1 THEN NoIndex ELSE [index EXCEPT !.ttl = @ - 1]
    /\ lost' = {p \in lost : entry[p] > 1}
    /\ UNCHANGED <<accessControl, kind, deleted, req, running, onlineBy>>

-----------------------------------------------------------------------------
Begin(r) ==
    \/ \E p \in Peers : Heartbeat(r, p) \/ Announce(r, p) \/ Offline(r, p)
    \/ List(r, "Peers")
    \/ List(r, "ListPeers")

Continue(r) ==
    \/ HeartbeatStore(r) \/ AnnounceStore(r)
    \/ OfflineUpdate(r) \/ OfflineMark(r) \/ OfflineRedis(r)
    \/ ListRows(r) \/ ListIndex(r) \/ ListRemove(r) \/ ListResponds(r)
    \/ \E p \in Peers : ListGet(r, p)

Next ==
    \/ \E r \in Requests : Begin(r) \/ Continue(r) \/ StatementFails(r)
    \/ \E p \in Peers :
         \/ Register(p) \/ JoinAuto(p) \/ JoinPending(p)
         \/ DeviceStarts(p) \/ ClientStops(p)
         \/ ApprovePeer(p) \/ RejectPeer(p) \/ DeletePeer(p)
    \/ CleanUp
    \/ Tick

Spec == Init /\ [][Next]_vars

\* Time passes, the ticker of the clean-up loop fires and its statement succeeds
\* now and then, and a handler in progress goes on.  No client has to do anything.
Fairness ==
    /\ WF_vars(Tick)
    /\ WF_vars(CleanUp)
    /\ \A r \in Requests : WF_vars(Continue(r))

FairSpec == Spec /\ Fairness

-----------------------------------------------------------------------------
(* Properties *)

Reporting == [pc : {"heartbeat", "announce", "offline_update", "offline_mark",
                    "offline_redis"}, peer : Peers]
Listings == [pc : {"list", "index", "get", "srem"}, handler : {"Peers", "ListPeers"},
             found : SUBSET Peers, todo : SUBSET Peers, missing : Peers \cup {NONE},
             barred : SUBSET Peers]

TypeOK ==
    /\ accessControl \in {"auto", "approve"}
    /\ row \in [Peers -> Row \cup {NONE}]
    /\ kind \in [Peers -> {NONE, "device", "agent"}]
    /\ deleted \subseteq Peers
    /\ entry \in [Peers -> 0 .. EntryTTL]
    /\ index \in [ids : SUBSET Peers, ttl : 0 .. IndexTTL]
    /\ req \in [Requests -> {Idle} \cup Reporting \cup Listings]
    /\ \A r \in Requests : req[r].pc = "srem" => req[r].missing # NONE
    /\ running \in [Peers -> BOOLEAN]
    /\ lost \subseteq Peers
    /\ onlineBy \in [Peers -> {"nobody", "client", "offline", "failure"}]

\* A live announcement can be found through the index: the index outlives every
\* entry it leads to, whoever announced last.  Only ListPeers takes an id off it
\* whose announcement came back between its GET and its SREM.
AnnouncementsIndexed ==
    \A p \in Peers : Announced(p) => p \in index.ids \cup lost

\* Offline, whose first statement marks the peer online, does not leave it so: no
\* peer is online by that statement once its handler is done, unless the second
\* statement failed.
OfflineEndsOffline ==
    \A p \in Peers :
        (row[p] # NONE /\ row[p].online /\ onlineBy[p] = "offline")
            => \E r \in Requests : req[r].pc = "offline_mark" /\ req[r].peer = p

\* A peer deleted before a listing began is not in its answer, although its
\* announcement outlives it in the cache and may even arrive after the deletion.
DeletedNotListed ==
    \A r \in Requests :
        req[r].pc \in {"index", "get", "srem"} => req[r].found \cap req[r].barred = {}

\* A peer that was seen once and whose client fell silent is marked offline in the
\* end (the clean-up loop of cmd/server/main.go).
SilentExpires ==
    \A p \in Peers :
        (row[p] # NONE /\ row[p].seen # NONE /\ ~running[p])
            ~> (row[p] = NONE \/ ~row[p].online \/ running[p])

-----------------------------------------------------------------------------
(* What the repository says of the server and its code does not do *)

\* "Auto-expire peers that haven't sent a heartbeat in 90 seconds": a peer whose
\* client does not run is marked offline in the end.
AutoExpires ==
    \A p \in Peers :
        (row[p] # NONE /\ ~running[p]) ~> (row[p] = NONE \/ ~row[p].online \/ running[p])
=============================================================================
