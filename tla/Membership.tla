----------------------------- MODULE Membership -----------------------------
(***************************************************************************)
(* Admission and addressing in the control plane: the peers table and the  *)
(* HTTP handlers that write its network_id, status and virtual_ip columns  *)
(* (join_handler.go, member_handler.go, peer_handler.go and the statements *)
(* in queries/peers.go).                                                   *)
(*                                                                         *)
(* Handlers run concurrently, one per request slot.  A handler is a chain  *)
(* of SQL statements without a transaction around them; each statement is  *)
(* one action, and what an earlier one read is carried in the request.     *)
(* Adjacent reads of a handler's preamble are one action.  Only            *)
(* PeerHandler.RegisterPeer takes a lock, one per network.                 *)
(*                                                                         *)
(* A device joins with a WireGuard key, which determines its machine_id    *)
(* ("join_" and a prefix of the key); an agent registers with its owner's  *)
(* API key under a machine_id of its own.  A row's id and member_token are *)
(* made together and never change: one number stands for both.  All        *)
(* networks have the default CIDR, so one pool of host numbers serves all. *)
(* Presence (is_online, last_seen, endpoints) is not part of this module.  *)
(***************************************************************************)
EXTENDS Naturals, FiniteSets

CONSTANTS
    Networks,      \* networks created
    AutoNetworks,  \* those with access_control "auto"; it is fixed at creation
    Devices,       \* devices that use the join endpoint
    Agents,        \* machines registered with an API key
    Requests,      \* slots for concurrent requests
    PoolSize,      \* assignable addresses of a network
    MaxRows,       \* bound on the rows ever inserted
    NONE           \* no row, no holder

NoIP == 0                \* the placeholder 0.0.0.0, and AllocateIP's ""
maxRegisterAttempts == 3
Machines == Devices \cup Agents
Ids == Nat \ {0}
VirtualIPs == 0 .. PoolSize

ASSUME MembershipAssumption ==
    /\ AutoNetworks \subseteq Networks
    /\ Devices \cap Agents = {}
    /\ PoolSize \in Nat \ {0}
    /\ MaxRows \in Nat
    /\ NONE \notin Machines \cup Networks \cup Requests

VARIABLES
    peers,     \* the peers table, by its unique column machine_id
    nextId,    \* the id the next inserted row gets
    active,    \* networks.is_active
    req,       \* the requests in progress
    lock,      \* registerPeerLocks: who holds a network's mutex
    approvals  \* history: (network, id) pairs the owner of a manual network has asked
               \* to approve

vars == <<peers, nextId, active, req, lock, approvals>>

\* The value '' of the status column is written for agents (RegisterPeer leaves
\* Status empty) and read back as approved (scanPeer).
Row == [id : Ids, network : Networks, vip : VirtualIPs,
        status : {"", "pending", "approved", "rejected"}]
Scanned(status) == IF status = "" THEN "approved" ELSE status

\* What a handler has read so far and still uses; fields it does not use are
\* NONE, 0, NoIP or 1.
Idle == [pc |-> "idle"]
Request(pc, n, m, id, vip, attempt) ==
    [pc |-> pc, network |-> n, machine |-> m, id |-> id, vip |-> vip, attempt |-> attempt]
Busy == {r \in Requests : req[r] # Idle}

Members(n) == {m \in Machines : peers[m] # NONE /\ peers[m].network = n}
MachineOf(id) == {m \in Machines : peers[m] # NONE /\ peers[m].id = id}

Init ==
    /\ peers = [m \in Machines |-> NONE]
    /\ nextId = 1
    /\ active = [n \in Networks |-> TRUE]
    /\ req = [r \in Requests |-> Idle]
    /\ lock = [n \in Networks |-> NONE]
    /\ approvals = {}

-----------------------------------------------------------------------------
(* Statements and helpers *)

\* ListNetworkPeers sees no rows of a deleted network.
ListNetworkPeers(n) == IF active[n] THEN Members(n) ELSE {}

UsedIPs(n) == {peers[m].vip : m \in ListNetworkPeers(n)} \ {NoIP}

\* The first free address of the network, NoIP when there is none.
AllocateIP(used) ==
    LET free == (1 .. PoolSize) \ used
    IN  IF free = {} THEN NoIP ELSE CHOOSE v \in free : \A w \in free : v <= w

\* Mutant: no unique index on (network_id, virtual_ip).
VirtualIPConflict_NoIndex(m, n, v) == FALSE

\* The partial unique index of migration 008 on (network_id, virtual_ip).
VirtualIPConflict(m, n, v) ==
    v # NoIP /\ \E other \in Members(n) \ {m} : peers[other].vip = v

\* Mutant: an exhausted pool is not noticed.
Allocated_Unchecked(v) == TRUE

\* The handlers' check of AllocateIP's error.
Allocated(v) == v # NoIP

\* Mutant: the upsert also takes the new status.
RegisteredRow_TakesStatus(m, n, v, status) ==
    IF peers[m] = NONE
    THEN [id |-> nextId, network |-> n, vip |-> v, status |-> status]
    ELSE [peers[m] EXCEPT !.network = n, !.vip = v, !.status = status]

\* The row after PeerStore.RegisterPeer: inserted, or updated on a machine_id
\* conflict, which keeps id and status.
RegisteredRow(m, n, v, status) ==
    IF peers[m] = NONE
    THEN [id |-> nextId, network |-> n, vip |-> v, status |-> status]
    ELSE [peers[m] EXCEPT !.network = n, !.vip = v]

\* Mutant: the upsert of a pending join moves the row to the new network.
PendingRow_MovesNetwork(m, n) ==
    IF peers[m] = NONE
    THEN [id |-> nextId, network |-> n, vip |-> NoIP, status |-> "pending"]
    ELSE [peers[m] EXCEPT !.network = n]

\* The row after PeerStore.RegisterPendingPeer: an existing one keeps its
\* network, status and address.
PendingRow(m, n) ==
    IF peers[m] = NONE
    THEN [id |-> nextId, network |-> n, vip |-> NoIP, status |-> "pending"]
    ELSE peers[m]

StoreRow(m, row) ==
    /\ peers' = [peers EXCEPT ![m] = row]
    /\ nextId' = IF peers[m] = NONE THEN nextId + 1 ELSE nextId

Goto(r, request) == req' = [req EXCEPT ![r] = request]
Respond(r) == Goto(r, Idle)

\* Bound: no more requests that may insert than rows that may still be inserted.
RowsLeft == nextId + Cardinality(Busy) <= MaxRows

-----------------------------------------------------------------------------
(* POST /join *)

\* Join up to the choice of the access mode.  A device whose key the network
\* already has normally gets its status back and nothing changes; but when that
\* lookup fails with an error, Join goes on as for a new key, so membership is no
\* guard here.
Join(r, d, n) ==
    /\ req[r] = Idle
    /\ RowsLeft
    /\ active[n]
    /\ Goto(r, Request(IF n \in AutoNetworks THEN "join_list" ELSE "join_pending",
                       n, d, 0, NoIP, 1))
    /\ UNCHANGED <<peers, nextId, active, lock, approvals>>

\* Auto-approval: list the network's peers, choose an address or give up.
JoinList(r) ==
    LET v == AllocateIP(UsedIPs(req[r].network))
    IN  /\ req[r].pc = "join_list"
        /\ IF Allocated(v)
           THEN Goto(r, [req[r] EXCEPT !.pc = "join_store", !.vip = v])
           ELSE Respond(r)
        /\ UNCHANGED <<peers, nextId, active, lock, approvals>>

\* RegisterPeer with status approved; a conflict is an error without retry.
JoinStore(r) ==
    LET q == req[r]
    IN  /\ q.pc = "join_store"
        /\ IF VirtualIPConflict(q.machine, q.network, q.vip)
           THEN UNCHANGED <<peers, nextId>>
           ELSE StoreRow(q.machine, RegisteredRow(q.machine, q.network, q.vip, "approved"))
        /\ Respond(r)
        /\ UNCHANGED <<active, lock, approvals>>

\* Manual approval: RegisterPendingPeer.
JoinPending(r) ==
    LET q == req[r]
    IN  /\ q.pc = "join_pending"
        /\ StoreRow(q.machine, PendingRow(q.machine, q.network))
        /\ Respond(r)
        /\ UNCHANGED <<active, lock, approvals>>

-----------------------------------------------------------------------------
(* The owner's dashboard: approve, reject, kick *)

\* ApproveMember reads the network and the member and checks that one belongs to
\* the other; a member already approved is returned as it is.
Approve(r, n, m) ==
    /\ req[r] = Idle
    /\ active[n]
    /\ m \in Members(n)
    /\ Scanned(peers[m].status) # "approved"
    /\ Goto(r, Request("approve_list", n, NONE, peers[m].id, NoIP, 1))
    /\ approvals' = IF n \in AutoNetworks THEN approvals
                    ELSE approvals \cup {<<n, peers[m].id>>}
    /\ UNCHANGED <<peers, nextId, active, lock>>

\* RejectMember reads the network only: the member may be of another one.
Reject(r, n, m) ==
    /\ req[r] = Idle
    /\ active[n]
    /\ peers[m] # NONE
    /\ Goto(r, Request("reject", NONE, NONE, peers[m].id, NoIP, 1))
    /\ UNCHANGED <<peers, nextId, active, lock, approvals>>

\* KickMember checks as ApproveMember does, the status excepted.
Kick(r, n, m) ==
    /\ req[r] = Idle
    /\ active[n]
    /\ m \in Members(n)
    /\ Goto(r, Request("kick", NONE, NONE, peers[m].id, NoIP, 1))
    /\ UNCHANGED <<peers, nextId, active, lock, approvals>>

\* ApproveMember: list the network's peers, choose an address or give up.
ApproveList(r) ==
    LET v == AllocateIP(UsedIPs(req[r].network))
    IN  /\ req[r].pc = "approve_list"
        /\ IF Allocated(v)
           THEN Goto(r, [req[r] EXCEPT !.pc = "approve_store", !.vip = v])
           ELSE Respond(r)
        /\ UNCHANGED <<peers, nextId, active, lock, approvals>>

\* PeerStore.ApprovePeer: by id alone, whatever the row's status and network are
\* by now; nothing if the row is gone or its address would conflict.
ApproveStore(r) ==
    LET v == req[r].vip
        hit == {m \in MachineOf(req[r].id) : ~VirtualIPConflict(m, peers[m].network, v)}
    IN  /\ req[r].pc = "approve_store"
        /\ peers' = [m \in Machines |->
             IF m \in hit THEN [peers[m] EXCEPT !.status = "approved", !.vip = v]
             ELSE peers[m]]
        /\ Respond(r)
        /\ UNCHANGED <<nextId, active, lock, approvals>>

\* PeerStore.RejectPeer: by id alone.
RejectStore(r) ==
    /\ req[r].pc = "reject"
    /\ peers' = [m \in Machines |->
         IF m \in MachineOf(req[r].id) THEN [peers[m] EXCEPT !.status = "rejected"]
         ELSE peers[m]]
    /\ Respond(r)
    /\ UNCHANGED <<nextId, active, lock, approvals>>

\* PeerStore.DeletePeer: by id alone.
KickStore(r) ==
    /\ req[r].pc = "kick"
    /\ peers' = [m \in Machines |-> IF m \in MachineOf(req[r].id) THEN NONE ELSE peers[m]]
    /\ Respond(r)
    /\ UNCHANGED <<nextId, active, lock, approvals>>

-----------------------------------------------------------------------------
(* The agent's API: register and unregister *)

\* PeerHandler.RegisterPeer up to the mutex of the network.
Register(r, a, n) ==
    /\ req[r] = Idle
    /\ RowsLeft
    /\ active[n]
    /\ Goto(r, Request("register_lock", n, a, 0, NoIP, 1))
    /\ UNCHANGED <<peers, nextId, active, lock, approvals>>

RegisterLock(r) ==
    LET n == req[r].network
    IN  /\ req[r].pc = "register_lock"
        /\ lock[n] = NONE
        /\ lock' = [lock EXCEPT ![n] = r]
        /\ Goto(r, [req[r] EXCEPT !.pc = "register_list"])
        /\ UNCHANGED <<peers, nextId, active, approvals>>

Unlock(r) == lock' = [lock EXCEPT ![req[r].network] = NONE]

\* Mutant: a machine that registers again gets a new address.
AssignedIP_NotSticky(m, n) == AllocateIP(UsedIPs(n))

\* The machine's address in this network, unless another row has it, else a
\* free one.
AssignedIP(m, n) ==
    LET listed == ListNetworkPeers(n)
        mine == IF m \in listed THEN peers[m].vip ELSE NoIP
    IN  IF mine # NoIP /\ ~\E other \in listed \ {m} : peers[other].vip = mine
        THEN mine ELSE AllocateIP(UsedIPs(n))

RegisterList(r) ==
    LET v == AssignedIP(req[r].machine, req[r].network)
    IN  /\ req[r].pc = "register_list"
        /\ IF Allocated(v)
           THEN /\ Goto(r, [req[r] EXCEPT !.pc = "register_store", !.vip = v])
                /\ UNCHANGED lock
           ELSE Respond(r) /\ Unlock(r)
        /\ UNCHANGED <<peers, nextId, active, approvals>>

\* Mutant: the error return after the last conflict keeps the mutex.
RegisterConflict_KeepsLock(r) ==
    IF req[r].attempt < maxRegisterAttempts
    THEN /\ Goto(r, [req[r] EXCEPT !.pc = "register_list", !.attempt = @ + 1])
         /\ UNCHANGED lock
    ELSE Respond(r) /\ UNCHANGED lock

\* A virtual IP conflict: list and allocate again, at most three times in all.
RegisterConflict(r) ==
    IF req[r].attempt < maxRegisterAttempts
    THEN /\ Goto(r, [req[r] EXCEPT !.pc = "register_list", !.attempt = @ + 1])
         /\ UNCHANGED lock
    ELSE Respond(r) /\ Unlock(r)

RegisterStore(r) ==
    LET q == req[r]
    IN  /\ q.pc = "register_store"
        /\ IF VirtualIPConflict(q.machine, q.network, q.vip)
           THEN RegisterConflict(r) /\ UNCHANGED <<peers, nextId>>
           ELSE /\ StoreRow(q.machine, RegisteredRow(q.machine, q.network, q.vip, ""))
                /\ Respond(r)
                /\ Unlock(r)
        /\ UNCHANGED <<active, approvals>>

\* A statement of a handler fails: a database error, or the client went away and
\* the request's context is cancelled.  The handler answers with an error and its
\* deferred unlock runs.
StatementFails(r) ==
    /\ req[r] # Idle /\ req[r].pc # "register_lock"
    /\ Respond(r)
    /\ lock' = [n \in Networks |-> IF lock[n] = r THEN NONE ELSE lock[n]]
    /\ UNCHANGED <<peers, nextId, active, approvals>>

\* UnregisterPeer: DeletePeerByMachineID in an active network.
Unregister(a, n) ==
    /\ active[n]
    /\ a \in Members(n)
    /\ peers' = [peers EXCEPT ![a] = NONE]
    /\ UNCHANGED <<nextId, active, req, lock, approvals>>

\* DeleteNetwork: the network's rows stay.
DeleteNetwork(n) ==
    /\ active[n]
    /\ active' = [active EXCEPT ![n] = FALSE]
    /\ UNCHANGED <<peers, nextId, req, lock, approvals>>

-----------------------------------------------------------------------------
Begin(r) ==
    \/ \E d \in Devices, n \in Networks : Join(r, d, n)
    \/ \E a \in Agents, n \in Networks : Register(r, a, n)
    \/ \E n \in Networks, m \in Machines :
         Approve(r, n, m) \/ Reject(r, n, m) \/ Kick(r, n, m)

Continue(r) ==
    \/ JoinList(r) \/ JoinStore(r) \/ JoinPending(r)
    \/ ApproveList(r) \/ ApproveStore(r) \/ RejectStore(r) \/ KickStore(r)
    \/ RegisterList(r) \/ RegisterStore(r)

Next ==
    \/ \E r \in Requests : Begin(r) \/ Continue(r) \/ RegisterLock(r) \/ StatementFails(r)
    \/ \E a \in Agents, n \in Networks : Unregister(a, n)
    \/ \E n \in Networks : DeleteNetwork(n)

Spec == Init /\ [][Next]_vars

\* A handler in progress goes on, and a goroutine waiting for a mutex that is
\* released again and again gets it (sync.Mutex does not starve a waiter).
Fairness ==
    \A r \in Requests : WF_vars(Continue(r)) /\ SF_vars(RegisterLock(r))

FairSpec == Spec /\ Fairness

-----------------------------------------------------------------------------
(* Properties *)

Pc == {"join_list", "join_store", "join_pending", "approve_list", "approve_store",
       "reject", "kick", "register_lock", "register_list", "register_store"}

Pending == [pc : Pc, network : Networks \cup {NONE}, machine : Machines \cup {NONE},
            id : Nat, vip : VirtualIPs, attempt : 1 .. maxRegisterAttempts]

TypeOK ==
    /\ peers \in [Machines -> Row \cup {NONE}]
    /\ nextId \in Ids
    /\ active \in [Networks -> BOOLEAN]
    /\ req \in [Requests -> {Idle} \cup Pending]
    /\ lock \in [Networks -> Requests \cup {NONE}]
    /\ approvals \subseteq Networks \X Ids

\* No two members of a network have the same virtual IP, however joins,
\* approvals and registrations interleave.
VirtualIPsUnique ==
    \A n \in Networks : \A m1, m2 \in Members(n) :
        (m1 # m2 /\ peers[m1].vip = peers[m2].vip) => peers[m1].vip = NoIP

\* Whoever the server takes for approved has a virtual IP to configure, also
\* when the pool was exhausted or the row moved between networks on the way.
ApprovedHasAddress ==
    \A m \in Machines :
        (peers[m] # NONE /\ Scanned(peers[m].status) = "approved") => peers[m].vip # NoIP

\* A device is approved in a network with manual approval only if that network's
\* owner asked to approve that very row: not by joining an automatic network with
\* the same key, nor by a late approval of a row since moved or replaced.
NoAdmissionWithoutOwner ==
    \A d \in Devices :
        (/\ peers[d] # NONE
         /\ peers[d].status = "approved"
         /\ peers[d].network \notin AutoNetworks)
        => <<peers[d].network, peers[d].id>> \in approvals

\* A rejected row stays rejected until an approval of that row is carried out:
\* joining or registering again does not lift it.
RejectionSticks ==
    [][\A m \in Machines :
         (/\ peers[m] # NONE /\ peers'[m] # NONE
          /\ peers[m].id = peers'[m].id
          /\ peers[m].status = "rejected" /\ peers'[m].status # "rejected")
         => \E r \in Requests : req[r].pc = "approve_store" /\ req[r].id = peers[m].id]_vars

\* An agent keeps its address as long as its row stays in the network, the
\* network exists and the owner has not rejected it, however often it registers.
AgentAddressSticks ==
    [][\A a \in Agents :
         (/\ peers[a] # NONE /\ peers'[a] # NONE
          /\ peers[a].id = peers'[a].id /\ peers[a].network = peers'[a].network
          /\ peers[a].status = "" /\ active[peers[a].network])
         => peers'[a].vip = peers[a].vip]_vars

\* Every request ends: conflicts are retried a bounded number of times and the
\* mutex of the network is given back on every path.
RequestsEnd == \A r \in Requests : (req[r] # Idle) ~> (req[r] = Idle)

-----------------------------------------------------------------------------
(* What the repository says of the server and its code does not do *)
=============================================================================
