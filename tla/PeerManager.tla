---------------------------- MODULE PeerManager ----------------------------
(***************************************************************************)
(* PeerManager of client/internal/peer/manager.go: the sync goroutine that *)
(* brings the tunnel in line with the server's list, and the agent's       *)
(* quality loop that moves connections to the relay or back, concurrently. *)
(* Both change an endpoint in two steps, first in the tunnel, then in      *)
(* m.peers, each under its own mutex.  The last part is Agent.Stop as far  *)
(* as it concerns the manager and the tunnel.                              *)
(*                                                                         *)
(* An endpoint is its host; what the code asks about a host are the sets   *)
(* below.  The server's list is external: it changes at any time.          *)
(***************************************************************************)
EXTENDS Tunnel, Naturals, Sequences

CONSTANTS
    Ids,          \* ids of the other peers
    Infos,        \* what the server may list: [id, key, vip, public, lan]
    Routable,     \* hosts normalizePublicEndpoint lets through
    OnLAN,        \* hosts preferLANEndpoint finds on a local interface
    Internal,     \* hosts isInternalHostName knows
    OwnHost,      \* the host of localPublicEndpoint, or NONE
    PublicHost,   \* apiClient.PublicHost()
    RelayHosts,   \* hosts the server may assign as relay
    LanFallback,  \* lanFallbackEnabled()
    MaxChanges,   \* bound: changes of the server's list
    MaxFaults     \* bound: failed requests and commands

Hosts == RelayHosts \cup {PublicHost, NONE}
           \cup {i.public : i \in Infos} \cup {i.lan : i \in Infos}
Addresses == {i.vip : i \in Infos}
Vias == {"p2p", "lan", "relay"}

\* An entry of m.peers, and one of the tunnel or of the kernel.
Conn == [key : Keys, vip : Addresses, endpoint : Hosts, via : Vias]
Entry == [endpoint : Hosts, ip : Addresses \cup {NONE}]

ASSUME PeerManagerAssumption ==
    /\ \A i \in Infos : i.id \in Ids /\ i.key \in Keys
    /\ \A i, j \in Infos : i.key = j.key => i.id = j.id   \* a peer generates its own keys
    /\ NONE \notin Internal \cup Conn \cup Entry
    /\ LanFallback \in BOOLEAN
    /\ MaxChanges \in Nat /\ MaxFaults \in Nat

VARIABLES
    list,      \* the server's list
    conns,     \* m.peers: id -> [key, vip, endpoint, via] or NONE
    sync,      \* the sync goroutine: where it is in syncPeersOnce
    quality,   \* the quality loop: where it is in ForceRelay or AttemptDirect
    reader,    \* whether the UDP reader of packet forwarding runs
    phase,     \* of the agent: running, leaving, cancelled, closing, stopped
    changes, faults,
    torn,      \* history: ids whose two-step update failed half way, was overlapped, or
               \* went to the tunnel's peer of an earlier connection
    dropped,   \* history: keys whose AddPeer or RemovePeer failed half way
    moved      \* history: connected ids that a fetched list had under another address

mvars == <<list, conns, sync, quality, reader, phase, changes, faults, torn, dropped, moved>>
vars == <<mvars, tunnelVars>>

-----------------------------------------------------------------------------
(* Choosing an endpoint *)

normalizePublicEndpoint(host) == IF host \in Routable THEN host ELSE NONE
preferLANEndpoint(host) == IF host \in OnLAN THEN host ELSE NONE

\* An internal name gives way to the server's public host.
sanitizeEndpoint(host) ==
    IF host \notin Internal THEN host
    ELSE IF PublicHost \notin Internal THEN PublicHost ELSE NONE

samePublicNAT(host) == OwnHost # NONE /\ host = OwnHost

\* Mutant: a peer behind our own NAT is dialled at our own public address.
selectDirectOrLANEndpoint_Hairpin(i) ==
    [endpoint |-> normalizePublicEndpoint(i.public), via |-> "p2p"]

selectDirectOrLANEndpoint(i) ==
    LET direct == sanitizeEndpoint(normalizePublicEndpoint(i.public))
        lan == sanitizeEndpoint(preferLANEndpoint(i.lan))
    IN  IF samePublicNAT(i.public) THEN [endpoint |-> lan, via |-> "lan"]
        ELSE IF direct # NONE THEN [endpoint |-> direct, via |-> "p2p"]
        ELSE IF LanFallback THEN [endpoint |-> lan, via |-> "lan"]
        ELSE [endpoint |-> NONE, via |-> "lan"]

\* resolveRelayEndpoint: the assigned host, an internal one replaced; NONE for an error.
resolveRelayEndpoint(host) == IF host = NONE THEN NONE ELSE sanitizeEndpoint(host)

\* The endpoint syncPeersOnce and connectToPeer choose, given the relay's answer.
Chosen(i, relay) ==
    LET c == selectDirectOrLANEndpoint(i)
    IN  IF c.endpoint # NONE THEN c
        ELSE [endpoint |-> resolveRelayEndpoint(relay), via |-> "relay"]

\* preferIPv4, which AttemptDirect uses.
preferIPv4(i) ==
    LET direct == normalizePublicEndpoint(i.public)
    IN  IF direct # NONE \/ ~LanFallback THEN direct ELSE preferLANEndpoint(i.lan)

\* addPeerWithFallback: the chosen endpoint, then the public one, then the LAN one,
\* each of them once.
Candidates(i, first) ==
    LET direct == sanitizeEndpoint(normalizePublicEndpoint(i.public))
        lan == sanitizeEndpoint(preferLANEndpoint(i.lan))
        Unless(seen, endpoint, via) ==
            IF endpoint \in seen THEN <<>> ELSE <<[endpoint |-> endpoint, via |-> via]>>
    IN  <<first>> \o Unless({NONE, first.endpoint}, direct, "p2p")
                  \o Unless({NONE, first.endpoint, direct}, lan, "lan")

-----------------------------------------------------------------------------
Info(id) == CHOOSE i \in sync.list : i.id = id
Listed(L, id) == \E i \in L : i.id = id
Connected == {id \in Ids : conns[id] # NONE}

Idle == [pc |-> "idle"]
At(pc) == sync.pc = pc

\* A request or a command that may fail does, as long as the bound allows.
Fault == faults < MaxFaults /\ faults' = faults + 1
Fine == UNCHANGED faults

Init ==
    /\ TunnelInit
    /\ list \in {{i} : i \in Infos}
    /\ conns = [id \in Ids |-> NONE]
    /\ sync = [pc |-> "fetch"]
    /\ quality = Idle
    /\ reader = ~wgReady   \* without its socket it is as if it had returned already
    /\ phase = "running"
    /\ changes = 0
    /\ faults = 0
    /\ torn = {}
    /\ dropped = {}
    /\ moved = {}

\* The server's list changes: peers are approved, rejected, approved again under another
\* address (ApproveMember), announce other endpoints; listed addresses are distinct
\* (Membership!VirtualIPsUnique).  Nobody reads the list once the sync goroutine has
\* ended.
Relist ==
    /\ changes < MaxChanges
    /\ phase \in {"running", "leaving", "cancelled"}
    /\ changes' = changes + 1
    /\ list' \in SUBSET Infos \ {list}
    /\ \A i, j \in list' : (i.id = j.id \/ i.vip = j.vip) => i = j
    /\ UNCHANGED <<conns, sync, quality, reader, phase, faults, torn, dropped, moved, tunnelVars>>

-----------------------------------------------------------------------------
(* syncPeersOnce *)

\* The ticker; after cancel, select may still take a pending tick.
Tick ==
    /\ sync = Idle
    /\ phase \in {"running", "leaving", "cancelled"}
    /\ sync' = [pc |-> "fetch"]
    /\ UNCHANGED <<list, conns, quality, reader, phase, changes, faults, torn, dropped, moved,
                   tunnelVars>>

Fetch ==
    /\ At("fetch")
    /\ \/ /\ Fine
          /\ sync' = [pc |-> "next", list |-> list, todo |-> {i.id : i \in list}]
          /\ moved' = moved \cup {id \in Connected :
                                   \E i \in list : i.id = id /\ i.vip # conns[id].vip}
       \/ Fault /\ sync' = Idle /\ UNCHANGED moved
    /\ UNCHANGED <<list, conns, quality, reader, phase, changes, torn, dropped, tunnelVars>>

\* The answer of the relay assignment: a host, or an error.
RelayAnswer(relay) == (relay \in RelayHosts /\ Fine) \/ (relay = NONE /\ Fault)

Done(id) == [pc |-> "next", list |-> sync.list, todo |-> sync.todo \ {id}]

\* Whether the endpoint of a connection is to be changed.
NeedsUpdate(id, c) == c.endpoint # NONE /\ c.endpoint # conns[id].endpoint

\* One listed peer: to be connected, to be moved, or as it should be.
SyncPeer(id, relay) ==
    LET c == Chosen(Info(id), relay)
        left == sync.todo \ {id}
    IN  /\ At("next") /\ id \in sync.todo
        /\ IF selectDirectOrLANEndpoint(Info(id)).endpoint = NONE
           THEN RelayAnswer(relay) ELSE relay = NONE /\ Fine
        /\ sync' =
             IF conns[id] = NONE
             THEN IF c.endpoint = NONE THEN Done(id)
                  ELSE [pc |-> "add", list |-> sync.list, todo |-> left, id |-> id,
                        candidates |-> Candidates(Info(id), c)]
             ELSE IF NeedsUpdate(id, c)
             THEN [pc |-> "update", list |-> sync.list, todo |-> left, id |-> id, to |-> c]
             ELSE Done(id)
        /\ UNCHANGED <<list, conns, quality, reader, phase, changes, torn, dropped, moved,
                       tunnelVars>>

\* ForceRelay or AttemptDirect has updated the tunnel and not yet m.peers.
QualityBetween(id) == quality.pc = "record" /\ quality.id = id

\* connectToPeer and addPeerWithFallback: the next candidate is tried; nobody looks
\* at a connection before it is in m.peers, so the entry is part of the step.
SyncAdd ==
    LET i == Info(sync.id)
        c == Head(sync.candidates)
        left == Tail(sync.candidates)
        retry == IF left = <<>> THEN Done(sync.id) ELSE [sync EXCEPT !.candidates = left]
    IN  /\ At("add")
        /\ \/ /\ AddPeer(i.key, c.endpoint, i.vip, "none")
              /\ conns' = [conns EXCEPT ![sync.id] =
                             [key |-> i.key, vip |-> i.vip, endpoint |-> c.endpoint, via |-> c.via]]
              /\ sync' = Done(sync.id)
              /\ torn' = IF QualityBetween(sync.id) THEN torn \cup {sync.id} ELSE torn \ {sync.id}
              /\ Fine /\ UNCHANGED dropped
           \/ \E failing \in {"wg", "route"} :
              /\ failing = "wg" => wgReady
              /\ AddPeer(i.key, c.endpoint, i.vip, failing)
              /\ dropped' = IF failing = "route" THEN dropped \cup {i.key} ELSE dropped
              /\ sync' = retry
              /\ Fault /\ UNCHANGED <<conns, torn>>
        /\ UNCHANGED <<list, quality, reader, phase, changes, moved>>

\* UpdatePeerEndpoint of one of the goroutines; id is torn when it fails or when the
\* other one is between its own two steps.
TunnelUpdate(id, k, endpoint, overlaps, ok) ==
    /\ IF ok THEN Fine ELSE wgReady /\ Fault
    /\ UpdatePeerEndpoint(k, endpoint, ~ok)
    /\ torn' = IF overlaps \/ ~ok \/ ~Found(k) THEN torn \cup {id} ELSE torn

\* The error is logged and the endpoint recorded all the same.
SyncUpdate ==
    /\ At("update")
    /\ \E ok \in BOOLEAN :
         TunnelUpdate(sync.id, conns[sync.id].key, sync.to.endpoint,
                      QualityBetween(sync.id), ok)
    /\ sync' = [sync EXCEPT !.pc = "record"]
    /\ UNCHANGED <<list, conns, quality, reader, phase, changes, dropped, moved>>

\* Mutant: only ConnectedVia is recorded.
Record_OnlyVia(id, to) ==
    conns' = IF conns[id] = NONE THEN conns ELSE [conns EXCEPT ![id].via = to.via]

\* The endpoint goes on record, if there still is a connection.
Record(id, to) ==
    conns' = IF conns[id] = NONE THEN conns
             ELSE [conns EXCEPT ![id].endpoint = to.endpoint, ![id].via = to.via]

SyncRecord ==
    /\ At("record")
    /\ Record(sync.id, sync.to)
    /\ sync' = Done(sync.id)
    /\ UNCHANGED <<list, quality, reader, phase, changes, faults, torn, dropped, moved, tunnelVars>>

SyncRemovals ==
    /\ At("next") /\ sync.todo = {}
    /\ sync' = [pc |-> "remove", ids |-> {id \in Connected : ~Listed(sync.list, id)}]
    /\ UNCHANGED <<list, conns, quality, reader, phase, changes, faults, torn, dropped, moved,
                   tunnelVars>>

\* Mutant: the connection is not forgotten.
disconnectPeer_NoDelete(id) ==
    /\ Fine
    /\ RemovePeer(conns[id].key, FALSE)
    /\ UNCHANGED <<conns, dropped, moved>>

\* disconnectPeer: the connection is forgotten whether RemovePeer succeeded or not.  (Both
\* in one step: in between the quality loop finds no peer in the tunnel to move, and what
\* it records is deleted with the connection.)
disconnectPeer(id) ==
    \E ok \in BOOLEAN :
        /\ IF ok THEN Fine ELSE wgReady /\ Fault
        /\ RemovePeer(conns[id].key, ~ok)
        /\ conns' = [conns EXCEPT ![id] = NONE]
        /\ moved' = moved \ {id}
        /\ dropped' = IF ok THEN dropped ELSE dropped \cup {conns[id].key}

SyncRemove(id) ==
    /\ At("remove") /\ id \in sync.ids
    /\ disconnectPeer(id)
    /\ sync' = [sync EXCEPT !.ids = @ \ {id}]
    /\ UNCHANGED <<list, quality, reader, phase, changes, torn>>

SyncEnds ==
    /\ At("remove") /\ sync.ids = {}
    /\ sync' = Idle
    /\ UNCHANGED <<list, conns, quality, reader, phase, changes, faults, torn, dropped, moved,
                   tunnelVars>>

-----------------------------------------------------------------------------
(* qualityMonitorLoop *)

Probing(c) == quality.pc = "probing" /\ c \in quality.todo
NextProbe(todo) == IF todo = {} THEN Idle ELSE [pc |-> "probing", todo |-> todo]

\* A tick: the connections are listed.  As in the sync goroutine, select may take a
\* pending tick when ctx is done.  (A tick without connections does nothing.)
Probe ==
    /\ quality = Idle
    /\ phase \in {"running", "leaving"}
    /\ Connected # {}
    /\ quality' = NextProbe({[id |-> id, via |-> conns[id].via] : id \in Connected})
    /\ UNCHANGED <<list, conns, sync, reader, phase, changes, faults, torn, dropped, moved,
                   tunnelVars>>

\* Nothing to do: the latency is fine, or the call returned an error.
Skip(c) ==
    /\ Probing(c)
    /\ quality' = NextProbe(quality.todo \ {c})
    /\ UNCHANGED <<list, conns, sync, reader, phase, changes, faults, torn, dropped, moved,
                   tunnelVars>>

Decide(c, to) ==
    /\ conns[c.id] # NONE
    /\ quality' = [pc |-> "update", todo |-> quality.todo \ {c}, id |-> c.id,
                   key |-> conns[c.id].key, to |-> to]
    /\ UNCHANGED <<list, conns, sync, reader, phase, changes, faults, torn, dropped, moved,
                   tunnelVars>>

\* ForceRelay, for a slow direct connection, up to the tunnel.
ForceRelay(c, relay) ==
    /\ Probing(c) /\ c.via = "p2p"
    /\ resolveRelayEndpoint(relay) # NONE
    /\ Decide(c, [endpoint |-> resolveRelayEndpoint(relay), via |-> "relay"])

\* AttemptDirect, for a relayed one: not with WireGuard, which roams by itself.
AttemptDirect(c) ==
    /\ Probing(c) /\ c.via = "relay"
    /\ ~wgReady
    /\ \E i \in list : /\ i.id = c.id
                       /\ preferIPv4(i) # NONE
                       /\ Decide(c, [endpoint |-> preferIPv4(i), via |-> "p2p"])

\* Their UpdatePeerEndpoint; an error ends the call.
QualityUpdate ==
    /\ quality.pc = "update"
    /\ \E ok \in BOOLEAN :
         /\ IF ok THEN Fine ELSE wgReady /\ Fault
         /\ UpdatePeerEndpoint(quality.key, quality.to.endpoint, ~ok)
         /\ torn' = IF /\ ok /\ Found(quality.key)
                       /\ \/ sync.pc = "record" /\ sync.id = quality.id
                          \/ conns[quality.id] # NONE /\ conns[quality.id].key # quality.key
                    THEN torn \cup {quality.id} ELSE torn
         /\ quality' = IF ok /\ Found(quality.key) THEN [quality EXCEPT !.pc = "record"]
                       ELSE NextProbe(quality.todo)
    /\ UNCHANGED <<list, conns, sync, reader, phase, changes, dropped, moved>>

QualityRecord ==
    /\ quality.pc = "record"
    /\ Record(quality.id, quality.to)
    /\ quality' = NextProbe(quality.todo)
    /\ UNCHANGED <<list, sync, reader, phase, changes, faults, torn, dropped, moved, tunnelVars>>

-----------------------------------------------------------------------------
(* Agent.Stop *)

Leave ==
    /\ phase = "running"
    /\ phase' = "leaving"
    /\ UNCHANGED <<list, conns, sync, quality, reader, changes, faults, torn, dropped, moved,
                   tunnelVars>>

\* The UDP reader of packet forwarding sees ctx.Done when ReadFromUDP has returned: when
\* a datagram came.  Its socket is closed after the wait for it.  (The heartbeat and the
\* discovery loop, and the reader of the device, which does not block, have nothing to
\* do with the manager.)
ReaderExits ==
    /\ phase = "leaving" /\ reader
    /\ reader' = FALSE
    /\ UNCHANGED <<list, conns, sync, quality, phase, changes, faults, torn, dropped, moved,
                   tunnelVars>>

\* a.wg.Wait: the quality loop and the reader have returned.
LoopsEnded == phase = "leaving" /\ quality = Idle /\ ~reader

\* Mutant: the sync goroutine is waited for and never told.
ManagerStop_NoCancel ==
    /\ LoopsEnded
    /\ UNCHANGED vars

\* PeerManager.Stop cancels, waits for the sync goroutine and disconnects everybody.
ManagerStop ==
    /\ LoopsEnded
    /\ phase' = "cancelled"
    /\ UNCHANGED <<list, conns, sync, quality, reader, changes, faults, torn, dropped, moved,
                   tunnelVars>>

SyncExits ==
    /\ phase = "cancelled" /\ sync = Idle
    /\ phase' = "closing"
    /\ UNCHANGED <<list, conns, sync, quality, reader, changes, faults, torn, dropped, moved,
                   tunnelVars>>

StopDisconnects(id) ==
    /\ phase = "closing" /\ id \in Connected
    /\ disconnectPeer(id)
    /\ UNCHANGED <<list, sync, quality, reader, phase, changes, torn>>

TunnelStops ==
    /\ phase = "closing" /\ Connected = {}
    /\ \/ TunnelStop(FALSE) /\ Fine
       \/ TunnelStop(TRUE) /\ Fault
    /\ phase' = "stopped"
    /\ UNCHANGED <<list, conns, sync, quality, reader, changes, torn, dropped, moved>>

Terminated == phase = "stopped" /\ UNCHANGED vars

Syncing ==
    \/ Tick \/ Fetch
    \/ \E id \in Ids, relay \in RelayHosts \cup {NONE} : SyncPeer(id, relay)
    \/ SyncAdd \/ SyncUpdate \/ SyncRecord \/ SyncRemovals
    \/ \E id \in Ids : SyncRemove(id)
    \/ SyncEnds

Monitoring ==
    \/ Probe
    \/ \E id \in Ids, via \in Vias :
          LET c == [id |-> id, via |-> via]
          IN  Skip(c) \/ AttemptDirect(c) \/ \E relay \in RelayHosts : ForceRelay(c, relay)
    \/ QualityUpdate \/ QualityRecord

Stopping ==
    \/ ReaderExits \/ ManagerStop \/ SyncExits
    \/ \E id \in Ids : StopDisconnects(id)
    \/ TunnelStops

Next == Relist \/ Syncing \/ Monitoring \/ Leave \/ Stopping \/ Terminated

Spec == Init /\ [][Next]_vars

\* The goroutines are scheduled, tickers fire, and a select with two ready
\* channels does not take the same one for ever.
Fairness ==
    /\ WF_vars(Syncing)
    /\ WF_vars(quality # Idle /\ Monitoring)
    /\ SF_vars(ManagerStop)
    /\ WF_vars(TunnelStops \/ \E id \in Ids : StopDisconnects(id))
    /\ SF_vars(SyncExits)

FairSpec == Spec /\ Fairness

-----------------------------------------------------------------------------
\* connectToPeer, disconnectPeer: the manager's connections and the tunnel's peers
\* are the same but for the peers whose AddPeer or RemovePeer failed half way:
\* every connection is in the tunnel and, with WireGuard, in the kernel, and
\* whoever is there without a connection was left behind by such a failure.
ManagedAndInstalled ==
    /\ \A id \in Connected :
         /\ wpeers[conns[id].key] # NONE
         /\ wgReady => kernel[conns[id].key] # NONE
    /\ \A k \in Keys \ dropped :
         (wpeers[k] # NONE \/ kernel[k] # NONE) => \E id \in Connected : conns[id].key = k

\* syncPeersOnce, ForceRelay, AttemptDirect: outside the two steps of an update the
\* endpoint the manager has on record is the one the tunnel uses, unless an update
\* of that connection failed, two of them overlapped, or one was begun for an
\* earlier connection to the peer.  (Then they differ until the peer moves again:
\* the next sync compares with the record.)
RecordedEndpointUsed ==
    \A id \in Connected \ torn :
        \/ wpeers[conns[id].key].endpoint = conns[id].endpoint
        \/ sync.pc = "record" /\ sync.id = id
        \/ QualityBetween(id)

\* connectToPeer, disconnectPeer: an address that passed from one peer to another is
\* routed to the peer that has it now, although the new holder is added before the old
\* one is removed: when a sync is over, the kernel sends packets for a connected peer's
\* address to that peer, provided that every list fetched since it was connected had the
\* peer under this address.  (For a peer approved again under another address nothing
\* is claimed: the manager leaves its allowed IP as it was, and another peer may take it.)
KeptAddressRouted ==
    sync = Idle /\ wgReady =>
        \A id \in Connected \ moved : kernel[conns[id].key].ip = conns[id].vip

\* sanitizeEndpoint, selectDirectOrLANEndpoint: WireGuard is not given an endpoint it
\* cannot reach: never a name of the server's own network, and, as long as nothing
\* failed, not our own public address for a peer behind our NAT, unless the server or
\* a relay is behind it too or it is an address of a local interface
\* (addPeerWithFallback tries it after a failure, AttemptDirect when packets go
\* without WireGuard).
DialsReachable ==
    \A k \in Keys :
        kernel[k] # NONE =>
            /\ kernel[k].endpoint \notin Internal
            /\ faults = 0 /\ OwnHost \notin OnLAN \cup RelayHosts \cup {PublicHost} =>
                 kernel[k].endpoint # OwnHost

\* Once the server's list stays as it is and commands succeed, the connections of
\* a running agent become the listed peers, and stay so.
Converges == <>[](phase = "running" => Connected = {i.id : i \in list})

\* Agent.Stop returns once the UDP reader, if there is one, has: the quality loop ends,
\* the sync goroutine ends, everybody is disconnected and the tunnel stopped.  (Nothing
\* makes the reader return but a datagram.)
StopReturns == (phase = "leaving" /\ ~reader) ~> (phase = "stopped")
=============================================================================
