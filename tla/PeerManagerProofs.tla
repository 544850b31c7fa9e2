-------------------------- MODULE PeerManagerProofs --------------------------
(* Proofs about PeerManager, for any peers, hosts and bounds.  The inductive  *)
(* invariant says what the sync goroutine and the quality loop rely on        *)
(* between their steps: whose the keys are, which connections the kernel      *)
(* routes to while addresses change hands, and what an update under way has   *)
(* done to the tunnel.                                                        *)
EXTENDS PeerManager, TLAPS

Target == [endpoint : Hosts, via : Vias]

\* A target a connection may be given: an endpoint, and none of the server's names.
Reachable == {t \in Target : t.endpoint # NONE /\ t.endpoint \notin Internal}

Lists == SUBSET Infos
Distinct(L) == \A i, j \in L : (i.id = j.id \/ i.vip = j.vip) => i = j
ListedIds(L) == {i.id : i \in L}

SyncStates ==
    [pc : {"idle", "fetch"}]
      \cup [pc : {"next"}, list : Lists, todo : SUBSET Ids]
      \cup [pc : {"add"}, list : Lists, todo : SUBSET Ids, id : Ids, candidates : Seq(Reachable)]
      \cup [pc : {"update", "record"}, list : Lists, todo : SUBSET Ids, id : Ids, to : Reachable]
      \cup [pc : {"remove"}, ids : SUBSET Ids]

Probes == [id : Ids, via : Vias]

QualityStates ==
    [pc : {"idle"}]
      \cup [pc : {"probing"}, todo : SUBSET Probes]
      \cup [pc : {"update", "record"}, todo : SUBSET Probes, id : Ids, key : Keys, to : Target]

TunnelTypeOK ==
    /\ started \in BOOLEAN
    /\ wgReady \in BOOLEAN
    /\ wpeers \in [Keys -> Entry \cup {NONE}]
    /\ kernel \in [Keys -> Entry \cup {NONE}]

TypeOK ==
    /\ TunnelTypeOK
    /\ list \in Lists
    /\ conns \in [Ids -> Conn \cup {NONE}]
    /\ sync \in SyncStates
    /\ quality \in QualityStates
    /\ phase \in {"running", "leaving", "cancelled", "closing", "stopped"}
    /\ reader \in BOOLEAN
    /\ faults \in Nat
    /\ torn \subseteq Ids
    /\ dropped \subseteq Keys
    /\ moved \subseteq Ids

\* Agent.Stop: who has ended when.
Ended ==
    /\ phase \in {"cancelled", "closing", "stopped"} => quality.pc = "idle"
    /\ phase \in {"closing", "stopped"} => sync.pc = "idle"
    /\ phase = "stopped" => Connected = {}
    /\ phase # "stopped" => started

\* The server lists a peer once, and an address once.
Lists_Distinct ==
    /\ Distinct(list)
    /\ sync.pc \in {"next", "add", "update", "record"} =>
         Distinct(sync.list) /\ sync.todo \subseteq ListedIds(sync.list)
    /\ sync.pc \in {"add", "update", "record"} => sync.id \in ListedIds(sync.list)

\* A connection is to a key of its peer and has its address; a key taken from a
\* connection is the peer's too.
Owner ==
    /\ \A id \in Connected :
         \E i \in Infos : i.id = id /\ i.key = conns[id].key /\ i.vip = conns[id].vip
    /\ quality.pc \in {"update", "record"} =>
         \E i \in Infos : i.id = quality.id /\ i.key = quality.key

\* The sync goroutine adds what is not connected, and moves or removes what is.
SyncKnows ==
    /\ sync.pc = "add" => conns[sync.id] = NONE /\ sync.candidates # <<>>
    /\ sync.pc \in {"update", "record"} => conns[sync.id] # NONE
    /\ sync.pc = "remove" => sync.ids \subseteq Connected

\* Without WireGuard the kernel has no peers; with it, it has the tunnel's.
Installed ==
    /\ ~wgReady => \A k \in Keys : kernel[k] = NONE
    /\ phase # "stopped" /\ wgReady => \A k \in Keys : wpeers[k] # NONE => kernel[k] # NONE

\* The first step of an update has given the endpoint to the tunnel.
UpdateUnderWay ==
    /\ sync.pc = "record" /\ sync.id \notin torn =>
         wpeers[conns[sync.id].key].endpoint = sync.to.endpoint
    /\ quality.pc = "record" /\ quality.id \in Connected \ torn =>
         wpeers[conns[quality.id].key].endpoint = quality.to.endpoint

\* The connections whose address the kernel sends to them: between two syncs all of
\* them, in the course of one those that stay, but for those that have moved.
Settled(id) ==
    CASE sync.pc \in {"idle", "fetch"} -> TRUE
      [] sync.pc \in {"next", "add", "update", "record"} -> id \in ListedIds(sync.list)
      [] OTHER -> id \notin sync.ids

Routed ==
    wgReady => \A id \in Connected \ moved : Settled(id) => kernel[conns[id].key].ip = conns[id].vip

\* Who was not found to have moved is listed under the address of its connection.
Kept ==
    sync.pc \in {"next", "add", "update", "record"} =>
        \A i \in sync.list : i.id \in Connected \ moved => conns[i.id].vip = i.vip

\* No endpoint in use or about to be used is a name of the server's network, or our
\* own public address.
NotOwn(t) == OwnHost \notin OnLAN \cup RelayHosts \cup {PublicHost} => t.endpoint # OwnHost

Dials ==
    /\ wgReady /\ quality.pc \in {"update", "record"} =>
         quality.to \in Reachable /\ NotOwn(quality.to)
    /\ faults = 0 /\ sync.pc = "add" => NotOwn(Head(sync.candidates))
    /\ faults = 0 /\ sync.pc \in {"update", "record"} => NotOwn(sync.to)

PInv ==
    /\ TypeOK /\ Ended /\ Lists_Distinct /\ Owner /\ SyncKnows /\ Installed /\ UpdateUnderWay
    /\ Routed /\ Kept /\ Dials
    /\ ManagedAndInstalled /\ RecordedEndpointUsed /\ DialsReachable

-----------------------------------------------------------------------------
(* Choosing an endpoint *)

\* sanitizeEndpoint never returns an internal name.
LEMMA Sanitized ==
    ASSUME NEW h \in Hosts
    PROVE  sanitizeEndpoint(h) \in Hosts /\ sanitizeEndpoint(h) \notin Internal
BY PeerManagerAssumption DEF sanitizeEndpoint, Hosts

\* What the server lists are hosts.
LEMMA ListedHosts ==
    ASSUME NEW i \in Infos
    PROVE  /\ normalizePublicEndpoint(i.public) \in Hosts
           /\ preferLANEndpoint(i.lan) \in Hosts
           /\ preferIPv4(i) \in Hosts
BY DEF normalizePublicEndpoint, preferLANEndpoint, preferIPv4, Hosts

\* The relay's endpoint is not internal, and our own only if a relay or the server is here.
LEMMA RelayTarget ==
    ASSUME NEW r \in RelayHosts, NEW e, e = resolveRelayEndpoint(r), e # NONE
    PROVE  /\ [endpoint |-> e, via |-> "relay"] \in Reachable
           /\ NotOwn([endpoint |-> e, via |-> "relay"])
<1>1. e = sanitizeEndpoint(r) /\ r \in Hosts
  BY DEF resolveRelayEndpoint, Hosts
<1>2. e \in Hosts /\ e \notin Internal
  BY <1>1, Sanitized
<1>3. e \in {r, PublicHost, NONE}
  BY <1>1 DEF sanitizeEndpoint
<1> QED
  BY <1>2, <1>3 DEF Reachable, Target, Vias, NotOwn

\* selectDirectOrLANEndpoint: an endpoint it returns is reachable.
LEMMA SelectedTarget ==
    ASSUME NEW i \in Infos, selectDirectOrLANEndpoint(i).endpoint # NONE
    PROVE  /\ selectDirectOrLANEndpoint(i) \in Reachable
           /\ NotOwn(selectDirectOrLANEndpoint(i))
<1> DEFINE direct == sanitizeEndpoint(normalizePublicEndpoint(i.public))
           lan == sanitizeEndpoint(preferLANEndpoint(i.lan))
<1>1. direct \in Hosts /\ direct \notin Internal /\ lan \in Hosts /\ lan \notin Internal
  BY Sanitized, ListedHosts
<1>2. /\ direct \in {i.public, PublicHost, NONE}
      /\ lan = NONE \/ lan = PublicHost \/ lan \in OnLAN
  BY DEF sanitizeEndpoint, normalizePublicEndpoint, preferLANEndpoint
<1>3. selectDirectOrLANEndpoint(i) =
        IF samePublicNAT(i.public) THEN [endpoint |-> lan, via |-> "lan"]
        ELSE IF direct # NONE THEN [endpoint |-> direct, via |-> "p2p"]
        ELSE IF LanFallback THEN [endpoint |-> lan, via |-> "lan"]
        ELSE [endpoint |-> NONE, via |-> "lan"]
  BY DEF selectDirectOrLANEndpoint
<1> HIDE DEF direct, lan
<1>4. CASE selectDirectOrLANEndpoint(i) = [endpoint |-> lan, via |-> "lan"]
  <2>1. lan # NONE
    BY <1>4
  <2>2. NotOwn([endpoint |-> lan, via |-> "lan"])
    BY <1>2, <2>1 DEF NotOwn
  <2> QED
    BY <1>1, <1>4, <2>1, <2>2 DEF Reachable, Target, Vias
<1>5. CASE /\ ~samePublicNAT(i.public)
           /\ selectDirectOrLANEndpoint(i) = [endpoint |-> direct, via |-> "p2p"]
  <2>1. direct # NONE
    BY <1>5
  <2>2. NotOwn([endpoint |-> direct, via |-> "p2p"])
    BY <1>2, <1>5, <2>1 DEF NotOwn, samePublicNAT
  <2> QED
    BY <1>1, <1>5, <2>1, <2>2 DEF Reachable, Target, Vias
<1> QED
  BY <1>3, <1>4, <1>5

\* The endpoint syncPeersOnce and connectToPeer choose, if there is one.
LEMMA ChosenTarget ==
    ASSUME NEW i \in Infos, NEW r \in RelayHosts \cup {NONE}, Chosen(i, r).endpoint # NONE
    PROVE  Chosen(i, r) \in Reachable /\ NotOwn(Chosen(i, r))
<1>1. CASE selectDirectOrLANEndpoint(i).endpoint # NONE
  BY <1>1, SelectedTarget DEF Chosen
<1>2. CASE selectDirectOrLANEndpoint(i).endpoint = NONE
  <2>1. Chosen(i, r) = [endpoint |-> resolveRelayEndpoint(r), via |-> "relay"]
    BY <1>2 DEF Chosen
  <2>2. resolveRelayEndpoint(r) # NONE /\ r \in RelayHosts
    BY <2>1 DEF resolveRelayEndpoint
  <2> QED
    BY <2>1, <2>2, RelayTarget
<1> QED
  BY <1>1, <1>2

\* addPeerWithFallback begins with the chosen endpoint and tries no internal name.
LEMMA CandidatesReachable ==
    ASSUME NEW i \in Infos, NEW first \in Reachable
    PROVE  /\ Candidates(i, first) \in Seq(Reachable)
           /\ Candidates(i, first) # <<>>
           /\ Head(Candidates(i, first)) = first
<1> DEFINE direct == sanitizeEndpoint(normalizePublicEndpoint(i.public))
           lan == sanitizeEndpoint(preferLANEndpoint(i.lan))
           Unless(seen, endpoint, via) ==
               IF endpoint \in seen THEN <<>> ELSE <<[endpoint |-> endpoint, via |-> via]>>
           s1 == Unless({NONE, first.endpoint}, direct, "p2p")
           s2 == Unless({NONE, first.endpoint, direct}, lan, "lan")
<1>1. direct \in Hosts /\ direct \notin Internal /\ lan \in Hosts /\ lan \notin Internal
  BY Sanitized, ListedHosts
<1>2. Candidates(i, first) = <<first>> \o s1 \o s2
  BY DEF Candidates
<1> HIDE DEF direct, lan
<1>3. s1 \in Seq(Reachable)
  <2>1. direct # NONE => [endpoint |-> direct, via |-> "p2p"] \in Reachable
    BY <1>1 DEF Reachable, Target, Vias
  <2> QED
    BY <2>1
<1>4. s2 \in Seq(Reachable)
  <2>1. lan # NONE => [endpoint |-> lan, via |-> "lan"] \in Reachable
    BY <1>1 DEF Reachable, Target, Vias
  <2> QED
    BY <2>1
<1>5. <<first>> \in Seq(Reachable) /\ Len(<<first>>) = 1 /\ <<first>>[1] = first
  OBVIOUS
<1> HIDE DEF s1, s2
<1>6. <<first>> \o s1 \in Seq(Reachable) /\ Len(<<first>> \o s1) >= 1 /\ (<<first>> \o s1)[1] = first
  BY <1>3, <1>5
<1>7. LET s == <<first>> \o s1 \o s2 IN s \in Seq(Reachable) /\ Len(s) >= 1 /\ s[1] = first
  BY <1>4, <1>6
<1> QED
  BY <1>2, <1>7

-----------------------------------------------------------------------------
(* The tunnel's operations *)

\* The kernel has a peer with the endpoint and the address, which others lose.
LEMMA KernelAdded ==
    ASSUME TunnelTypeOK, NEW k \in Keys, NEW e \in Hosts, NEW ip \in Addresses
    PROVE  KernelAdd(k, e, ip) \in [Keys -> Entry \cup {NONE}]
<1>1. [endpoint |-> e, ip |-> ip] \in Entry
  BY DEF Entry
<1>2. ASSUME NEW j \in Keys, kernel[j] # NONE PROVE [kernel[j] EXCEPT !.ip = NONE] \in Entry
  BY <1>2 DEF TunnelTypeOK, Entry
<1> QED
  BY <1>1, <1>2 DEF KernelAdd, TunnelTypeOK

\* AddPeer, whole or half done, keeps the types.
LEMMA AddPeerTyped ==
    ASSUME TunnelTypeOK, NEW k \in Keys, NEW e \in Hosts, NEW ip \in Addresses, NEW f,
           AddPeer(k, e, ip, f)
    PROVE  TunnelTypeOK'
<1>1. [endpoint |-> e, ip |-> ip] \in Entry
  BY DEF Entry
<1> QED
  BY <1>1, KernelAdded DEF AddPeer, TunnelTypeOK

\* RemovePeer, whole or half done, keeps them too.
LEMMA RemovePeerTyped ==
    ASSUME TunnelTypeOK, NEW k \in Keys, NEW f \in BOOLEAN, RemovePeer(k, f)
    PROVE  TunnelTypeOK'
BY DEF RemovePeer, TunnelTypeOK

\* With an entry in the tunnel there is one in the kernel to change.
LEMMA UpdateTyped ==
    ASSUME TunnelTypeOK, NEW k \in Keys, NEW e \in Hosts, NEW f \in BOOLEAN,
           wgReady /\ wpeers[k] # NONE => kernel[k] # NONE, UpdatePeerEndpoint(k, e, f)
    PROVE  TunnelTypeOK'
<1>1. \A n \in Entry : [n EXCEPT !.endpoint = e] \in Entry
  BY DEF Entry
<1>2. wpeers[k] # NONE => [wpeers EXCEPT ![k].endpoint = e] \in [Keys -> Entry \cup {NONE}]
  BY <1>1 DEF TunnelTypeOK
<1>3. kernel[k] # NONE => [kernel EXCEPT ![k].endpoint = e] \in [Keys -> Entry \cup {NONE}]
  BY <1>1 DEF TunnelTypeOK
<1> QED
  BY <1>2, <1>3 DEF UpdatePeerEndpoint, Found, TunnelTypeOK

-----------------------------------------------------------------------------
(* The type invariant *)

\* The entry syncPeersOnce looks up.
LEMMA InfoListed ==
    ASSUME NEW id \in Ids, id \in ListedIds(sync.list)
    PROVE  Info(id) \in sync.list /\ Info(id).id = id
BY DEF Info, ListedIds

\* What a record step leaves.
LEMMA RecordTyped ==
    ASSUME TypeOK, NEW id \in Ids, NEW to \in Target, Record(id, to)
    PROVE  /\ conns' \in [Ids -> Conn \cup {NONE}]
           /\ \A j \in Ids \ {id} : conns'[j] = conns[j]
           /\ conns'[id] = NONE <=> conns[id] = NONE
           /\ conns[id] # NONE => /\ conns'[id].key = conns[id].key
                                  /\ conns'[id].vip = conns[id].vip
                                  /\ conns'[id].endpoint = to.endpoint
<1>1. CASE conns[id] = NONE
  BY <1>1 DEF Record, TypeOK
<1>2. CASE conns[id] # NONE
  <2> DEFINE n == [conns[id] EXCEPT !.endpoint = to.endpoint, !.via = to.via]
  <2>1. conns' = [conns EXCEPT ![id] = n]
    BY <1>2 DEF Record
  <2>2. conns[id] \in Conn
    BY <1>2 DEF TypeOK
  <2>3. /\ n \in Conn /\ n.key = conns[id].key /\ n.vip = conns[id].vip
        /\ n.endpoint = to.endpoint
    BY <2>2 DEF Conn, Target
  <2>4. n # NONE
    BY <2>3, PeerManagerAssumption
  <2> HIDE DEF n
  <2> QED
    BY <1>2, <2>1, <2>3, <2>4 DEF TypeOK
<1> QED
  BY <1>1, <1>2

\* A new connection.
LEMMA NewConn ==
    ASSUME NEW i \in Infos, NEW c \in Reachable
    PROVE  /\ [key |-> i.key, vip |-> i.vip, endpoint |-> c.endpoint, via |-> c.via] \in Conn
           /\ i.vip \in Addresses /\ i.key \in Keys /\ c.endpoint \in Hosts
BY PeerManagerAssumption DEF Conn, Reachable, Target, Addresses

\* The next peer of the list.
LEMMA DoneTyped ==
    ASSUME sync \in SyncStates, sync.pc \in {"next", "add", "update", "record"}, NEW id \in Ids
    PROVE  /\ Done(id) \in SyncStates /\ Done(id).pc = "next"
           /\ Done(id).list = sync.list /\ Done(id).todo = sync.todo \ {id}
           /\ sync.list \in Lists /\ sync.todo \subseteq Ids
BY DEF Done, SyncStates

\* The next probe.
LEMMA NextProbeTyped ==
    ASSUME NEW todo \in SUBSET Probes
    PROVE  NextProbe(todo) \in QualityStates /\ NextProbe(todo).pc \in {"idle", "probing"}
BY DEF NextProbe, Idle, QualityStates

\* Every step keeps the types.
LEMMA PTyped == PInv /\ [Next]_vars => TypeOK'
<1> SUFFICES ASSUME PInv, [Next]_vars PROVE TypeOK'
    OBVIOUS
<1>1. TypeOK
  BY DEF PInv
<1>2. CASE UNCHANGED vars
  BY <1>1, <1>2 DEF vars, mvars, tunnelVars, TypeOK, TunnelTypeOK
<1>3. CASE Relist
  BY <1>1, <1>3 DEF Relist, tunnelVars, TypeOK, TunnelTypeOK, Lists
<1>4. CASE Tick \/ SyncEnds
  BY <1>1, <1>4 DEF Tick, SyncEnds, Idle, tunnelVars, TypeOK, TunnelTypeOK, SyncStates
<1>5. CASE Fetch
  <2>1. {i.id : i \in list} \subseteq Ids
    BY <1>1, PeerManagerAssumption DEF TypeOK, Lists
  <2>2. sync' \in SyncStates /\ faults' \in Nat /\ moved' \subseteq Ids
    BY <1>1, <1>5, <2>1 DEF Fetch, Fault, Fine, Idle, Connected, TypeOK, SyncStates
  <2> QED
    BY <1>1, <1>5, <2>2 DEF Fetch, tunnelVars, TypeOK, TunnelTypeOK
<1>6. ASSUME NEW id \in Ids, NEW relay \in RelayHosts \cup {NONE}, SyncPeer(id, relay)
      PROVE  TypeOK'
  <2> DEFINE c == Chosen(Info(id), relay)
             left == sync.todo \ {id}
  <2>1. Info(id) \in Infos
    BY <1>1, <1>6, InfoListed, DoneTyped DEF SyncPeer, At, PInv, Lists_Distinct, TypeOK, Lists
  <2>2. sync.list \in Lists /\ left \in SUBSET Ids /\ Done(id) \in SyncStates
    BY <1>1, <1>6, DoneTyped DEF SyncPeer, At, TypeOK
  <2>3. CASE c.endpoint # NONE
    <3>1. c \in Reachable /\ Candidates(Info(id), c) \in Seq(Reachable)
      BY <2>1, <2>3, ChosenTarget, CandidatesReachable
    <3>2. /\ [pc |-> "update", list |-> sync.list, todo |-> left, id |-> id, to |-> c]
               \in SyncStates
          /\ [pc |-> "add", list |-> sync.list, todo |-> left, id |-> id,
              candidates |-> Candidates(Info(id), c)] \in SyncStates
      BY <2>2, <3>1 DEF SyncStates
    <3> QED
      BY <1>1, <1>6, <2>2, <2>3, <3>2 DEF SyncPeer, RelayAnswer, Fault, Fine, tunnelVars,
         TypeOK,
         TunnelTypeOK
  <2>4. CASE c.endpoint = NONE
    BY <1>1, <1>6, <2>2, <2>4 DEF SyncPeer, NeedsUpdate, RelayAnswer, Fault, Fine, tunnelVars,
       TypeOK, TunnelTypeOK
  <2> QED
    BY <2>3, <2>4
<1>7. CASE SyncAdd
  <2> DEFINE i == Info(sync.id)
             c == Head(sync.candidates)
  <2>1. /\ sync.id \in Ids /\ sync.list \in Lists /\ sync.candidates \in Seq(Reachable)
        /\ sync.todo \in SUBSET Ids /\ sync.pc = "add"
    BY <1>1, <1>7 DEF SyncAdd, At, TypeOK, SyncStates
  <2>2. i \in Infos /\ sync.candidates # <<>>
    BY <1>7, <2>1, InfoListed DEF SyncAdd, At, PInv, Lists_Distinct, SyncKnows, Lists
  <2>3. c \in Reachable /\ Tail(sync.candidates) \in Seq(Reachable)
    BY <2>1, <2>2
  <2>4. /\ [key |-> i.key, vip |-> i.vip, endpoint |-> c.endpoint, via |-> c.via] \in Conn
        /\ i.vip \in Addresses /\ i.key \in Keys /\ c.endpoint \in Hosts
    BY <2>2, <2>3, NewConn
  <2>5. TunnelTypeOK'
    BY <1>1, <1>7, <2>4, AddPeerTyped DEF SyncAdd, TypeOK
  <2>6. /\ Done(sync.id) \in SyncStates
        /\ [sync EXCEPT !.candidates = Tail(sync.candidates)] \in SyncStates
    BY <1>1, <2>1, <2>3, DoneTyped DEF TypeOK, SyncStates
  <2>7. sync' \in SyncStates
    BY <1>7, <2>6 DEF SyncAdd
  <2>8. conns' \in [Ids -> Conn \cup {NONE}]
    BY <1>1, <1>7, <2>1, <2>4 DEF SyncAdd, TypeOK
  <2>9. torn' \subseteq Ids /\ dropped' \subseteq Keys /\ faults' \in Nat
    BY <1>1, <1>7, <2>1, <2>4 DEF SyncAdd, TypeOK, Fault, Fine
  <2> QED
    BY <1>1, <1>7, <2>5, <2>7, <2>8, <2>9 DEF SyncAdd, TypeOK
<1>8. CASE SyncUpdate
  <2>1. /\ sync.id \in Ids /\ sync.to \in Reachable /\ sync.pc = "update"
        /\ [sync EXCEPT !.pc = "record"] \in SyncStates
    BY <1>1, <1>8 DEF SyncUpdate, At, TypeOK, SyncStates
  <2>2. conns[sync.id] \in Conn
    BY <1>1, <2>1 DEF PInv, SyncKnows, TypeOK
  <2>3. conns[sync.id].key \in Keys /\ sync.to.endpoint \in Hosts
    BY <2>1, <2>2 DEF Conn, Reachable, Target
  <2>4. phase # "stopped"
    BY <2>1 DEF PInv, Ended
  <2>5. wgReady => \A k \in Keys : wpeers[k] # NONE => kernel[k] # NONE
    BY <2>4 DEF PInv, Installed
  <2>6. PICK ok \in BOOLEAN :
            TunnelUpdate(sync.id, conns[sync.id].key, sync.to.endpoint, QualityBetween(sync.id), ok)
    BY <1>8 DEF SyncUpdate
  <2>7. TunnelTypeOK'
    BY <1>1, <2>3, <2>5, <2>6, UpdateTyped DEF TunnelUpdate, TypeOK
  <2>8. torn' \subseteq Ids /\ faults' \in Nat
    BY <1>1, <2>1, <2>6 DEF TunnelUpdate, Fault, Fine, TypeOK
  <2> QED
    BY <1>1, <1>8, <2>1, <2>7, <2>8 DEF SyncUpdate, TypeOK
<1>9. CASE SyncRecord
  <2>1. sync.id \in Ids /\ sync.to \in Target /\ sync.pc = "record"
    BY <1>1, <1>9 DEF SyncRecord, At, TypeOK, SyncStates, Reachable
  <2>2. conns' \in [Ids -> Conn \cup {NONE}] /\ sync' \in SyncStates
    BY <1>1, <1>9, <2>1, RecordTyped, DoneTyped DEF SyncRecord, TypeOK
  <2> QED
    BY <1>1, <1>9, <2>2 DEF SyncRecord, tunnelVars, TypeOK, TunnelTypeOK
<1>10. CASE SyncRemovals
  <2>1. sync' \in SyncStates
    BY <1>10 DEF SyncRemovals, Connected, SyncStates
  <2> QED
    BY <1>1, <1>10, <2>1 DEF SyncRemovals, tunnelVars, TypeOK, TunnelTypeOK
<1>11. ASSUME NEW id \in Connected, disconnectPeer(id)
       PROVE  /\ TunnelTypeOK' /\ conns' \in [Ids -> Conn \cup {NONE}]
              /\ dropped' \subseteq Keys /\ faults' \in Nat /\ moved' \subseteq Ids
  <2>1. id \in Ids /\ conns[id] \in Conn /\ conns[id].key \in Keys
    BY <1>1 DEF Connected, TypeOK, Conn
  <2>2. PICK ok \in BOOLEAN :
          /\ IF ok THEN Fine ELSE wgReady /\ Fault
          /\ RemovePeer(conns[id].key, ~ok)
          /\ conns' = [conns EXCEPT ![id] = NONE]
          /\ moved' = moved \ {id}
          /\ dropped' = IF ok THEN dropped ELSE dropped \cup {conns[id].key}
    BY <1>11 DEF disconnectPeer
  <2>3. TunnelTypeOK'
    BY <1>1, <2>1, <2>2, RemovePeerTyped DEF TypeOK
  <2> QED
    BY <1>1, <2>1, <2>2, <2>3 DEF Fault, Fine, TypeOK
<1>12. ASSUME NEW id \in Ids, SyncRemove(id), id \in Connected PROVE TypeOK'
  <2>1. sync' \in SyncStates
    BY <1>1, <1>12 DEF SyncRemove, At, TypeOK, SyncStates
  <2> QED
    BY <1>1, <1>11, <1>12, <2>1 DEF SyncRemove, TypeOK
<1>13. ASSUME NEW id \in Ids, StopDisconnects(id) PROVE TypeOK'
  BY <1>1, <1>11, <1>13 DEF StopDisconnects, TypeOK
<1>14. CASE Probe
  <2>1. {[id |-> id, via |-> conns[id].via] : id \in Connected} \in SUBSET Probes
    BY <1>1 DEF Connected, TypeOK, Conn, Probes
  <2>2. quality' \in QualityStates
    BY <1>14, <2>1, NextProbeTyped DEF Probe
  <2> QED
    BY <1>1, <1>14, <2>2 DEF Probe, tunnelVars, TypeOK, TunnelTypeOK
<1>15. ASSUME NEW id \in Ids, NEW via \in Vias, Skip([id |-> id, via |-> via]) PROVE TypeOK'
  <2>1. quality.todo \in SUBSET Probes
    BY <1>1, <1>15 DEF Skip, Probing, TypeOK, QualityStates
  <2>2. quality' \in QualityStates
    BY <1>15, <2>1, NextProbeTyped DEF Skip
  <2> QED
    BY <1>1, <1>15, <2>2 DEF Skip, tunnelVars, TypeOK, TunnelTypeOK
<1>16. ASSUME NEW id \in Ids, NEW via \in Vias, NEW to \in Target, Probing([id |-> id, via |-> via]),
              Decide([id |-> id, via |-> via], to)
       PROVE  TypeOK'
  <2>1. quality.todo \in SUBSET Probes
    BY <1>1, <1>16 DEF Probing, TypeOK, QualityStates
  <2>2. conns[id].key \in Keys
    BY <1>1, <1>16 DEF Decide, TypeOK, Conn
  <2>3. quality' \in QualityStates
    BY <1>16, <2>1, <2>2 DEF Decide, QualityStates
  <2> QED
    BY <1>1, <1>16, <2>3 DEF Decide, tunnelVars, TypeOK, TunnelTypeOK
<1>17. ASSUME NEW id \in Ids, NEW via \in Vias, AttemptDirect([id |-> id, via |-> via]) PROVE TypeOK'
  <2>1. \A i \in list : [endpoint |-> preferIPv4(i), via |-> "p2p"] \in Target
    BY <1>1, ListedHosts DEF TypeOK, Lists, Target, Vias
  <2> QED
    BY <1>16, <1>17, <2>1 DEF AttemptDirect
<1>18. ASSUME NEW id \in Ids, NEW via \in Vias, NEW relay \in RelayHosts,
              ForceRelay([id |-> id, via |-> via], relay)
       PROVE TypeOK'
  <2>1. [endpoint |-> resolveRelayEndpoint(relay), via |-> "relay"] \in Target
    BY <1>18, RelayTarget DEF ForceRelay, Reachable
  <2> QED
    BY <1>16, <1>18, <2>1 DEF ForceRelay
<1>19. CASE QualityUpdate
  <2>1. /\ quality.id \in Ids /\ quality.key \in Keys /\ quality.to.endpoint \in Hosts
        /\ quality.todo \in SUBSET Probes
        /\ [quality EXCEPT !.pc = "record"] \in QualityStates
    BY <1>1, <1>19 DEF QualityUpdate, TypeOK, QualityStates, Target
  <2>2. wgReady /\ wpeers[quality.key] # NONE => kernel[quality.key] # NONE
    BY <1>19, <2>1 DEF QualityUpdate, PInv, Ended, Installed
  <2>3. TunnelTypeOK'
    BY <1>1, <1>19, <2>1, <2>2, UpdateTyped DEF QualityUpdate, TypeOK
  <2>4. quality' \in QualityStates /\ torn' \subseteq Ids /\ faults' \in Nat
    BY <1>1, <1>19, <2>1, NextProbeTyped DEF QualityUpdate, Fault, Fine, TypeOK
  <2> QED
    BY <1>1, <1>19, <2>3, <2>4 DEF QualityUpdate, TypeOK
<1>20. CASE QualityRecord
  <2>1. quality.id \in Ids /\ quality.to \in Target /\ quality.todo \in SUBSET Probes
    BY <1>1, <1>20 DEF QualityRecord, TypeOK, QualityStates
  <2>2. conns' \in [Ids -> Conn \cup {NONE}] /\ quality' \in QualityStates
    BY <1>1, <1>20, <2>1, RecordTyped, NextProbeTyped DEF QualityRecord
  <2> QED
    BY <1>1, <1>20, <2>2 DEF QualityRecord, tunnelVars, TypeOK, TunnelTypeOK
<1>21. CASE Leave \/ ReaderExits \/ ManagerStop \/ SyncExits
  BY <1>1, <1>21 DEF Leave, ReaderExits, ManagerStop, SyncExits, tunnelVars, TypeOK,
     TunnelTypeOK
<1>22. CASE TunnelStops
  <2>1. \/ TunnelStop(FALSE) /\ Fine
        \/ TunnelStop(TRUE) /\ Fault
    BY <1>22 DEF TunnelStops
  <2>2. TunnelStop(FALSE) => TunnelTypeOK'
    BY <1>1 DEF TunnelStop, NoPeers, TypeOK, TunnelTypeOK
  <2>3. TunnelStop(TRUE) => TunnelTypeOK'
    BY <1>1 DEF TunnelStop, TypeOK, TunnelTypeOK
  <2>4. Fine \/ Fault
    BY <2>1
  <2>5. faults' \in Nat
    BY <1>1, <2>4 DEF Fault, Fine, TypeOK
  <2> QED
    BY <1>1, <1>22, <2>1, <2>2, <2>3, <2>5 DEF TunnelStops, TypeOK
<1>23. ASSUME NEW id \in Ids, SyncRemove(id) PROVE id \in Connected
  BY <1>23 DEF SyncRemove, At, PInv, SyncKnows
<1> QED
  BY <1>2, <1>3, <1>4, <1>5, <1>6, <1>7, <1>8, <1>9, <1>10, <1>12, <1>13, <1>14, <1>15, <1>17,
     <1>18, <1>19, <1>20, <1>21, <1>22, <1>23
     DEF Next, Syncing, Monitoring, Stopping, Terminated

-----------------------------------------------------------------------------
(* Steps that leave the connections and the tunnel alone *)

\* A key is one peer's.
LEMMA OneOwner ==
    ASSUME Owner, NEW p \in Connected, NEW q \in Connected, conns[p].key = conns[q].key
    PROVE  p = q
BY PeerManagerAssumption DEF Owner

\* What follows from the connections and the tunnel alone.
LEMMA Untouched ==
    ASSUME PInv, UNCHANGED <<conns, dropped, tunnelVars>>, phase = "stopped" => phase' = "stopped",
           faults' = 0 => faults = 0
    PROVE  /\ Connected' = Connected /\ Installed' /\ ManagedAndInstalled' /\ DialsReachable'
           /\ \A id \in Connected' :
                \E i \in Infos : i.id = id /\ i.key = conns'[id].key /\ i.vip = conns'[id].vip
<1>1. Connected' = Connected
  BY DEF Connected
<1>2. Installed' /\ ManagedAndInstalled'
  BY <1>1 DEF tunnelVars, PInv, Installed, ManagedAndInstalled
<1>3. DialsReachable'
  BY DEF tunnelVars, PInv, DialsReachable
<1> QED
  BY <1>1, <1>2, <1>3 DEF PInv, Owner

\* The sync goroutine moves on, outside the two steps of an update.
LEMMA SyncMoves ==
    ASSUME PInv, TypeOK',
           UNCHANGED <<list, conns, quality, phase, torn, dropped, tunnelVars>>,
           faults' = 0 => faults = 0,
           sync.pc # "record", sync'.pc # "record",
           phase \in {"running", "leaving", "cancelled"},
           Lists_Distinct', SyncKnows', Routed', Kept', Dials'
    PROVE  PInv'
<1>1. /\ Connected' = Connected /\ Installed' /\ ManagedAndInstalled' /\ DialsReachable'
      /\ \A id \in Connected' :
            \E i \in Infos : i.id = id /\ i.key = conns'[id].key /\ i.vip = conns'[id].vip
  BY Untouched
<1>2. Owner'
  BY <1>1 DEF PInv, Owner
<1>3. Ended'
  BY DEF tunnelVars, PInv, Ended
<1>4. UpdateUnderWay' /\ RecordedEndpointUsed'
  BY <1>1 DEF tunnelVars, PInv, UpdateUnderWay, RecordedEndpointUsed, QualityBetween
<1> QED
  BY <1>1, <1>2, <1>3, <1>4 DEF PInv

\* The quality loop moves on, likewise.
LEMMA QualityMoves ==
    ASSUME PInv, TypeOK',
           UNCHANGED <<list, conns, sync, phase, torn, dropped, moved, faults, tunnelVars>>,
           quality.pc # "record", quality'.pc # "record",
           phase \in {"running", "leaving"},
           quality'.pc = "update" =>
             /\ \E i \in Infos : i.id = quality'.id /\ i.key = quality'.key
             /\ wgReady => quality'.to \in Reachable /\ NotOwn(quality'.to)
    PROVE  PInv'
<1>1. /\ Connected' = Connected /\ Installed' /\ ManagedAndInstalled' /\ DialsReachable'
      /\ \A id \in Connected' :
            \E i \in Infos : i.id = id /\ i.key = conns'[id].key /\ i.vip = conns'[id].vip
  BY Untouched
<1>2. Owner'
  BY <1>1 DEF Owner
<1>3. Ended' /\ Lists_Distinct' /\ SyncKnows'
  BY <1>1 DEF tunnelVars, PInv, Ended, Lists_Distinct, SyncKnows
<1>4. UpdateUnderWay' /\ RecordedEndpointUsed'
  BY <1>1 DEF tunnelVars, PInv, UpdateUnderWay, RecordedEndpointUsed, QualityBetween
<1>5. Routed' /\ Kept'
  BY <1>1 DEF tunnelVars, PInv, Routed, Kept, Settled
<1>6. Dials'
  BY DEF tunnelVars, PInv, Dials, NotOwn
<1> QED
  BY <1>1, <1>2, <1>3, <1>4, <1>5, <1>6 DEF PInv

\* The agent's phase or the server's list changes.
LEMMA PhaseMoves ==
    ASSUME PInv, TypeOK', Ended', Distinct(list'), phase = "stopped" => phase' = "stopped",
           UNCHANGED <<conns, sync, quality, torn, dropped, moved, faults, tunnelVars>>
    PROVE  PInv'
<1>1. /\ Connected' = Connected /\ Installed' /\ ManagedAndInstalled' /\ DialsReachable'
      /\ \A id \in Connected' :
            \E i \in Infos : i.id = id /\ i.key = conns'[id].key /\ i.vip = conns'[id].vip
  BY Untouched
<1>2. Owner' /\ Lists_Distinct' /\ SyncKnows'
  BY <1>1 DEF PInv, Owner, Lists_Distinct, SyncKnows
<1>3. UpdateUnderWay' /\ RecordedEndpointUsed'
  BY <1>1 DEF tunnelVars, PInv, UpdateUnderWay, RecordedEndpointUsed, QualityBetween
<1>4. Routed' /\ Kept'
  BY <1>1 DEF tunnelVars, PInv, Routed, Kept, Settled
<1>5. Dials'
  BY DEF tunnelVars, PInv, Dials, NotOwn
<1> QED
  BY <1>1, <1>2, <1>3, <1>4, <1>5 DEF PInv

\* Tick and Fetch: all connections are settled before a sync.
LEMMA BeginsKeep == PInv /\ TypeOK' /\ (Tick \/ Fetch) => PInv'
<1> SUFFICES ASSUME PInv, TypeOK', Tick \/ Fetch PROVE PInv'
    OBVIOUS
<1>1. /\ UNCHANGED <<list, conns, quality, phase, torn, dropped, tunnelVars>>
      /\ faults' = 0 => faults = 0
      /\ sync.pc \in {"idle", "fetch"} /\ phase \in {"running", "leaving", "cancelled"}
      /\ moved \subseteq moved'
  BY DEF Tick, Fetch, Idle, At, Fine, Fault, PInv, TypeOK, Ended
<1>2. sync'.pc \in {"idle", "fetch"} \/ (/\ sync'.pc = "next" /\ sync'.list = list
                                         /\ sync'.todo = ListedIds(list))
  BY DEF Tick, Fetch, Idle, ListedIds
<1>3. Lists_Distinct' /\ SyncKnows'
  BY <1>1, <1>2 DEF PInv, Lists_Distinct, SyncKnows
<1>4. Connected' = Connected
  BY <1>1 DEF Connected
<1>5. Routed'
  BY <1>1, <1>4 DEF tunnelVars, PInv, Routed, Settled
<1>6. Dials'
  BY <1>1, <1>2 DEF tunnelVars, PInv, Dials
<1>7. Kept'
  <2>1. CASE sync'.pc \in {"idle", "fetch"}
    BY <2>1 DEF Kept
  <2>2. CASE sync'.pc = "next"
    <3>1. /\ sync'.list = list
          /\ moved' = moved \cup {id \in Connected :
                                   \E i \in list : i.id = id /\ i.vip # conns[id].vip}
      BY <2>2 DEF Tick, Fetch, Idle
    <3> QED
      BY <1>1, <1>4, <3>1 DEF Kept
  <2> QED
    BY <1>2, <2>1, <2>2
<1> QED
  BY <1>1, <1>2, <1>3, <1>5, <1>6, <1>7, SyncMoves

\* SyncPeer: what is to be done with a listed peer.
LEMMA SyncPeerKeeps ==
    ASSUME PInv, TypeOK', NEW id \in Ids, NEW relay \in RelayHosts \cup {NONE}, SyncPeer(id, relay)
    PROVE  PInv'
<1> DEFINE c == Chosen(Info(id), relay)
<1>1. TypeOK /\ sync.pc = "next" /\ id \in sync.todo /\ sync.list \in Lists
  BY DoneTyped DEF SyncPeer, At, PInv, TypeOK
<1>2. id \in ListedIds(sync.list) /\ Info(id) \in Infos /\ Distinct(sync.list)
      /\ sync.todo \subseteq ListedIds(sync.list)
  BY <1>1, InfoListed DEF PInv, Lists_Distinct, Lists
<1>3. /\ UNCHANGED <<list, conns, quality, phase, torn, dropped, moved, tunnelVars>>
      /\ faults' = 0 => faults = 0
      /\ phase \in {"running", "leaving", "cancelled"}
  BY <1>1 DEF SyncPeer, RelayAnswer, Fine, Fault, PInv, TypeOK, Ended
<1>4. Done(id).pc = "next" /\ Done(id).list = sync.list /\ Done(id).todo = sync.todo \ {id}
  BY <1>1, DoneTyped DEF TypeOK
<1>5. /\ sync'.pc \in {"next", "add", "update"}
      /\ sync'.list = sync.list /\ sync'.todo = sync.todo \ {id}
      /\ sync'.pc \in {"add", "update"} => sync'.id = id /\ c.endpoint # NONE
      /\ sync'.pc = "add" => conns[id] = NONE /\ sync'.candidates = Candidates(Info(id), c)
      /\ sync'.pc = "update" => conns[id] # NONE /\ sync'.to = c
  BY <1>4 DEF SyncPeer, NeedsUpdate
<1>6. Lists_Distinct'
  BY <1>2, <1>3, <1>5 DEF PInv, Lists_Distinct
<1>7. c.endpoint # NONE => NotOwn(c) /\ Candidates(Info(id), c) # <<>>
                           /\ Head(Candidates(Info(id), c)) = c
  BY <1>2, ChosenTarget, CandidatesReachable
<1>8. SyncKnows'
  BY <1>3, <1>5, <1>7 DEF SyncKnows
<1>9. Connected' = Connected
  BY <1>3 DEF Connected
<1>10. Routed' /\ Kept'
  BY <1>1, <1>3, <1>5, <1>9 DEF tunnelVars, PInv, Routed, Kept, Settled
<1> HIDE DEF c
<1>11. Dials'
  BY <1>3, <1>5, <1>7 DEF tunnelVars, PInv, Dials, NotOwn
<1> QED
  BY <1>1, <1>3, <1>5, <1>6, <1>8, <1>10, <1>11, SyncMoves

\* The removals are found, and when they are done all connections are settled.
LEMMA RemovalsKeep == PInv /\ TypeOK' /\ (SyncRemovals \/ SyncEnds) => PInv'
<1> SUFFICES ASSUME PInv, TypeOK', SyncRemovals \/ SyncEnds PROVE PInv'
    OBVIOUS
<1>1. /\ UNCHANGED <<list, conns, quality, phase, torn, dropped, moved, faults, tunnelVars>>
      /\ sync.pc \in {"next", "remove"} /\ phase \in {"running", "leaving", "cancelled"}
  BY DEF SyncRemovals, SyncEnds, At, PInv, TypeOK, Ended
<1>2. \/ /\ sync.pc = "next" /\ sync'.pc = "remove"
         /\ sync'.ids = {id \in Connected : id \notin ListedIds(sync.list)}
      \/ sync.pc = "remove" /\ sync.ids = {} /\ sync'.pc = "idle"
  BY DEF SyncRemovals, SyncEnds, At, Idle, Listed, ListedIds
<1>3. Connected' = Connected
  BY <1>1 DEF Connected
<1>4. Lists_Distinct' /\ SyncKnows'
  BY <1>1, <1>2, <1>3 DEF PInv, Lists_Distinct, SyncKnows
<1>5. Routed' /\ Kept'
  BY <1>1, <1>2, <1>3 DEF tunnelVars, PInv, Routed, Kept, Settled
<1>6. Dials'
  BY <1>1, <1>2 DEF tunnelVars, PInv, Dials
<1> QED
  BY <1>1, <1>2, <1>4, <1>5, <1>6, SyncMoves

\* Probe, Skip: connections to look at are taken up and left.
LEMMA ProbesKeep ==
    ASSUME PInv, TypeOK',
           Probe \/ \E id \in Ids, via \in Vias : Skip([id |-> id, via |-> via])
    PROVE  PInv'
<1>1. \A todo : NextProbe(todo).pc \in {"idle", "probing"}
  BY DEF NextProbe, Idle
<1>2. CASE Probe
  BY <1>1, <1>2, QualityMoves DEF Probe, Idle
<1>3. ASSUME NEW id \in Ids, NEW via \in Vias, Skip([id |-> id, via |-> via]) PROVE PInv'
  <2>1. quality.pc = "probing" /\ quality'.pc \in {"idle", "probing"}
    BY <1>1, <1>3 DEF Skip, Probing
  <2>2. phase \in {"running", "leaving"}
    BY <2>1 DEF PInv, Ended, TypeOK
  <2> QED
    BY <1>3, <2>1, <2>2, QualityMoves DEF Skip
<1> QED
  BY <1>2, <1>3

\* A connection is to be moved by the quality loop.
LEMMA DecideKeeps ==
    ASSUME PInv, TypeOK', NEW id \in Ids, NEW via \in Vias, NEW to \in Target,
           Probing([id |-> id, via |-> via]), Decide([id |-> id, via |-> via], to),
           wgReady => to \in Reachable /\ NotOwn(to)
    PROVE  PInv'
<1>1. quality.pc = "probing" /\ id \in Connected
  BY DEF Probing, Decide, Connected
<1>2. quality'.pc = "update" /\ quality'.id = id /\ quality'.key = conns[id].key /\ quality'.to = to
  BY DEF Decide
<1>3. \E i \in Infos : i.id = id /\ i.key = conns[id].key
  BY <1>1 DEF PInv, Owner
<1>4. phase \in {"running", "leaving"}
  BY <1>1 DEF PInv, Ended, TypeOK
<1> QED
  BY <1>1, <1>2, <1>3, <1>4, QualityMoves DEF Decide

\* ForceRelay, AttemptDirect: the latter only without WireGuard.
LEMMA DecisionsKeep ==
    ASSUME PInv, TypeOK', NEW id \in Ids, NEW via \in Vias,
           \/ AttemptDirect([id |-> id, via |-> via])
           \/ \E relay \in RelayHosts : ForceRelay([id |-> id, via |-> via], relay)
    PROVE  PInv'
<1>1. CASE AttemptDirect([id |-> id, via |-> via])
  <2>1. \A i \in list : [endpoint |-> preferIPv4(i), via |-> "p2p"] \in Target
    BY ListedHosts DEF PInv, TypeOK, Lists, Target, Vias
  <2> QED
    BY <1>1, <2>1, DecideKeeps DEF AttemptDirect
<1>2. ASSUME NEW relay \in RelayHosts, ForceRelay([id |-> id, via |-> via], relay) PROVE PInv'
  <2> DEFINE to == [endpoint |-> resolveRelayEndpoint(relay), via |-> "relay"]
  <2>1. to \in Reachable /\ NotOwn(to)
    BY <1>2, RelayTarget DEF ForceRelay
  <2>2. to \in Target
    BY <2>1 DEF Reachable
  <2> HIDE DEF to
  <2>3. Probing([id |-> id, via |-> via]) /\ Decide([id |-> id, via |-> via], to)
    BY <1>2 DEF ForceRelay, to
  <2> QED
    BY <2>1, <2>2, <2>3, DecideKeeps
<1> QED
  BY <1>1, <1>2

\* Leave, ReaderExits, ManagerStop, SyncExits, and the server's changes.
LEMMA PhasesKeep ==
    ASSUME PInv, TypeOK', Leave \/ ReaderExits \/ ManagerStop \/ SyncExits \/ Relist
    PROVE  PInv'
<1>1. /\ UNCHANGED <<conns, sync, quality, torn, dropped, moved, faults, tunnelVars>>
      /\ phase # "stopped" /\ phase' # "stopped"
  BY DEF Leave, ReaderExits, ManagerStop, LoopsEnded, SyncExits, Relist
<1>2. Distinct(list')
  BY DEF Leave, ReaderExits, ManagerStop, SyncExits, Relist, Distinct, PInv, Lists_Distinct
<1>3. Ended'
  BY <1>1 DEF Leave, ReaderExits, ManagerStop, LoopsEnded, SyncExits, Relist, Idle, tunnelVars,
     PInv, Ended
<1> QED
  BY <1>1, <1>2, <1>3, PhaseMoves

-----------------------------------------------------------------------------
(* A new connection *)

\* AddPeer sets up one key; others can lose only the address it claims.
LEMMA AddPeerEffect ==
    ASSUME TunnelTypeOK, NEW k \in Keys, NEW e \in Hosts, NEW ip \in Addresses,
           NEW f \in {"none", "wg", "route"}, AddPeer(k, e, ip, f)
    PROVE  /\ started' = started /\ wgReady' = wgReady
           /\ \A j \in Keys \ {k} :
                /\ wpeers'[j] = wpeers[j]
                /\ kernel'[j] = NONE <=> kernel[j] = NONE
                /\ kernel[j] # NONE => /\ kernel'[j].endpoint = kernel[j].endpoint
                                       /\ kernel[j].ip # ip => kernel'[j].ip = kernel[j].ip
           /\ IF f = "none" THEN wpeers'[k] # NONE /\ wpeers'[k].endpoint = e
              ELSE wpeers' = wpeers
           /\ IF wgReady /\ f # "wg"
              THEN kernel'[k] # NONE /\ kernel'[k].endpoint = e /\ kernel'[k].ip = ip
              ELSE kernel' = kernel
<1>1. [endpoint |-> e, ip |-> ip] \in Entry /\ [endpoint |-> e, ip |-> ip] # NONE
  BY PeerManagerAssumption DEF Entry
<1>2. ASSUME NEW j \in Keys, kernel[j] # NONE
      PROVE  /\ [kernel[j] EXCEPT !.ip = NONE] # NONE
             /\ [kernel[j] EXCEPT !.ip = NONE].endpoint = kernel[j].endpoint
  <2>1. kernel[j] \in Entry
    BY <1>2 DEF TunnelTypeOK
  <2>2. [kernel[j] EXCEPT !.ip = NONE] \in Entry
    BY <2>1 DEF Entry
  <2> QED
    BY <2>1, <2>2, PeerManagerAssumption DEF Entry
<1>3. CASE wgReady /\ f # "wg"
  <2>1. kernel' = KernelAdd(k, e, ip)
    BY <1>3 DEF AddPeer
  <2>2. kernel'[k] = [endpoint |-> e, ip |-> ip]
    BY <2>1 DEF KernelAdd
  <2>3. \A j \in Keys \ {k} :
            /\ kernel'[j] = NONE <=> kernel[j] = NONE
            /\ kernel[j] # NONE => /\ kernel'[j].endpoint = kernel[j].endpoint
                                   /\ kernel[j].ip # ip => kernel'[j].ip = kernel[j].ip
    BY <1>2, <2>1 DEF KernelAdd
  <2> QED
    BY <1>1, <1>3, <2>2, <2>3 DEF AddPeer, TunnelTypeOK
<1>4. CASE ~(wgReady /\ f # "wg")
  BY <1>1, <1>4 DEF AddPeer, TunnelTypeOK
<1> QED
  BY <1>3, <1>4

\* The peer that is added: no connection has its key, and none that stays its address.
LEMMA Newcomer ==
    ASSUME PInv, sync.pc = "add"
    PROVE  /\ sync.id \in Ids \ Connected /\ sync.id \in ListedIds(sync.list)
           /\ Info(sync.id) \in Infos /\ Info(sync.id).id = sync.id
           /\ \A p \in Connected :
                /\ conns[p].key # Info(sync.id).key
                /\ p \in ListedIds(sync.list) \ moved => conns[p].vip # Info(sync.id).vip
           /\ Head(sync.candidates) \in Reachable
           /\ phase \in {"running", "leaving", "cancelled"}
<1>1. sync.id \in Ids /\ sync.list \in Lists /\ sync.candidates \in Seq(Reachable)
  BY DEF PInv, TypeOK, SyncStates
<1>2. sync.id \in ListedIds(sync.list) /\ conns[sync.id] = NONE /\ sync.candidates # <<>>
      /\ Distinct(sync.list)
  BY DEF PInv, Lists_Distinct, SyncKnows
<1>3. Info(sync.id) \in sync.list /\ Info(sync.id).id = sync.id /\ Info(sync.id) \in Infos
  BY <1>1, <1>2, InfoListed DEF Lists
<1>4. ASSUME NEW p \in Connected
      PROVE  /\ conns[p].key # Info(sync.id).key
             /\ p \in ListedIds(sync.list) \ moved => conns[p].vip # Info(sync.id).vip
  <2>1. PICK j \in Infos : j.id = p /\ j.key = conns[p].key
    BY DEF PInv, Owner
  <2>2. p # sync.id
    BY <1>2 DEF Connected
  <2>3. conns[p].key # Info(sync.id).key
    BY <1>3, <2>1, <2>2, PeerManagerAssumption
  <2>4. ASSUME NEW l \in sync.list, l.id = p, p \notin moved PROVE conns[p].vip # Info(sync.id).vip
    <3>1. conns[p].vip = l.vip
      BY <2>4 DEF PInv, Kept
    <3> QED
      BY <1>2, <1>3, <2>2, <2>4, <3>1 DEF Distinct
  <2> QED
    BY <2>3, <2>4 DEF ListedIds
<1>5. Head(sync.candidates) \in Reachable
  BY <1>1, <1>2
<1>6. phase \in {"running", "leaving", "cancelled"}
  BY DEF PInv, TypeOK, Ended
<1> QED
  BY <1>1, <1>2, <1>3, <1>4, <1>5, <1>6 DEF Connected

\* AddPeer succeeds: the peer is connected.
LEMMA SyncAddSucceeds ==
    ASSUME PInv, TypeOK', NEW i, NEW c, i = Info(sync.id), c = Head(sync.candidates),
           sync.pc = "add", AddPeer(i.key, c.endpoint, i.vip, "none"),
           conns' = [conns EXCEPT ![sync.id] =
                       [key |-> i.key, vip |-> i.vip, endpoint |-> c.endpoint, via |-> c.via]],
           sync' = Done(sync.id),
           torn' = IF QualityBetween(sync.id) THEN torn \cup {sync.id} ELSE torn \ {sync.id},
           UNCHANGED <<faults, dropped, moved, list, quality, phase>>
    PROVE  PInv'
<1> DEFINE id == sync.id
           k == i.key
           n == [key |-> i.key, vip |-> i.vip, endpoint |-> c.endpoint, via |-> c.via]
<1>1. TypeOK /\ TunnelTypeOK
  BY DEF PInv, TypeOK
<1>2. /\ id \in Ids \ Connected /\ id \in ListedIds(sync.list) /\ i \in Infos /\ i.id = id
      /\ \A p \in Connected : /\ conns[p].key # k
                              /\ p \in ListedIds(sync.list) \ moved => conns[p].vip # i.vip
      /\ c \in Reachable /\ phase \in {"running", "leaving", "cancelled"}
  BY Newcomer
<1>3. n \in Conn /\ i.vip \in Addresses /\ k \in Keys /\ c.endpoint \in Hosts
      /\ c.endpoint \notin Internal
  BY <1>2, NewConn DEF Reachable
<1>4. n # NONE /\ n.key = k /\ n.vip = i.vip /\ n.endpoint = c.endpoint
  BY <1>3, PeerManagerAssumption
<1> HIDE DEF n
<1>5. conns'[id] = n /\ \A p \in Ids \ {id} : conns'[p] = conns[p]
  BY <1>1, <1>2 DEF TypeOK, n
<1>6. Connected' = Connected \cup {id}
  BY <1>2, <1>4, <1>5 DEF Connected
<1>7. \A p \in Connected : p # id /\ p \in Ids /\ conns'[p] = conns[p]
  BY <1>2, <1>5 DEF Connected
<1>8. /\ started' = started /\ wgReady' = wgReady
      /\ \A j \in Keys \ {k} :
            /\ wpeers'[j] = wpeers[j]
            /\ kernel'[j] = NONE <=> kernel[j] = NONE
            /\ kernel[j] # NONE => /\ kernel'[j].endpoint = kernel[j].endpoint
                                   /\ kernel[j].ip # i.vip => kernel'[j].ip = kernel[j].ip
      /\ wpeers'[k] # NONE /\ wpeers'[k].endpoint = c.endpoint
      /\ wgReady => kernel'[k] # NONE /\ kernel'[k].endpoint = c.endpoint /\ kernel'[k].ip = i.vip
      /\ ~wgReady => kernel' = kernel
  BY <1>1, <1>3, AddPeerEffect
<1>9. sync'.pc = "next" /\ sync'.list = sync.list /\ sync'.todo \subseteq sync.todo
  BY <1>1, <1>2, DoneTyped DEF TypeOK
<1>10. \A p \in Connected : conns[p].key \in Keys \ {k}
  BY <1>1, <1>2 DEF Connected, TypeOK, Conn
<1>11. Ended' /\ Lists_Distinct' /\ SyncKnows'
  BY <1>2, <1>8, <1>9 DEF PInv, Ended, Lists_Distinct, SyncKnows
<1>12. Owner'
  <2>1. \A p \in Connected' :
          \E j \in Infos : j.id = p /\ j.key = conns'[p].key /\ j.vip = conns'[p].vip
    BY <1>2, <1>4, <1>5, <1>6, <1>7 DEF PInv, Owner
  <2> QED
    BY <2>1 DEF PInv, Owner
<1>13. Installed'
  BY <1>2, <1>8 DEF PInv, Installed
<1>14. UpdateUnderWay'
  <2>1. ASSUME quality.pc = "record", quality.id \in Connected' \ torn'
        PROVE  wpeers'[conns'[quality.id].key].endpoint = quality.to.endpoint
    <3>1. quality.id # id
      BY <2>1 DEF QualityBetween
    <3>2. quality.id \in Connected \ torn
      BY <1>6, <2>1, <3>1
    <3> QED
      BY <1>7, <1>8, <1>10, <2>1, <3>2 DEF PInv, UpdateUnderWay
  <2> QED
    BY <1>9, <2>1 DEF UpdateUnderWay
<1>15. Routed'
  <2>1. ASSUME wgReady, NEW p \in Connected' \ moved, p \in ListedIds(sync.list)
        PROVE  kernel'[conns'[p].key].ip = conns'[p].vip
    <3>1. CASE p = id
      BY <1>4, <1>5, <1>8, <2>1, <3>1
    <3>2. CASE p # id
      <4>1. p \in Connected /\ conns'[p] = conns[p] /\ conns[p].key \in Keys \ {k}
        BY <1>6, <1>7, <1>10, <3>2
      <4>2. kernel[conns[p].key] # NONE /\ kernel[conns[p].key].ip = conns[p].vip
        BY <2>1, <4>1 DEF PInv, ManagedAndInstalled, Routed, Settled
      <4> QED
        BY <1>2, <1>8, <2>1, <4>1, <4>2
    <3> QED
      BY <3>1, <3>2
  <2> QED
    BY <1>8, <1>9, <2>1 DEF Routed, Settled
<1>16. Dials'
  BY <1>8, <1>9 DEF PInv, Dials, NotOwn
<1>17. ManagedAndInstalled'
  <2>1. ASSUME NEW p \in Connected'
        PROVE  wpeers'[conns'[p].key] # NONE /\ (wgReady' => kernel'[conns'[p].key] # NONE)
    BY <1>4, <1>5, <1>6, <1>7, <1>8, <1>10 DEF PInv, ManagedAndInstalled
  <2>2. ASSUME NEW j \in Keys \ dropped, wpeers'[j] # NONE \/ kernel'[j] # NONE
        PROVE  \E p \in Connected' : conns'[p].key = j
    <3>1. CASE j = k
      BY <1>4, <1>5, <1>6, <3>1
    <3>2. CASE j # k
      <4>1. wpeers[j] # NONE \/ kernel[j] # NONE
        BY <1>8, <2>2, <3>2
      <4>2. PICK p \in Connected : conns[p].key = j
        BY <4>1 DEF PInv, ManagedAndInstalled
      <4> QED
        BY <1>6, <1>7, <4>2
    <3> QED
      BY <3>1, <3>2
  <2> QED
    BY <2>1, <2>2 DEF ManagedAndInstalled
<1>18. RecordedEndpointUsed'
  <2>1. ASSUME NEW p \in Connected' \ torn'
        PROVE  wpeers'[conns'[p].key].endpoint = conns'[p].endpoint \/ QualityBetween(p)'
    <3>1. CASE p = id
      BY <1>4, <1>5, <1>8, <3>1
    <3>2. CASE p # id
      <4>1. p \in Connected \ torn
        BY <1>6, <2>1, <3>2
      <4>2. wpeers[conns[p].key].endpoint = conns[p].endpoint \/ QualityBetween(p)
        BY <4>1 DEF PInv, RecordedEndpointUsed
      <4> QED
        BY <1>7, <1>8, <1>10, <4>1, <4>2 DEF QualityBetween
    <3> QED
      BY <3>1, <3>2
  <2> QED
    BY <2>1 DEF RecordedEndpointUsed
<1>19. DialsReachable'
  <2>1. faults = 0 => NotOwn(c)
    BY DEF PInv, Dials
  <2>2. ASSUME NEW j \in Keys, kernel'[j] # NONE
        PROVE  /\ kernel'[j].endpoint \notin Internal
               /\ faults' = 0 /\ OwnHost \notin OnLAN \cup RelayHosts \cup {PublicHost} =>
                    kernel'[j].endpoint # OwnHost
    <3>1. CASE j = k /\ wgReady
      BY <1>3, <1>8, <2>1, <3>1 DEF NotOwn
    <3>2. CASE ~(j = k /\ wgReady)
      <4>1. kernel[j] # NONE /\ kernel'[j].endpoint = kernel[j].endpoint
        BY <1>8, <2>2, <3>2
      <4> QED
        BY <4>1 DEF PInv, DialsReachable
    <3> QED
      BY <3>1, <3>2
  <2> QED
    BY <2>2 DEF DialsReachable
<1>20. Kept'
  <2>1. ASSUME NEW j \in sync.list, j.id \in Connected' \ moved PROVE conns'[j.id].vip = j.vip
    <3>1. CASE j.id = id
      <4>1. i \in sync.list /\ Distinct(sync.list)
        BY <1>2, InfoListed DEF PInv, Lists_Distinct
      <4> QED
        BY <1>2, <1>4, <1>5, <3>1, <4>1 DEF Distinct
    <3>2. CASE j.id # id
      BY <1>6, <1>7, <2>1, <3>2 DEF PInv, Kept
    <3> QED
      BY <3>1, <3>2
  <2> QED
    BY <1>9, <2>1 DEF Kept
<1> QED
  BY <1>11, <1>12, <1>13, <1>14, <1>15, <1>16, <1>17, <1>18, <1>19, <1>20 DEF PInv

\* AddPeer fails, before or after the kernel has the peer.
LEMMA SyncAddFails ==
    ASSUME PInv, TypeOK', NEW i, NEW c, i = Info(sync.id), c = Head(sync.candidates),
           sync.pc = "add", NEW f \in {"wg", "route"}, AddPeer(i.key, c.endpoint, i.vip, f),
           dropped' = IF f = "route" THEN dropped \cup {i.key} ELSE dropped,
           sync' = IF Tail(sync.candidates) = <<>> THEN Done(sync.id)
                   ELSE [sync EXCEPT !.candidates = Tail(sync.candidates)],
           faults' = faults + 1, UNCHANGED <<conns, torn, moved, list, quality, phase>>
    PROVE  PInv'
<1> DEFINE id == sync.id
           k == i.key
<1>1. TypeOK /\ TunnelTypeOK /\ faults' # 0
  BY DEF PInv, TypeOK
<1>2. /\ id \in Ids \ Connected /\ id \in ListedIds(sync.list) /\ i \in Infos /\ i.id = id
      /\ \A p \in Connected : /\ conns[p].key # k
                              /\ p \in ListedIds(sync.list) \ moved => conns[p].vip # i.vip
      /\ c \in Reachable /\ phase \in {"running", "leaving", "cancelled"}
  BY Newcomer
<1>3. i.vip \in Addresses /\ k \in Keys /\ c.endpoint \in Hosts /\ c.endpoint \notin Internal
  BY <1>2, NewConn DEF Reachable
<1>4. Connected' = Connected
  BY DEF Connected
<1>5. /\ started' = started /\ wgReady' = wgReady /\ wpeers' = wpeers
      /\ \A j \in Keys \ {k} :
            /\ kernel'[j] = NONE <=> kernel[j] = NONE
            /\ kernel[j] # NONE => /\ kernel'[j].endpoint = kernel[j].endpoint
                                   /\ kernel[j].ip # i.vip => kernel'[j].ip = kernel[j].ip
      /\ wgReady /\ f = "route" => kernel'[k] # NONE /\ kernel'[k].endpoint = c.endpoint
      /\ ~(wgReady /\ f = "route") => kernel' = kernel
  BY <1>1, <1>3, AddPeerEffect
<1>6. /\ sync'.list = sync.list /\ sync'.todo \subseteq sync.todo
      /\ sync'.pc = "next" \/ (/\ sync'.pc = "add" /\ sync'.id = id
                               /\ sync'.candidates = Tail(sync.candidates)
                               /\ sync'.candidates # <<>>)
  <2>1. CASE Tail(sync.candidates) = <<>>
    BY <1>1, <1>2, <2>1, DoneTyped DEF TypeOK
  <2>2. CASE Tail(sync.candidates) # <<>>
    BY <1>1, <2>2 DEF TypeOK, SyncStates
  <2> QED
    BY <2>1, <2>2
<1>7. \A p \in Connected : conns[p].key \in Keys \ {k}
  BY <1>1, <1>2 DEF Connected, TypeOK, Conn
<1>8. Ended' /\ Lists_Distinct'
  BY <1>2, <1>5, <1>6 DEF PInv, Ended, Lists_Distinct
<1>9. Owner' /\ SyncKnows'
  BY <1>4, <1>6 DEF PInv, Owner, SyncKnows
<1>10. Installed'
  BY <1>2, <1>5 DEF PInv, Installed
<1>11. UpdateUnderWay' /\ RecordedEndpointUsed'
  BY <1>4, <1>5, <1>6 DEF PInv, UpdateUnderWay, RecordedEndpointUsed, QualityBetween
<1>12. Routed'
  <2>1. ASSUME wgReady, NEW p \in Connected \ moved, p \in ListedIds(sync.list)
        PROVE  kernel'[conns[p].key].ip = conns[p].vip
    <3>1. kernel[conns[p].key] # NONE /\ kernel[conns[p].key].ip = conns[p].vip
      BY <2>1 DEF PInv, ManagedAndInstalled, Routed, Settled
    <3> QED
      BY <1>2, <1>5, <1>7, <2>1, <3>1
  <2> QED
    BY <1>4, <1>5, <1>6, <2>1 DEF Routed, Settled
<1>13. Dials'
  BY <1>1, <1>5 DEF PInv, Dials, NotOwn
<1>14. ManagedAndInstalled'
  <2>1. ASSUME NEW p \in Connected
        PROVE  wpeers'[conns[p].key] # NONE /\ (wgReady' => kernel'[conns[p].key] # NONE)
    BY <1>5, <1>7 DEF PInv, ManagedAndInstalled
  <2>2. ASSUME NEW j \in Keys \ dropped', wpeers'[j] # NONE \/ kernel'[j] # NONE
        PROVE  \E p \in Connected : conns[p].key = j
    <3>1. wpeers[j] # NONE \/ kernel[j] # NONE
      BY <1>5, <2>2
    <3>2. j \in Keys \ dropped
      BY <2>2
    <3> QED
      BY <3>1, <3>2 DEF PInv, ManagedAndInstalled
  <2> QED
    BY <1>4, <2>1, <2>2 DEF ManagedAndInstalled
<1>15. DialsReachable'
  BY <1>1, <1>3, <1>5 DEF PInv, DialsReachable
<1>16. Kept'
  BY <1>4, <1>6 DEF PInv, Kept
<1> QED
  BY <1>8, <1>9, <1>10, <1>11, <1>12, <1>13, <1>14, <1>15, <1>16 DEF PInv

\* connectToPeer keeps the invariant.
LEMMA SyncAddKeeps == PInv /\ TypeOK' /\ SyncAdd => PInv'
<1> SUFFICES ASSUME PInv, TypeOK', SyncAdd PROVE PInv'
    OBVIOUS
<1> DEFINE i == Info(sync.id)
           c == Head(sync.candidates)
<1>1. sync.pc = "add" /\ UNCHANGED <<list, quality, phase, moved>>
  BY DEF SyncAdd, At
<1>2. CASE /\ AddPeer(i.key, c.endpoint, i.vip, "none")
           /\ conns' = [conns EXCEPT ![sync.id] =
                          [key |-> i.key, vip |-> i.vip, endpoint |-> c.endpoint, via |-> c.via]]
           /\ sync' = Done(sync.id)
           /\ torn' = IF QualityBetween(sync.id) THEN torn \cup {sync.id} ELSE torn \ {sync.id}
           /\ UNCHANGED <<faults, dropped>>
  BY <1>1, <1>2, SyncAddSucceeds
<1>3. ASSUME NEW f \in {"wg", "route"}, AddPeer(i.key, c.endpoint, i.vip, f),
             dropped' = IF f = "route" THEN dropped \cup {i.key} ELSE dropped,
             sync' = IF Tail(sync.candidates) = <<>> THEN Done(sync.id)
                     ELSE [sync EXCEPT !.candidates = Tail(sync.candidates)],
             faults' = faults + 1, UNCHANGED <<conns, torn>>
      PROVE  PInv'
  BY <1>1, <1>3, SyncAddFails
<1> QED
  BY <1>2, <1>3 DEF SyncAdd, Fine, Fault

-----------------------------------------------------------------------------
(* The two steps of an update *)

\* UpdatePeerEndpoint changes one endpoint, and no address.
LEMMA UpdateEffect ==
    ASSUME TunnelTypeOK, NEW k \in Keys, NEW e \in Hosts, NEW f \in BOOLEAN,
           wgReady /\ wpeers[k] # NONE => kernel[k] # NONE, UpdatePeerEndpoint(k, e, f)
    PROVE  /\ started' = started /\ wgReady' = wgReady
           /\ \A j \in Keys \ {k} : wpeers'[j] = wpeers[j] /\ kernel'[j] = kernel[j]
           /\ wpeers'[k] = NONE <=> wpeers[k] = NONE
           /\ kernel'[k] = NONE <=> kernel[k] = NONE
           /\ kernel[k] # NONE => /\ kernel'[k].ip = kernel[k].ip
                                  /\ kernel'[k].endpoint \in {kernel[k].endpoint, e}
           /\ IF Found(k) /\ ~f THEN wpeers'[k].endpoint = e
              ELSE wpeers' = wpeers /\ kernel' = kernel
           /\ ~wgReady => kernel' = kernel
<1>1. \A n \in Entry : /\ [n EXCEPT !.endpoint = e] # NONE
                       /\ [n EXCEPT !.endpoint = e].ip = n.ip
                       /\ [n EXCEPT !.endpoint = e].endpoint = e
  <2>1. \A n \in Entry : [n EXCEPT !.endpoint = e] \in Entry
    BY DEF Entry
  <2> QED
    BY <2>1, PeerManagerAssumption DEF Entry
<1>2. CASE Found(k) /\ ~f
  <2>1. wpeers[k] \in Entry /\ wpeers' = [wpeers EXCEPT ![k].endpoint = e]
    BY <1>2 DEF UpdatePeerEndpoint, Found, TunnelTypeOK
  <2>2. wpeers'[k] = [wpeers[k] EXCEPT !.endpoint = e]
        /\ \A j \in Keys \ {k} : wpeers'[j] = wpeers[j]
    BY <2>1 DEF TunnelTypeOK
  <2>3. CASE wgReady
    <3>1. kernel[k] \in Entry /\ kernel' = [kernel EXCEPT ![k].endpoint = e]
      BY <1>2, <2>3 DEF UpdatePeerEndpoint, Found, TunnelTypeOK
    <3>2. kernel'[k] = [kernel[k] EXCEPT !.endpoint = e]
          /\ \A j \in Keys \ {k} : kernel'[j] = kernel[j]
      BY <3>1 DEF TunnelTypeOK
    <3>3. started' = started /\ wgReady' = wgReady
      BY DEF UpdatePeerEndpoint
    <3>4. wpeers[k] # NONE /\ kernel[k] # NONE
      BY <1>2, <2>3 DEF Found
    <3> QED
      BY <1>1, <1>2, <2>1, <2>2, <2>3, <3>1, <3>2, <3>3, <3>4
  <2>4. CASE ~wgReady
    <3>1. kernel' = kernel /\ started' = started /\ wgReady' = wgReady
      BY <1>2, <2>4 DEF UpdatePeerEndpoint
    <3>2. wpeers[k] # NONE
      BY <1>2 DEF Found
    <3> QED
      BY <1>1, <1>2, <2>1, <2>2, <2>4, <3>1, <3>2
  <2> QED
    BY <2>3, <2>4
<1>3. CASE ~(Found(k) /\ ~f)
  BY <1>3 DEF UpdatePeerEndpoint
<1> QED
  BY <1>2, <1>3

\* The first step of an update, whoever takes it: the tunnel has the same peers, and
\* the kernel sends the same addresses to them.
LEMMA UpdateKeeps ==
    ASSUME PInv, NEW k \in Keys, NEW e \in Hosts, NEW f \in BOOLEAN, UpdatePeerEndpoint(k, e, f),
           phase # "stopped", UNCHANGED <<conns, phase, dropped, moved>>,
           faults' = 0 => faults = 0,
           sync' = sync \/ (sync.pc = "update" /\ sync' = [sync EXCEPT !.pc = "record"]),
           wgReady => /\ e \notin Internal
                      /\ faults' = 0 /\ OwnHost \notin OnLAN \cup RelayHosts \cup {PublicHost} =>
                           e # OwnHost
    PROVE  /\ wgReady' = wgReady /\ started' = started /\ Connected' = Connected
           /\ \A j \in Keys \ {k} : wpeers'[j] = wpeers[j]
           /\ IF Found(k) /\ ~f THEN wpeers'[k].endpoint = e ELSE wpeers' = wpeers
           /\ Installed' /\ Routed' /\ Kept' /\ ManagedAndInstalled' /\ DialsReachable'
<1>1. TunnelTypeOK /\ TypeOK
  BY DEF PInv, TypeOK
<1>2. /\ started' = started /\ wgReady' = wgReady
      /\ \A j \in Keys \ {k} : wpeers'[j] = wpeers[j] /\ kernel'[j] = kernel[j]
      /\ wpeers'[k] = NONE <=> wpeers[k] = NONE
      /\ kernel'[k] = NONE <=> kernel[k] = NONE
      /\ kernel[k] # NONE => /\ kernel'[k].ip = kernel[k].ip
                             /\ kernel'[k].endpoint \in {kernel[k].endpoint, e}
      /\ IF Found(k) /\ ~f THEN wpeers'[k].endpoint = e ELSE wpeers' = wpeers /\ kernel' = kernel
      /\ ~wgReady => kernel' = kernel
  <2>1. wgReady /\ wpeers[k] # NONE => kernel[k] # NONE
    BY DEF PInv, Installed
  <2> QED
    BY <1>1, <2>1, UpdateEffect
<1>3. Connected' = Connected /\ \A p \in Connected : conns[p].key \in Keys
  BY <1>1 DEF Connected, TypeOK, Conn
<1>4. Installed'
  BY <1>2 DEF PInv, Installed
<1>5. ManagedAndInstalled'
  BY <1>2, <1>3 DEF PInv, ManagedAndInstalled
<1>6. \A p \in Connected : Settled(p)' => Settled(p)
  <2>1. sync' = sync \/ (/\ sync.pc = "update" /\ sync'.pc = "record"
                         /\ sync'.list = sync.list)
    BY <1>1 DEF TypeOK, SyncStates
  <2> QED
    BY <2>1 DEF Settled
<1>7. Routed'
  <2>1. ASSUME wgReady, NEW p \in Connected \ moved, Settled(p)
        PROVE  kernel'[conns[p].key].ip = conns[p].vip
    <3>1. kernel[conns[p].key].ip = conns[p].vip /\ kernel[conns[p].key] # NONE
      BY <2>1 DEF PInv, Routed, ManagedAndInstalled
    <3> QED
      BY <1>2, <1>3, <3>1
  <2> QED
    BY <1>2, <1>3, <1>6, <2>1 DEF Routed
<1>8. DialsReachable'
  BY <1>2 DEF PInv, DialsReachable
<1>9. Kept'
  <2>1. sync' = sync \/ (/\ sync.pc = "update" /\ sync'.list = sync.list)
    BY <1>1 DEF TypeOK, SyncStates
  <2> QED
    BY <1>3, <2>1 DEF PInv, Kept
<1> QED
  BY <1>2, <1>3, <1>4, <1>5, <1>7, <1>8, <1>9

\* UpdatePeerEndpoint of the sync goroutine.
LEMMA SyncUpdateKeeps == PInv /\ TypeOK' /\ SyncUpdate => PInv'
<1> SUFFICES ASSUME PInv, TypeOK', SyncUpdate PROVE PInv'
    OBVIOUS
<1> DEFINE id == sync.id
           k == conns[id].key
           e == sync.to.endpoint
<1>1. TypeOK
  BY DEF PInv
<1>2. /\ sync.pc = "update" /\ id \in Ids /\ sync.to \in Reachable
      /\ sync' = [sync EXCEPT !.pc = "record"]
      /\ UNCHANGED <<list, conns, quality, phase, dropped, moved>>
  BY <1>1 DEF SyncUpdate, At, TypeOK, SyncStates
<1>3. /\ sync'.pc = "record" /\ sync'.id = id /\ sync'.to = sync.to
      /\ sync'.list = sync.list /\ sync'.todo = sync.todo
  BY <1>1, <1>2 DEF TypeOK, SyncStates
<1>4. id \in Connected /\ k \in Keys /\ e \in Hosts /\ e \notin Internal
  BY <1>1, <1>2 DEF PInv, SyncKnows, Connected, TypeOK, Conn, Reachable, Target
<1>5. phase \in {"running", "leaving", "cancelled"}
  BY <1>1, <1>2 DEF PInv, Ended, TypeOK
<1>6. PICK ok \in BOOLEAN : TunnelUpdate(id, k, e, QualityBetween(id), ok)
  BY DEF SyncUpdate
<1>7. /\ UpdatePeerEndpoint(k, e, ~ok) /\ (faults' = 0 => faults = 0)
      /\ torn' = IF QualityBetween(id) \/ ~ok \/ ~Found(k) THEN torn \cup {id} ELSE torn
  BY <1>1, <1>6 DEF TunnelUpdate, Fault, Fine, TypeOK
<1>8. faults' = 0 => NotOwn(sync.to)
  BY <1>2, <1>7 DEF PInv, Dials
<1>9. /\ wgReady' = wgReady /\ started' = started /\ Connected' = Connected
      /\ \A j \in Keys \ {k} : wpeers'[j] = wpeers[j]
      /\ IF Found(k) /\ ~(~ok) THEN wpeers'[k].endpoint = e ELSE wpeers' = wpeers
      /\ Installed' /\ Routed' /\ Kept' /\ ManagedAndInstalled' /\ DialsReachable'
  BY <1>2, <1>4, <1>5, <1>7, <1>8, UpdateKeeps DEF NotOwn
<1>10. \A p \in Connected \ {id} : conns[p].key \in Keys \ {k}
  BY <1>1, <1>4, OneOwner DEF PInv, Connected, TypeOK, Conn
<1>11. Ended' /\ Lists_Distinct' /\ Owner' /\ SyncKnows'
  BY <1>2, <1>3, <1>4, <1>5, <1>9 DEF PInv, Ended, Lists_Distinct, Owner, SyncKnows, Connected
<1>12. UpdateUnderWay'
  <2>1. id \notin torn' => wpeers'[k].endpoint = e
    BY <1>7, <1>9
  <2>2. ASSUME quality.pc = "record", quality.id \in Connected \ torn'
        PROVE  wpeers'[conns[quality.id].key].endpoint = quality.to.endpoint
    <3>1. quality.id # id /\ quality.id \notin torn
      BY <1>7, <2>2 DEF QualityBetween
    <3> QED
      BY <1>9, <1>10, <2>2, <3>1 DEF PInv, UpdateUnderWay
  <2> QED
    BY <1>2, <1>3, <1>9, <2>1, <2>2 DEF UpdateUnderWay
<1>13. RecordedEndpointUsed'
  <2>1. ASSUME NEW p \in Connected \ torn', p # id
        PROVE  wpeers'[conns[p].key].endpoint = conns[p].endpoint \/ QualityBetween(p)
    <3>1. p \in Connected \ torn
      BY <1>7, <2>1
    <3> QED
      BY <1>2, <1>9, <1>10, <2>1, <3>1 DEF PInv, RecordedEndpointUsed
  <2> QED
    BY <1>2, <1>3, <1>9, <2>1 DEF RecordedEndpointUsed, QualityBetween
<1>14. Dials'
  BY <1>2, <1>3, <1>8, <1>9 DEF PInv, Dials, NotOwn
<1> QED
  BY <1>9, <1>11, <1>12, <1>13, <1>14 DEF PInv

\* UpdatePeerEndpoint of the quality loop.
LEMMA QualityUpdateKeeps == PInv /\ TypeOK' /\ QualityUpdate => PInv'
<1> SUFFICES ASSUME PInv, TypeOK', QualityUpdate PROVE PInv'
    OBVIOUS
<1> DEFINE id == quality.id
           k == quality.key
           e == quality.to.endpoint
<1>1. TypeOK
  BY DEF PInv
<1>2. /\ quality.pc = "update" /\ id \in Ids /\ k \in Keys /\ quality.to \in Target
      /\ quality.todo \in SUBSET Probes
      /\ UNCHANGED <<list, conns, sync, phase, dropped, moved>>
  BY <1>1 DEF QualityUpdate, TypeOK, QualityStates
<1>3. e \in Hosts /\ phase \in {"running", "leaving"}
  BY <1>1, <1>2 DEF Target, PInv, Ended, TypeOK
<1>4. PICK ok \in BOOLEAN :
         /\ IF ok THEN Fine ELSE wgReady /\ Fault
         /\ UpdatePeerEndpoint(k, e, ~ok)
         /\ torn' = IF /\ ok /\ Found(k)
                       /\ \/ sync.pc = "record" /\ sync.id = id
                          \/ conns[id] # NONE /\ conns[id].key # k
                    THEN torn \cup {id} ELSE torn
         /\ quality' = IF ok /\ Found(k) THEN [quality EXCEPT !.pc = "record"]
                       ELSE NextProbe(quality.todo)
  BY DEF QualityUpdate
<1>5. faults' = 0 => faults = 0
  BY <1>1, <1>4 DEF Fault, Fine, TypeOK
<1>6. wgReady => quality.to \in Reachable /\ NotOwn(quality.to)
  BY <1>2 DEF PInv, Dials
<1>7. /\ wgReady' = wgReady /\ started' = started /\ Connected' = Connected
      /\ \A j \in Keys \ {k} : wpeers'[j] = wpeers[j]
      /\ IF Found(k) /\ ~(~ok) THEN wpeers'[k].endpoint = e ELSE wpeers' = wpeers
      /\ Installed' /\ Routed' /\ Kept' /\ ManagedAndInstalled' /\ DialsReachable'
  BY <1>2, <1>3, <1>4, <1>5, <1>6, UpdateKeeps DEF NotOwn, Reachable
<1>8. \A p \in Connected \ {id} : conns[p].key \in Keys \ {k}
  <2>1. PICK i \in Infos : i.id = id /\ i.key = k
    BY <1>2 DEF PInv, Owner
  <2>2. ASSUME NEW p \in Connected \ {id} PROVE conns[p].key # k
    <3>1. PICK j \in Infos : j.id = p /\ j.key = conns[p].key
      BY DEF PInv, Owner
    <3> QED
      BY <2>1, <3>1, PeerManagerAssumption
  <2> QED
    BY <1>1, <2>2 DEF Connected, TypeOK, Conn
<1>9. \/ /\ ok /\ Found(k) /\ quality'.pc = "record" /\ quality'.id = id
         /\ quality'.key = k /\ quality'.to = quality.to
      \/ ~(ok /\ Found(k)) /\ quality'.pc \in {"idle", "probing"}
  <2>1. CASE ok /\ Found(k)
    BY <1>1, <1>2, <1>4, <2>1 DEF TypeOK, QualityStates
  <2>2. CASE ~(ok /\ Found(k))
    BY <1>2, <1>4, <2>2, NextProbeTyped
  <2> QED
    BY <2>1, <2>2
<1>10. Ended' /\ Lists_Distinct' /\ SyncKnows'
  BY <1>2, <1>3, <1>7 DEF PInv, Ended, Lists_Distinct, SyncKnows
<1>11. Owner'
  BY <1>2, <1>7, <1>9 DEF PInv, Owner
<1>12. UpdateUnderWay'
  <2>1. ASSUME sync.pc = "record", sync.id \notin torn'
        PROVE  wpeers'[conns[sync.id].key].endpoint = sync.to.endpoint
    <3>1. sync.id \in Connected /\ sync.id \notin torn
      BY <1>1, <1>4, <2>1 DEF PInv, SyncKnows, Connected, TypeOK, SyncStates
    <3>2. wpeers[conns[sync.id].key].endpoint = sync.to.endpoint
      BY <2>1, <3>1 DEF PInv, UpdateUnderWay
    <3>3. CASE sync.id = id
      BY <1>4, <1>7, <2>1, <3>2, <3>3
    <3>4. CASE sync.id # id
      BY <1>7, <1>8, <3>1, <3>2, <3>4
    <3> QED
      BY <3>3, <3>4
  <2>2. ASSUME quality'.pc = "record", id \in Connected \ torn'
        PROVE  wpeers'[conns[id].key].endpoint = e
    BY <1>4, <1>7, <1>9, <2>2 DEF Connected
  <2> QED
    BY <1>2, <1>7, <1>9, <2>1, <2>2 DEF UpdateUnderWay
<1>13. RecordedEndpointUsed'
  <2>1. ASSUME NEW p \in Connected \ torn'
        PROVE  \/ wpeers'[conns[p].key].endpoint = conns[p].endpoint
               \/ sync.pc = "record" /\ sync.id = p
               \/ quality'.pc = "record" /\ quality'.id = p
    <3>1. p \in Connected \ torn
      BY <1>4, <2>1
    <3>2. \/ wpeers[conns[p].key].endpoint = conns[p].endpoint
          \/ sync.pc = "record" /\ sync.id = p
      BY <1>2, <3>1 DEF PInv, RecordedEndpointUsed, QualityBetween
    <3>3. CASE p = id
      BY <1>7, <1>9, <3>2, <3>3
    <3>4. CASE p # id
      BY <1>7, <1>8, <3>1, <3>2, <3>4
    <3> QED
      BY <3>3, <3>4
  <2> QED
    BY <1>2, <1>7, <2>1 DEF RecordedEndpointUsed, QualityBetween
<1>14. Dials'
  BY <1>2, <1>5, <1>6, <1>7, <1>9 DEF PInv, Dials, NotOwn
<1> QED
  BY <1>7, <1>10, <1>11, <1>12, <1>13, <1>14 DEF PInv

\* The second step of an update, whoever takes it.
LEMMA RecordKeeps ==
    ASSUME PInv, NEW id \in Ids, NEW to \in Target, Record(id, to),
           UNCHANGED <<phase, faults, dropped, tunnelVars>>
    PROVE  /\ Connected' = Connected /\ Installed' /\ ManagedAndInstalled' /\ DialsReachable'
           /\ \A p \in Connected : /\ conns'[p].key = conns[p].key /\ conns'[p].vip = conns[p].vip
                                   /\ p # id => conns'[p] = conns[p]
           /\ id \in Connected => conns'[id].endpoint = to.endpoint
           /\ \A p \in Connected' :
                \E i \in Infos : i.id = p /\ i.key = conns'[p].key /\ i.vip = conns'[p].vip
<1>1. /\ \A j \in Ids \ {id} : conns'[j] = conns[j]
      /\ conns'[id] = NONE <=> conns[id] = NONE
      /\ conns[id] # NONE => /\ conns'[id].key = conns[id].key
                             /\ conns'[id].vip = conns[id].vip
                             /\ conns'[id].endpoint = to.endpoint
  BY RecordTyped DEF PInv
<1>2. Connected' = Connected
  BY <1>1 DEF Connected
<1>3. /\ \A p \in Connected : /\ conns'[p].key = conns[p].key /\ conns'[p].vip = conns[p].vip
                              /\ p # id => conns'[p] = conns[p]
      /\ id \in Connected => conns'[id].endpoint = to.endpoint
  BY <1>1 DEF Connected
<1>4. Installed' /\ DialsReachable'
  BY DEF tunnelVars, PInv, Installed, DialsReachable
<1>5. ManagedAndInstalled'
  BY <1>2, <1>3 DEF tunnelVars, PInv, ManagedAndInstalled
<1> QED
  BY <1>2, <1>3, <1>4, <1>5 DEF PInv, Owner

\* The sync goroutine records the endpoint.
LEMMA SyncRecordKeeps == PInv /\ TypeOK' /\ SyncRecord => PInv'
<1> SUFFICES ASSUME PInv, TypeOK', SyncRecord PROVE PInv'
    OBVIOUS
<1> DEFINE id == sync.id
<1>1. /\ sync.pc = "record" /\ id \in Ids /\ sync.to \in Target
      /\ UNCHANGED <<list, quality, phase, faults, torn, dropped, moved, tunnelVars>>
  BY DEF SyncRecord, At, PInv, TypeOK, SyncStates, Reachable
<1>2. /\ Connected' = Connected /\ Installed' /\ ManagedAndInstalled' /\ DialsReachable'
      /\ \A p \in Connected : /\ conns'[p].key = conns[p].key /\ conns'[p].vip = conns[p].vip
                              /\ p # id => conns'[p] = conns[p]
      /\ id \in Connected => conns'[id].endpoint = sync.to.endpoint
      /\ \A p \in Connected' :
            \E i \in Infos : i.id = p /\ i.key = conns'[p].key /\ i.vip = conns'[p].vip
  BY <1>1, RecordKeeps DEF SyncRecord
<1>3. sync'.pc = "next" /\ sync'.list = sync.list /\ sync'.todo \subseteq sync.todo
  BY <1>1, DoneTyped DEF SyncRecord, PInv, TypeOK
<1>4. Ended' /\ Lists_Distinct' /\ SyncKnows'
  BY <1>1, <1>2, <1>3 DEF tunnelVars, PInv, Ended, Lists_Distinct, SyncKnows
<1>5. Owner'
  BY <1>1, <1>2 DEF PInv, Owner
<1>6. UpdateUnderWay'
  BY <1>1, <1>2, <1>3 DEF tunnelVars, PInv, UpdateUnderWay
<1>7. Routed' /\ Kept'
  BY <1>1, <1>2, <1>3 DEF tunnelVars, PInv, Routed, Kept, Settled
<1>8. RecordedEndpointUsed'
  <2>1. ASSUME NEW p \in Connected \ torn
        PROVE  wpeers[conns'[p].key].endpoint = conns'[p].endpoint \/ QualityBetween(p)
    <3>1. CASE p = id
      BY <1>1, <1>2, <2>1, <3>1 DEF PInv, UpdateUnderWay
    <3>2. CASE p # id
      BY <1>2, <2>1, <3>2 DEF PInv, RecordedEndpointUsed
    <3> QED
      BY <3>1, <3>2
  <2> QED
    BY <1>1, <1>2, <2>1 DEF tunnelVars, RecordedEndpointUsed, QualityBetween
<1>9. Dials'
  BY <1>1, <1>3 DEF tunnelVars, PInv, Dials, NotOwn
<1> QED
  BY <1>2, <1>4, <1>5, <1>6, <1>7, <1>8, <1>9 DEF PInv

\* The quality loop records the endpoint.
LEMMA QualityRecordKeeps == PInv /\ TypeOK' /\ QualityRecord => PInv'
<1> SUFFICES ASSUME PInv, TypeOK', QualityRecord PROVE PInv'
    OBVIOUS
<1> DEFINE id == quality.id
<1>1. /\ quality.pc = "record" /\ id \in Ids /\ quality.to \in Target
      /\ quality.todo \in SUBSET Probes
      /\ UNCHANGED <<list, sync, phase, faults, torn, dropped, moved, tunnelVars>>
  BY DEF QualityRecord, PInv, TypeOK, QualityStates
<1>2. /\ Connected' = Connected /\ Installed' /\ ManagedAndInstalled' /\ DialsReachable'
      /\ \A p \in Connected : /\ conns'[p].key = conns[p].key /\ conns'[p].vip = conns[p].vip
                              /\ p # id => conns'[p] = conns[p]
      /\ id \in Connected => conns'[id].endpoint = quality.to.endpoint
      /\ \A p \in Connected' :
            \E i \in Infos : i.id = p /\ i.key = conns'[p].key /\ i.vip = conns'[p].vip
  BY <1>1, RecordKeeps DEF QualityRecord
<1>3. quality'.pc \in {"idle", "probing"}
  BY <1>1, NextProbeTyped DEF QualityRecord
<1>4. Ended' /\ Lists_Distinct'
  BY <1>1, <1>2 DEF tunnelVars, PInv, Ended, Lists_Distinct, TypeOK
<1>5. Owner'
  BY <1>2, <1>3 DEF Owner
<1>6. SyncKnows'
  BY <1>1, <1>2 DEF PInv, SyncKnows, TypeOK, SyncStates, Connected
<1>7. UpdateUnderWay'
  <2>1. sync.pc = "record" => sync.id \in Connected
    BY DEF PInv, SyncKnows, TypeOK, SyncStates, Connected
  <2> QED
    BY <1>1, <1>2, <1>3, <2>1 DEF tunnelVars, PInv, UpdateUnderWay
<1>8. Routed' /\ Kept'
  BY <1>1, <1>2 DEF tunnelVars, PInv, Routed, Kept, Settled
<1>9. RecordedEndpointUsed'
  <2>1. ASSUME NEW p \in Connected \ torn
        PROVE  \/ wpeers[conns'[p].key].endpoint = conns'[p].endpoint
               \/ sync.pc = "record" /\ sync.id = p
    <3>1. CASE p = id
      BY <1>1, <1>2, <2>1, <3>1 DEF PInv, UpdateUnderWay
    <3>2. CASE p # id
      BY <1>2, <2>1, <3>2 DEF PInv, RecordedEndpointUsed, QualityBetween
    <3> QED
      BY <3>1, <3>2
  <2> QED
    BY <1>1, <1>2, <2>1 DEF tunnelVars, RecordedEndpointUsed
<1>10. Dials'
  BY <1>1, <1>3 DEF tunnelVars, PInv, Dials, NotOwn
<1> QED
  BY <1>2, <1>4, <1>5, <1>6, <1>7, <1>8, <1>9, <1>10 DEF PInv

-----------------------------------------------------------------------------
(* A connection ends *)

\* disconnectPeer, of a sync or of Stop: the connection goes, its key with it.
LEMMA DisconnectKeeps ==
    ASSUME PInv, TypeOK', NEW id \in Connected, disconnectPeer(id),
           UNCHANGED <<list, quality, phase, torn>>, phase # "stopped",
           \/ sync' = sync /\ sync.pc = "idle"
           \/ sync.pc = "remove" /\ sync' = [sync EXCEPT !.ids = @ \ {id}]
    PROVE  PInv'
<1> DEFINE k == conns[id].key
<1>1. TypeOK /\ TunnelTypeOK
  BY DEF PInv, TypeOK
<1>2. id \in Ids /\ k \in Keys
  BY <1>1 DEF Connected, TypeOK, Conn
<1>3. Found(k) /\ wpeers[k] # NONE
  BY DEF Found, PInv, Ended, ManagedAndInstalled
<1>4. PICK ok \in BOOLEAN :
         /\ IF ok THEN Fine ELSE wgReady /\ Fault
         /\ RemovePeer(k, ~ok)
         /\ conns' = [conns EXCEPT ![id] = NONE]
         /\ moved' = moved \ {id}
         /\ dropped' = IF ok THEN dropped ELSE dropped \cup {k}
  BY DEF disconnectPeer
<1>5. faults' = 0 => faults = 0
  BY <1>1, <1>4 DEF Fault, Fine, TypeOK
<1>6. Connected' = Connected \ {id} /\ \A p \in Connected' : conns'[p] = conns[p]
  BY <1>1, <1>2, <1>4 DEF Connected, TypeOK
<1>7. /\ started' = started /\ wgReady' = wgReady
      /\ \A j \in Keys \ {k} : wpeers'[j] = wpeers[j] /\ kernel'[j] = kernel[j]
      /\ ok => wpeers'[k] = NONE /\ kernel'[k] = (IF wgReady THEN NONE ELSE kernel[k])
      /\ ~ok => wpeers' = wpeers /\ kernel' = kernel
  BY <1>1, <1>2, <1>3, <1>4 DEF RemovePeer, TunnelTypeOK
<1>8. \A p \in Connected' : conns[p].key \in Keys \ {k}
  BY <1>1, <1>6, OneOwner DEF PInv, Connected, TypeOK, Conn
<1>9. \/ sync'.pc = "idle" /\ sync.pc = "idle"
      \/ sync'.pc = "remove" /\ sync.pc = "remove" /\ sync'.ids = sync.ids \ {id}
  BY <1>1 DEF TypeOK, SyncStates
<1>10. Ended' /\ Lists_Distinct'
  BY <1>6, <1>7, <1>9 DEF PInv, Ended, Lists_Distinct
<1>11. Owner' /\ SyncKnows'
  BY <1>6, <1>9 DEF PInv, Owner, SyncKnows
<1>12. Installed'
  BY <1>2, <1>7 DEF PInv, Installed
<1>13. UpdateUnderWay' /\ RecordedEndpointUsed'
  <2>1. ASSUME NEW p \in Connected' PROVE wpeers'[conns'[p].key] = wpeers[conns[p].key]
    BY <1>6, <1>7, <1>8
  <2>2. UpdateUnderWay'
    BY <1>6, <1>9, <2>1 DEF PInv, UpdateUnderWay
  <2>3. RecordedEndpointUsed'
    BY <1>6, <1>9, <2>1 DEF PInv, RecordedEndpointUsed, QualityBetween
  <2> QED
    BY <2>2, <2>3
<1>14. Routed' /\ Kept'
  <2>1. ASSUME NEW p \in Connected' \ moved', Settled(p)'
        PROVE  p \in Connected \ moved /\ Settled(p)
    BY <1>4, <1>6, <1>9, <2>1 DEF Settled
  <2>2. Routed'
    BY <1>6, <1>7, <1>8, <2>1 DEF PInv, Routed
  <2> QED
    BY <1>9, <2>2 DEF Kept
<1>15. Dials'
  BY <1>7, <1>9 DEF PInv, Dials, NotOwn
<1>16. ManagedAndInstalled'
  <2>1. ASSUME NEW p \in Connected'
        PROVE  wpeers'[conns'[p].key] # NONE /\ (wgReady' => kernel'[conns'[p].key] # NONE)
    BY <1>6, <1>7, <1>8 DEF PInv, ManagedAndInstalled
  <2>2. ASSUME NEW j \in Keys \ dropped', wpeers'[j] # NONE \/ kernel'[j] # NONE
        PROVE  \E p \in Connected' : conns'[p].key = j
    <3>1. j # k
      BY <1>4, <1>7, <2>2 DEF PInv, Installed
    <3>2. j \in Keys \ dropped /\ (wpeers[j] # NONE \/ kernel[j] # NONE)
      BY <1>4, <1>7, <2>2, <3>1
    <3>3. PICK p \in Connected : conns[p].key = j
      BY <3>2 DEF PInv, ManagedAndInstalled
    <3> QED
      BY <1>6, <3>1, <3>3
  <2> QED
    BY <2>1, <2>2 DEF ManagedAndInstalled
<1>17. DialsReachable'
  BY <1>2, <1>5, <1>7 DEF PInv, DialsReachable
<1> QED
  BY <1>10, <1>11, <1>12, <1>13, <1>14, <1>15, <1>16, <1>17 DEF PInv

\* tunnel.Stop: whoever is left in the tunnel then was dropped.
LEMMA TunnelStopsKeeps == PInv /\ TypeOK' /\ TunnelStops => PInv'
<1> SUFFICES ASSUME PInv, TypeOK', TunnelStops PROVE PInv'
    OBVIOUS
<1>1. /\ Connected = {} /\ phase = "closing" /\ phase' = "stopped"
      /\ UNCHANGED <<list, conns, sync, quality, torn, dropped>>
  BY DEF TunnelStops
<1>2. Connected' = {}
  BY <1>1 DEF Connected
<1>3. sync.pc = "idle" /\ quality.pc = "idle"
  BY <1>1 DEF PInv, Ended
<1>4. Fine \/ Fault
  BY DEF TunnelStops
<1>5. faults' = 0 => faults = 0
  BY <1>4 DEF Fine, Fault, PInv, TypeOK
<1>6. TunnelStop(FALSE) \/ TunnelStop(TRUE)
  BY DEF TunnelStops
<1>7. /\ \A k \in Keys : kernel'[k] \in {NONE, kernel[k]} /\ wpeers'[k] \in {NONE, wpeers[k]}
      /\ wgReady' = wgReady \/ \A k \in Keys : kernel'[k] = NONE
  <2>1. CASE TunnelStop(FALSE)
    BY <2>1 DEF TunnelStop, NoPeers
  <2>2. CASE TunnelStop(TRUE)
    BY <2>2 DEF TunnelStop
  <2> QED
    BY <1>6, <2>1, <2>2
<1>8. Ended' /\ Lists_Distinct' /\ Owner' /\ SyncKnows' /\ UpdateUnderWay' /\ Routed' /\ Kept'
      /\ Dials' /\ RecordedEndpointUsed'
  BY <1>1, <1>2, <1>3 DEF PInv, Ended, Lists_Distinct, Owner, SyncKnows, UpdateUnderWay,
     Routed, Kept, Dials, RecordedEndpointUsed
<1>9. Installed'
  BY <1>1, <1>7 DEF PInv, Installed
<1>10. ManagedAndInstalled'
  BY <1>1, <1>2, <1>7 DEF PInv, ManagedAndInstalled
<1>11. DialsReachable'
  BY <1>5, <1>7 DEF PInv, DialsReachable
<1> QED
  BY <1>8, <1>9, <1>10, <1>11 DEF PInv

-----------------------------------------------------------------------------
(* The inductive invariant, and the properties *)

\* The invariant holds when the manager has been started.
LEMMA PInitInv == Init => PInv
<1> SUFFICES ASSUME Init PROVE PInv
    OBVIOUS
<1>1. Connected = {} /\ sync.pc = "fetch" /\ quality.pc = "idle"
  BY DEF Init, Connected, Idle
<1>2. TypeOK
  BY DEF Init, TunnelInit, NoPeers, Idle, TypeOK, TunnelTypeOK, Lists, SyncStates,
     QualityStates
<1>3. Distinct(list)
  BY DEF Init, Distinct
<1>4. Ended /\ Lists_Distinct /\ Owner /\ SyncKnows /\ UpdateUnderWay /\ Routed /\ Kept /\ Dials
      /\ RecordedEndpointUsed
  BY <1>1, <1>3 DEF Init, TunnelInit, Ended, Lists_Distinct, Owner, SyncKnows, UpdateUnderWay,
     Routed, Kept, Dials, RecordedEndpointUsed
<1>5. Installed /\ ManagedAndInstalled /\ DialsReachable
  BY <1>1 DEF Init, TunnelInit, NoPeers, Installed, ManagedAndInstalled, DialsReachable
<1> QED
  BY <1>2, <1>4, <1>5 DEF PInv

\* Every step keeps the invariant.
LEMMA PNextInv == PInv /\ [Next]_vars => PInv'
<1> SUFFICES ASSUME PInv, [Next]_vars PROVE PInv'
    OBVIOUS
<1>1. TypeOK'
  BY PTyped
<1>2. CASE UNCHANGED vars
  <2>1. Ended' /\ Distinct(list')
    BY <1>2 DEF vars, mvars, tunnelVars, PInv, Ended, Lists_Distinct, Connected
  <2> QED
    BY <1>1, <1>2, <2>1, PhaseMoves DEF vars, mvars
<1>3. CASE Relist \/ Leave \/ ReaderExits \/ ManagerStop \/ SyncExits
  BY <1>1, <1>3, PhasesKeep
<1>4. CASE Tick \/ Fetch
  BY <1>1, <1>4, BeginsKeep
<1>5. ASSUME NEW id \in Ids, NEW relay \in RelayHosts \cup {NONE}, SyncPeer(id, relay) PROVE PInv'
  BY <1>1, <1>5, SyncPeerKeeps
<1>6. CASE SyncAdd
  BY <1>1, <1>6, SyncAddKeeps
<1>7. CASE SyncUpdate
  BY <1>1, <1>7, SyncUpdateKeeps
<1>8. CASE SyncRecord
  BY <1>1, <1>8, SyncRecordKeeps
<1>9. CASE SyncRemovals \/ SyncEnds
  BY <1>1, <1>9, RemovalsKeep
<1>10. ASSUME NEW id \in Ids, SyncRemove(id) PROVE PInv'
  <2>1. sync.pc = "remove" /\ id \in Connected /\ phase # "stopped"
    BY <1>10 DEF SyncRemove, At, PInv, SyncKnows, Ended
  <2> QED
    BY <1>1, <1>10, <2>1, DisconnectKeeps DEF SyncRemove
<1>11. ASSUME NEW id \in Ids, StopDisconnects(id) PROVE PInv'
  <2>1. sync.pc = "idle" /\ id \in Connected /\ phase # "stopped"
    BY <1>11 DEF StopDisconnects, PInv, Ended
  <2> QED
    BY <1>1, <1>11, <2>1, DisconnectKeeps DEF StopDisconnects
<1>12. CASE Probe \/ \E id \in Ids, via \in Vias : Skip([id |-> id, via |-> via])
  BY <1>1, <1>12, ProbesKeep
<1>13. ASSUME NEW id \in Ids, NEW via \in Vias,
              \/ AttemptDirect([id |-> id, via |-> via])
              \/ \E relay \in RelayHosts : ForceRelay([id |-> id, via |-> via], relay)
       PROVE  PInv'
  BY <1>1, <1>13, DecisionsKeep
<1>14. CASE QualityUpdate
  BY <1>1, <1>14, QualityUpdateKeeps
<1>15. CASE QualityRecord
  BY <1>1, <1>15, QualityRecordKeeps
<1>16. CASE TunnelStops
  BY <1>1, <1>16, TunnelStopsKeeps
<1> QED
  BY <1>2, <1>3, <1>4, <1>5, <1>6, <1>7, <1>8, <1>9, <1>10, <1>11, <1>12, <1>13, <1>14, <1>15,
     <1>16 DEF Next, Syncing, Monitoring, Stopping, Terminated

\* The invariant holds in every reachable state.
LEMMA PInvariant == Spec => []PInv
<1>1. Init => PInv BY PInitInv
<1>2. PInv /\ [Next]_vars => PInv' BY PNextInv
<1> QED BY <1>1, <1>2, PTL DEF Spec

\* connectToPeer, disconnectPeer: the connections are the tunnel's peers, but for keys
\* whose AddPeer or RemovePeer failed half way.
THEOREM PeersManagedAndInstalled == Spec => []ManagedAndInstalled
<1>1. PInv => ManagedAndInstalled BY DEF PInv
<1> QED BY <1>1, PInvariant, PTL

\* Outside the two steps of an update the recorded endpoint is the one in use.
THEOREM PeersRecordedEndpointUsed == Spec => []RecordedEndpointUsed
<1>1. PInv => RecordedEndpointUsed BY DEF PInv
<1> QED BY <1>1, PInvariant, PTL

\* After a sync the kernel sends packets for an address to the connected peer that all
\* fetched lists had under it.
THEOREM PeersKeptAddressRouted == Spec => []KeptAddressRouted
<1>1. PInv => KeptAddressRouted
  <2>1. sync = Idle => \A id \in Connected : Settled(id)
    BY DEF Idle, Settled
  <2> QED
    BY <2>1 DEF PInv, Routed, KeptAddressRouted
<1> QED BY <1>1, PInvariant, PTL

\* WireGuard is given no internal name, and our own address only after a failure.
THEOREM PeersDialsReachable == Spec => []DialsReachable
<1>1. PInv => DialsReachable BY DEF PInv
<1> QED BY <1>1, PInvariant, PTL
=============================================================================
