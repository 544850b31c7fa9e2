# A verification of QuickTunnel: server, relay, client and Noise

QuickTunnel (`src/`) is a mesh VPN. A **server** (Go, PostgreSQL, Redis) admits
machines to networks, gives them virtual IPs and tells them where the others
are; a **client** runs WireGuard and keeps its peers up to date; a **relay**
forwards UDP datagrams between two peers that cannot reach each other; `pkg/`
has a Noise IK handshake with a replay window and the address arithmetic; a web
dashboard shows the server's data.

This directory holds TLA+ models of the parts of it that carry state shared by
concurrent actors, TLC configurations that check them on small instances, and
TLAPS proofs of the most important properties for every instance.
`PROJECT.json` lists components, runs, theorems, hazards and the source lines
of every definition.

## 1. Inventory

| Part | State | Operations | What is hard |
|---|---|---|---|
| Relay (`relay/internal/relay_server.go`) | `sessions`, `tokenToSession`, the `Session` objects, a gauge, the socket | CONNECT, DATA, PING, DISCONNECT, sweep, Start, Stop | pointers used after the lock is released; two maps; lost and repeated datagrams; Stop racing Start |
| Admission and addressing (`join_handler.go`, `member_handler.go`, `peer_handler.go`, `network_handler.go`, `queries/peers.go`) | table `peers` (network, virtual IP, status), `networks.is_active`, a mutex per network | Join, Approve, Reject, Kick, Register, Unregister, DeleteNetwork | chains of statements without a transaction; checks that are stale when used; retries; pool exhaustion |
| Presence (`member_tunnel_handler.go`, `coord_handler.go`, `cmd/server/main.go`) | `is_online`, `last_seen`; Redis entries and index with lifetimes | Heartbeat, Announce, Offline, Peers, ListPeers, the clean-up loop | two stores; expiry; failing steps; deletion against late messages |
| Replay window (`pkg/noise/replay.go`) | highest counter, 2048-bit bitmap | Accept | shift arithmetic at word and window boundaries |
| Noise handshake, cipher states (`pkg/noise`) | chaining key, hash, cipher, nonces | Write/ReadMessageA/B, Encrypt, Decrypt, Rekey, Split | calls in any order after failed ones; nonces that are not on the wire; the last nonce |
| Peer manager (`client/internal/peer/manager.go`) | connection map | sync, connect with fallbacks, disconnect, ForceRelay, AttemptDirect, Stop | two goroutines, two copies of one set, failing steps, addresses that change hands |
| Tunnel (`client/internal/tunnel`) | `w.peers`, the kernel's peers, the device qtun0 | Start, AddPeer, RemovePeer, UpdatePeerEndpoint, Stop | commands that fail half way; a device all processes know by name |
| Agent (`client/internal/agent`) | state machine, goroutines, failure count | Start, Stop, heartbeat and quality loops, packet forwarding | shutdown order, a reader that blocks, back-off, signals at the wrong time |
| Command line (`client/cmd/quicktunnel`) | PID file, configuration, systemd unit | join, up, down, reset, install, uninstall, login, config | several processes on files and a device without a lock |
| Migrations and start (`database/postgres.go`, `cmd/server/main.go`) | applied files, advisory lock | Migrate, serve | crash between two files, several servers and releases at once |
| Rate limiter (`middleware/ratelimit.go`, `realip.go`) | buckets | Allow, gc, RealIP | lazy refill and collection against an ideal bucket; whose bucket |
| Relay assignment (`relay_handler.go`) | none; token = HMAC(network, peer, expiry) | assign | both peers must get one token |
| Users, keys, plumbing, downloads, scripts, platform code, dashboard | none of interest, or one statement each | | |

Interactions: clients call the server over HTTP (each request is a goroutine);
the server's handlers share the database, Redis and, in one handler, a mutex;
clients speak UDP to the relay with a token they got from the server; the
clean-up loop of the server and the sweeper of the relay run on tickers. Inside
a client, the agent starts the peer manager and the tunnel, its quality loop
calls the manager beside the manager's own sync goroutine, and both change the
tunnel; several clients on one host meet at the device, the PID file and the
configuration. Servers on one database meet at the advisory lock.

## 2. Modules

| Module | Models | Checked by | Proved in |
|---|---|---|---|
| `Relay` | the relay | `MCRelay`: `relay_safety`, `relay_liveness` | `RelayProofs` |
| `Membership` | admission and addressing | `MCMembership`: `membership`, `membership_liveness` | `MembershipProofs` |
| `Presence` | presence and the coordination cache | `presence`, `presence_expiry` | `PresenceProofs` |
| `ReplayWindow` | the replay bitmap | `MCReplayWindow`: `replay` | `ReplayWindowProofs` |
| `ReplayFilter` | what a replay filter promises | (abstract specification of `ReplayWindow`) | |
| `CipherState` | the AEAD cipher, as operators | | |
| `NoiseTransport` | one direction of traffic, EXTENDS `CipherState` | | `NoiseProofs` |
| `Noise` | the handshake, EXTENDS `NoiseTransport` | `MCNoise`: `noise` | `NoiseProofs` |
| `Tunnel` | WireGuard's peers in the process and in the kernel | | |
| `PeerManager` | the peer manager and the quality loop, EXTENDS `Tunnel` | `MCPeerManager`: `peers`, `peers_liveness` | `PeerManagerProofs` |
| `Client` | client processes and commands on one host | `client` | `ClientProofs` |
| `Migrate` | migrations and the start of servers | | `ServerProofs` |
| `RateLimiter` | the rate limiter behind RealIP | | `ServerProofs` |
| `TokenBucket` | what a rate limiter promises | (abstract specification of `RateLimiter`) | |
| `Server` | `Migrate` and `RateLimiter` composed | `MCServer`: `server` | `ServerProofs` |

### Relay

Three goroutines: the reader in `Start`, the sweeper in `cleanupStaleSessions`
and the caller of `Stop`. Each critical section is one action, so between the
look-up of a session (`LookUp`) and its use (`Forward`, `Pong`, `Disconnect`)
the sweeper may run. `session` keeps every `Session` object ever made, because a
handler may hold one that has left the map; `sessions` and `tokenToSession` are
the two maps. `LastActivity` is kept as an age in ticks that saturates just past
the idle timeout. A datagram to a client may be lost; clients send any packet at
any time, so repetition and reordering need no action of their own. `told`,
`lastData` and `presented` are history. Session IDs do not collide (128 random
bits); a client uses an ID only after it was told it.

### Membership

One record per request in progress (`req`) holds what its handler has read; each
SQL statement is an action; the reads of a preamble are taken together.
`StatementFails` stands for a database error or a client that went away, after
any statement. The statements are atomic, and the partial unique index of
migration 008 is `VirtualIPConflict`. `PeerHandler.RegisterPeer` alone takes a
mutex, one per network. The model releases it with the INSERT while the code
first reads a snapshot for its answer; the snapshot changes nothing, so this
only adds interleavings. A deleted network keeps its rows. `approvals` is
history: what the owners of networks with manual approval asked for. Machine ids
of devices (`join_` and a prefix of the key) and of agents are taken to be
disjoint, and all networks to have the default CIDR. The fields `max_peers`
(which no handler enforces) and presence are left out.

### Presence

The presence columns, and the two kinds of Redis keys with their remaining life.
Each SQL statement and each MULTI/EXEC pipeline is an action. `Offline` is three
of them; each may fail and the next still runs. A listing reads the rows, the
index and then one entry after the other (in any order: Redis sets have none).
`Tick` ages everything at once. `lost`, `onlineBy` and the field `barred` of a
listing are history. Endpoints are abstracted: an announcement matters only by
being there. All callers are assumed to name the network by its UUID
(`CoordHandler.Announce` uses whatever its caller wrote, so an agent configured
with the public ID announces under a key no member reads; that is outside this
model). A listing may begin at any time, also by a caller whose row is gone.
Registration and admission appear only as what they do to these columns, as one
action each; `Membership` has their statements.

### ReplayWindow and ReplayFilter

A word is the set of its bits. `WordShift` and `BitShift` are the two loops of
`advanceLocked`, `Carry` what one word hands to the next. `ReplayFilter` says a
counter is accepted if it is new and not too old, with nothing about bitmaps;
`ImplementsFilter` is the refinement (same `accepted` and `answer`, `Window` is
the number of bits). Counters are far below 2^64, so no arithmetic wraps: the
code subtracts only smaller from larger counters.

### CipherState, NoiseTransport and Noise

Cryptography is symbolic: a key is where it was derived from and how often it
was rekeyed, a ciphertext is the record of what was sealed, and it opens under
exactly the key, the nonce and the associated data it was sealed with. The
handshake hash and the chaining key are the sequences of what was mixed into
them, a Diffie-Hellman result is the set of its two keys. A handshake state is
named by its ephemeral key, and no ephemeral is one of the static keys
(`NoiseAssumption`: both are random). Public keys enter the hash as `PublicKey`,
so that none of them is taken for a ciphertext of the same bytes. The code keeps
no phase: `WriteMessageB` asks only for `hasRE`, `ReadMessageB` only for `hasE`,
and a read that fails keeps everything it mixed before the failure; so any call
may come at any time, also after failed ones, and `Returned` undoes nothing. The
network (external) hands any message ever written to anybody, as it is or with a
part damaged. An ephemeral damaged into a point of low order is an action of its
own: `dh` fails, and the call ends with the ephemeral mixed in and nothing after
it (`ReadLowOrder`); `WriteMessageB`, which finds `hasRE` set, then ends the
same way with its own (`AnswerLowOrder`). Key derivation and random numbers do
not fail. The traffic is one direction, from the initiator; the other one
differs in the key only. After `StartTraffic` no more handshake calls are made,
which keeps the two parts from multiplying. Nothing in the repository's client
uses the package yet: it is checked against what its own tests use it for.

### Tunnel and PeerManager

`Tunnel` has one operator per method of `WGTunnel`, each of which holds `w.mu`
from end to end; which of its commands fails is a parameter. The kernel
(external) moves an allowed IP to the last peer that claims it. `PeerManager`
has the sync goroutine and the quality loop, each with a program counter: both
change an endpoint in the tunnel and then in `m.peers`, and the model lets the
other one in between. A new connection is entered in `m.peers` with the same
step that adds it to the tunnel, because nobody looks for it before. The answer
of the relay assignment is a host or an error. An endpoint is its host (ports
and the DNS are left out); what the code asks about hosts are the sets
`Routable`, `OnLAN`, `Internal`. The peers of one list are visited in any order.
Our own public host is a constant: `SetLocalPublicEndpoint` calls after the
first one are left out. The server may list a known peer under another address
(a member approved again gets one, see Observations) and give its first one to
somebody else; `syncPeersOnce` compares endpoints only, and so does `SyncPeer`.
`disconnectPeer` is one step: its RemovePeer and its delete from `m.peers` are
two in the code, but nobody else reads either between them. `torn`, `dropped`
and `moved` are history: whose two steps failed half way or were overlapped,
and which connected peers a fetched list had under another address. `Leave` to
`TunnelStops` are `Agent.Stop`: it cancels and waits for the quality loop and,
when packets go without WireGuard, for the UDP reader (`reader`), whose socket
it closes only afterwards; then for the sync goroutine.

### Client

A process has a program counter through `runUp` or `runJoin`, `Agent.Start`,
the wait for a signal, `Agent.Stop` and the deferred calls; the user's other
commands run beside it, one at a time, and systemd (external) restarts or kills
its unit's process. The device, the PID file and the configuration are shared
without a lock, so each access is a step of its own; `ip link delete` and `ip
link add` of `CreateTUN` are two, the commands after `add` are one with it. The
launch of the goroutines and `Set(StateRunning)` are one step, because the first
tick of a loop comes ten seconds later at the earliest. A
heartbeat, with the announcement and the endpoint refresh in it, succeeds or
fails. The environment's overrides of the configuration, and all of it but the
network and the member's credentials, are left out; so are goroutines that do
nothing but watch `ctx`. A signal before `signal.Notify` or after `signal.Stop`
ends the process where it is. PIDs are not used twice. `shared` is history.

### Migrate, RateLimiter and Server

`Migrate` has the start of a server: lock, one check and one transaction per
file, unlock, serve. A crash, or a statement that fails (on which `main` exits),
ends the session and with it the lock. Releases differ in how many files they
have. `RateLimiter` is `Allow` with its refill and `gc`, called with the address
`RealIP` leaves: that of the connection or, when this is a trusted proxy, the
one in X-Real-IP or else the leftmost of X-Forwarded-For that is an address. A
client writes into both headers what it likes. The proxy of `web/nginx.conf`
sets X-Real-IP on three of its four routes and appends to X-Forwarded-For on
two; on `/health` it passes on what the client wrote. `vouched` marks the
requests whose origin the connection or an X-Real-IP set by the proxy shows. The
code's floating-point tokens are whole numbers in a unit of time in which `Rate`
flow in. `TokenBucket` has a level per address that rises all the time, and
counts a vouched request for its sender; of the others it says only that they
are answered by the level of the address they are counted for. The refinement
maps the level to what an address's bucket would hold if it were refilled now,
or to `Capacity` if it is gone: that `gc` is invisible is what
`Rate * TTL >= Capacity` is for (300 seconds against bursts of 2 seconds'
worth at most, `router.go`). `Server` puts both together: `SetupRouter` makes
new buckets each time the server `me` has migrated.

## 3. Runs

| Run | Bounds | Shows |
|---|---|---|
| `relay_safety` | 3 addresses, 1 token, 2 sessions, idle timeout 1; symmetric | `TokenIndexAgrees`, `DataStaysWithTokenHolders`, `ControlTruthful`, `GaugeExact`, `RemovedStaysRemoved` |
| `relay_liveness` | 2 addresses, 1 token, 1 session | `IdleSessionRemoved`, `ShutdownCompletes` |
| `membership` | 2 networks (one automatic), 1 device, 1 agent, 2 requests, 2 addresses, 3 rows ever | `VirtualIPsUnique`, `ApprovedHasAddress`, `NoAdmissionWithoutOwner`, `RejectionSticks`, `AgentAddressSticks` |
| `membership_liveness` | 1 automatic network, 1 address, 4 rows ever | `RequestsEnd` |
| `replay` | 3 words of 3 bits, counters to 13 | `BitmapExact`, `ImplementsFilter` |
| `presence` | 1 peer, 2 requests, lifetimes 2 and 3, expiry after 1 | `AnnouncementsIndexed`, `OfflineEndsOffline`, `DeletedNotListed`, `SilentExpires` |
| `presence_expiry` | 1 peer, 1 request | violated: `AutoExpires` |
| `noise` | 2 initiators, 2 responder states, 6 calls; 3 messages, 2 rekeys an end, 3 nonces | `Agreement`, `NonceOnce`, `InOrder`, `NoGap`, `NextOpens` |
| `peers` | 2 peers, 2 addresses, 2 changes of the list, 1 failure | `ManagedAndInstalled`, `RecordedEndpointUsed`, `KeptAddressRouted`, `DialsReachable` |
| `peers_liveness` | 2 peers, 1 address, 2 changes of the list, 1 failure | `Converges`, `StopReturns` |
| `client` | 2 processes, 1 other command, 1 failure or untimely interrupt, 1 heartbeat failure counted | `QuietAfterStop`, `RunningMeansBeating`, `AloneOwnsDevice`, `StaleDeviceReplaced`, `SignalEnds` |
| `server` | 2 servers with 2 and 3 files, 2 crashes; 1 client, 1 proxy, headers of 2 entries, capacity 2, lifetime 2, 7 ticks | `AppliedInOrder`, `ServesMigrated`, `NobodyClashes`, `ImplementsBucket`, `AllServe` |

Why the bounds are enough for the interesting cases. Relay: a third address
makes a stranger of a paired session, the second session ID lets a token have
its session swept and created again. Membership: two requests are two handlers
in any interleaving; one device and one agent compete for the addresses; three
rows allow a kick and a new join while an approval of the old row is in flight.
Two devices would add nothing the agent's competition does not show to the
index. Replay: distances 0 to 13 reach every word shift (0, 1, 2), bit shift (0,
1, 2) and the overrun (9 and more), the three cases the code tells apart.
Presence: one peer is enough for the races, which are between handlers of the
same peer; only the index is shared by peers, and there the proof covers any
number. The real lifetimes are 60, 70 and 90 seconds; the model needs their
order only, and the proof assumes no more than `EntryTTL <= IndexTTL`. Noise: a
handshake is four calls, so six leave room for a failed read before or between;
the second initiator is one the responders do not expect, the second responder
state has another pre-shared key; three nonces with the last one reserved make
the counter run out. Peers: the three things the server may list are a peer, the
same peer with another address, and another peer with its first address, so two
changes are enough for a peer to leave and come back, to be re-addressed, and to
lose its first address to the other one; the other peer is behind our NAT, so
that it takes the relay, whose host is an internal name. The liveness run leaves
out the second address, which changes neither who is connected nor who has to
end. Client: two processes are what it takes to share anything, and the second
one may be the first one's successor; the one command includes reset, which is
down, uninstall and the removal of the configuration in turn. Server: the old
and the new release start in either order; two crashes hit both servers or the
same one twice; seven ticks let a bucket be emptied, refilled, collected and
made again. One client has two buckets to be counted for, its own and the
proxy's; headers of two entries have a leftmost address that is not the first
entry.

Deadlock is checked, except where the system may stop: in `Membership` every
network may be deleted and nothing is left to do, in `Noise` the calls run out,
and in `Client` all processes may have ended.

### Fairness

`Relay`: the Go scheduler runs every goroutine that can run, the ticker fires, a
closed socket makes `ReadFromUDP` return; nobody has to send anything.
`Membership`: a handler in progress goes on (weak fairness per request), and the
mutex is fair to a waiter (`sync.Mutex` hands over after 1 ms: strong fairness
of `RegisterLock`). `Presence`: time passes, the clean-up statement succeeds now
and then, handlers go on. No client is assumed to do anything. `PeerManager`:
the two goroutines and the caller of Stop run and their tickers fire; a select
that finds both a tick and the end of the context takes the latter at some time
(strong fairness of `ManagerStop`, which needs the quality loop to be between
two ticks, and of `SyncExits`). No datagram is assumed to come, so nothing makes
the UDP reader return, and `StopReturns` begins when it has. The server's list
changes a bounded number of times, so `Converges` is about what follows the last
change. `Client`: processes, commands under way and systemd go on; no user,
server or datagram does, which is why `SignalEnds` exempts a process with a UDP
reader. `Server`: servers are started again and run, and `pg_advisory_lock`
queues its waiters (strong fairness of `AcquireLock`).

### Where the code does not do what the repository says

* `presence_expiry`: a peer that registered and never sent a heartbeat has
  `last_seen` NULL and is never expired ("Auto-expire peers that haven't sent a
  heartbeat in 90 seconds").

This is a run that TLC must refute; the other properties hold beside it.

### Observations

The models also show the following, which no run states:

* `Relay`: a Stop before Start has stored the socket closes nothing, and the
  reader goes on ("Stop requests graceful relay shutdown").
* `Membership`: of two approvals of one member in flight the second one gives an
  approved member another address ("ApprovePeer approves a pending peer"); so
  does an approval after a rejection.
* `PeerManager`: clients that are connected to such a member keep the allowed IP
  they added it with, since `syncPeersOnce` looks at nothing but the endpoint of
  a peer it knows. When the server gives the old address to another peer, the
  two claim one allowed IP, and the last one added has it. `moved` names these
  members.
* `Presence`: agents have status `''`, which `GetOnlinePeers` does not select
  (the end-to-end test: "expected peer visibility between agents").
* `PeerManager`: after a failed `UpdatePeerEndpoint` the endpoint on record is
  not the tunnel's until the peer moves again; after a failed `RemovePeer` the
  key stays in the tunnel. `torn` and `dropped` name exactly these.
* `Client`, `PeerManager`: with packet forwarding, Stop waits for a UDP reader
  that only a datagram wakes.
* `Client`: two processes take the device from each other; `down` removes
  the PID file of whoever wrote it last; a login that overlaps a join writes back
  the configuration it read before.
* `Migrate`: with `MaxConns` = 1 the lock's own connection is the one the
  statements wait for, and no server ever serves.

* `Presence`: `ListPeers` may take an id off the index in a race with its
  announcement; `AnnouncementsIndexed` exempts these (`lost`).
* `RateLimiter`: a request the proxy passes on with the client's own headers is
  counted for whatever address these name.

Where a property would fail in such a case it exempts it, by a history variable
or a condition its comment names, and `PROJECT.json` lists the hazard without a
property.

## 4. Proofs

Each proof module EXTENDS the module it is about and has the same plan: frame
lemmas that say which actions touch which variables, one lemma per conjunct of
an inductive invariant `IInv` with a case for each action that can disturb it,
and a temporal step. They assume only the ASSUMEs of the modules, which TLC
evaluates in every run.

* `RelayProofs`: `TokenIndexAgrees`, `ControlTruthful`,
  `DataStaysWithTokenHolders` and `GaugeExact` are not inductive alone. Added
  are: the two peers of a session differ (`PeersDistinct`), whoever has a place
  in a session presented its token, a handler's session exists, and only an
  allocated session was told to anybody. `RemovedStaysRemoved` follows because
  a new session takes an ID never allocated.
* `MembershipProofs`: added are that ids are used once, that requests carry
  values of their kind, that an approval in flight in a manual network was asked
  for (so its late UPDATE by id is still covered by `approvals`), that the row
  an approval is about was and stays in the network it was asked for unless it
  moved to an automatic one, that locks are held by the handlers that took them,
  and that the address an agent's registration is about to store is the one its
  row has.
* `PresenceProofs`: `IndexOutlives` (the index has at least the life of every
  entry it leads to, which is what makes `AnnouncementsIndexed` survive a tick),
  `DeletedGone` (no statement brings a deleted id back) and `ListsUndeleted`.
* `NoiseProofs`, traffic: `TInv`, for any two keys the ends start with.
  `NonceOnce` needs that everything sealed under the sender's current key has a
  nonce below its counter and that only a Rekey uses the last one
  (`SealedKinds`, `SentBehind`); `InOrder` and `NoGap` need that what was sent is
  ordered by generation and nonce (`SentOrdered`), that all a receiver accepted
  lies behind its counter (`GotBehind`), and that of the messages under its
  current key it has accepted all it is past (`GotAll`, `NotAhead`). The four
  `Transport...` theorems are about `TSpec`, one direction alone.
* `NoiseProofs`, handshake: `NInv`, for any number of handshake states and
  calls. `Agreement` rests on three facts about what is mixed. The key that
  seals message B ends with the results ee and se and the pre-shared key, and
  the transcript with the responder's ephemeral, at both ends (`MixedB`): a
  payload that opens was therefore sealed by the responder the initiator took it
  from, for it, with its static and its pre-shared key (`MixedBAgree`). Both
  transcripts begin with the statics in one order (`Transcripts`). And a
  responder whose `ReadMessageA` failed, but which `WriteMessageB` lets go on,
  has its own ephemeral one or two places behind the initiator's (`Failures`,
  `TooEarly`), where the initiator's transcript always has two ciphertexts
  (`OwnWritten`): so an accepted answer is one to an accepted message A. A call
  that a point of low order ended has grown the transcript by one ephemeral and
  sealed nothing (`EphemeralContinues`, `MixedOnly`), which is one more such
  failure. `NonceOnce` needs that every key that seals in the handshake bears
  the mark of the one state that derived it and is never derived again
  (`HandSealed`, `Mark`), and that the keys of Split are blocks no handshake key
  is (`SameOrigin`). `NextOpens` needs that one transcript has one chaining key
  (`Complete`), hence one key at both ends, and that nonces count the messages
  until somebody rekeys (`Matched`).
* `ReplayWindowProofs`: `BitmapExact` is inductive with the types and with
  `highestSeen` being the largest accepted counter; the work is in `Shifted`,
  which says what bit `delta` is after the word shift, the bit shift and the
  carries, by the quotient and remainder of `delta` and of the distance.
  `ReplayImplementsFilter` is a refinement proof: each outcome of Accept is a
  step of `ReplayFilter`. Both hold for any number and size of words and any
  `MaxCounter`.
* `PeerManagerProofs`: `PInv` says where the two goroutines can be and what they
  know there (`SyncKnows`: the sync goroutine adds who is not connected and moves
  or removes who is; `UpdateUnderWay`: between the steps of an update the tunnel
  has the new endpoint), that a connection has a key and an address its peer was
  listed with (`Owner`), that with WireGuard the kernel has the tunnel's peers
  (`Installed`), that no endpoint the goroutines are about to use is one that
  must not be dialled (`Dials`), and where addresses go. For these, between two
  syncs every connection, and during one every connection that stays, is routed
  its address, unless it is in `moved` (`Routed`); and who is not in `moved` is
  on the fetched list under the address of its connection (`Kept`), so that no
  newcomer on the same list takes it away. Assumed of the server's lists: a list
  has a peer once and an address once, and no two peers have one key.
* `ClientProofs`: `CInv` follows who may have the device. Processes alive at
  one time are all in `shared` (`Shares`); any other one finds no device after it
  has deleted the name and has its own from then on (`Owns`); goroutines, failure
  count and state go with the place in the program (`Agents`). So that a new
  process is nobody's PID, ids are given in order (`Numbered`) and the PID file
  names a process past its start (`Written`).
* `ServerProofs`: `MInv` adds that whoever is between lock and unlock holds the
  lock and that all files a server is past are marked. `LimiterImplementsBucket`
  is a refinement proof: every step of `RateLimiter` is a step of `TokenBucket`
  or a stutter under `Level`; its core is that a bucket `gc` may delete would be
  full, and that a vouched request is counted for its sender (`Counted`; `Least`
  and `ForwardedAddress` say that the X-Forwarded-For of any length yields an
  address or none). The rest shows that the composition takes only steps of the
  two parts, and carries the results over.

The type invariants (`TypeOK`, `TTypeOK`, `MTypeOK`) are part of the inductive
invariants and proved with them; the runs spend no check on them. Every
invariant and every action property a passing run checks is proved, and so are
both refinements. Only model-checked are the properties that need fairness,
which the prover has no rules for: `IdleSessionRemoved` and `ShutdownCompletes`
of the relay, `RequestsEnd`, `SilentExpires`, `Converges` and `StopReturns`,
`SignalEnds`, `AllServe`. What the violation run refutes is not a theorem, of
course.

## 5. Not modelled, and the plan

The plan, in order:

1. Proofs: what the models below bring with them; the relation of
   `NoiseTransport` and `ReplayWindow`, should the client ever use both.
2. Relay assignment composed with `Relay`: the token depends on the peer asked
   for, so two peers that ask for each other present different ones.
3. `IPAllocator`: the CIDR edges of `pkg/netutil` as a pure operator against a
   reference definition.
4. Our own public host as a variable of `PeerManager`, and the heartbeat's
   back-off against the expiry of `Presence`.

Not planned: users, JWT and API keys (stateless checks around one statement;
authentication is a guard), routing and responses, downloads and install
scripts (text), the retries inside `api_client` (not visible to its callers),
STUN and hole punching (probes; nothing outlives a call), the Windows and macOS
clients, the VNC launcher, the web dashboard (a view).
