-------------------------- MODULE MembershipProofs --------------------------
(***************************************************************************)
(* Proofs about admission and addressing for every set of networks,        *)
(* devices, agents and concurrent requests and every size of the pool.     *)
(***************************************************************************)
EXTENDS Membership, WellFoundedInduction, TLAPS

\* A row's id is given once: it is below the next one and no other row has it.
IdsFresh ==
    /\ \A m \in Machines : peers[m] # NONE => peers[m].id < nextId
    /\ \A m1, m2 \in Machines :
         (peers[m1] # NONE /\ peers[m2] # NONE /\ peers[m1].id = peers[m2].id) => m1 = m2

\* What a request in progress carries: joins are of devices, a join with an
\* address is in an automatic network, registrations are of agents, an approval
\* in a manual network was asked for, and an address about to be stored is one.
Carries(q) ==
    /\ q.id < nextId
    /\ q.pc \in {"join_list", "join_store", "join_pending"}
         => q.machine \in Devices /\ q.network \in Networks
    /\ q.pc \in {"join_list", "join_store"} => q.network \in AutoNetworks
    /\ q.pc \in {"register_lock", "register_list", "register_store"}
         => q.machine \in Agents /\ q.network \in Networks
    /\ q.pc \in {"approve_list", "approve_store"}
         => q.network \in AutoNetworks \/ <<q.network, q.id>> \in approvals
    /\ q.pc \in {"join_store", "approve_store", "register_store"} => q.vip # NoIP

RequestsCarry == \A r \in Requests : req[r] # Idle => Carries(req[r])

\* A registration between its list and its store holds its network's mutex.
Locked(q) == q.pc \in {"register_list", "register_store"}
LockHeld == \A r \in Requests : Locked(req[r]) => lock[req[r].network] = r

\* While an approval is in progress its row is not an agent's unjudged one, and a
\* device's leaves the network it was asked in only for an automatic one; a
\* registration about to store an address stores the one the agent has.
Unjudged(m) == peers[m] # NONE /\ peers[m].status = ""
Keeps(q) ==
    /\ q.pc \in {"approve_list", "approve_store"} =>
         /\ \A a \in Agents : Unjudged(a) => peers[a].id # q.id
         /\ \A d \in Devices : (peers[d] # NONE /\ peers[d].id = q.id)
                => peers[d].network \in AutoNetworks \cup {q.network}
    /\ (/\ q.pc = "register_store"
        /\ Unjudged(q.machine)
        /\ peers[q.machine].network = q.network
        /\ active[q.network])
       => peers[q.machine].vip = q.vip

AddressKept == \A r \in Requests : req[r] # Idle => Keeps(req[r])

\* The inductive invariant.
IInv ==
    /\ TypeOK
    /\ IdsFresh
    /\ RequestsCarry
    /\ LockHeld
    /\ AddressKept
    /\ VirtualIPsUnique
    /\ ApprovedHasAddress
    /\ NoAdmissionWithoutOwner

-----------------------------------------------------------------------------
\* Every non-empty set of natural numbers has a least element.
LEMMA LeastElement ==
    ASSUME NEW S \in SUBSET Nat, S # {}
    PROVE  \E v \in S : \A w \in S : v <= w
<1>1. PICK v \in S : \A w \in S : ~ (<<w, v>> \in OpToRel(<, Nat))
    BY NatLessThanWellFounded, WFMin
<1>2. ASSUME NEW w \in S PROVE v <= w
  <2>1. ~ (w < v)
    BY <1>1 DEF OpToRel
  <2> QED
    BY <2>1
<1> QED
    BY <1>2

\* What AllocateIP returns is an address of the pool or none.
LEMMA AllocateIPType == ASSUME NEW used PROVE AllocateIP(used) \in VirtualIPs
<1> DEFINE free == (1 .. PoolSize) \ used
<1> USE MembershipAssumption DEF VirtualIPs, NoIP
<1>1. CASE free = {}
    BY <1>1 DEF AllocateIP
<1>2. CASE free # {}
  <2>1. free \in SUBSET Nat
    OBVIOUS
  <2>2. \E v \in free : \A w \in free : v <= w
    BY <1>2, <2>1, LeastElement
  <2>3. AllocateIP(used) \in free
    BY <1>2, <2>2 DEF AllocateIP
  <2> QED
    BY <2>3
<1> QED
    BY <1>1, <1>2

\* The address a registration chooses is one of the pool or none.
LEMMA AssignedIPType ==
    ASSUME TypeOK, NEW m \in Machines, NEW n \in Networks
    PROVE  AssignedIP(m, n) \in VirtualIPs
<1>1. m \in ListNetworkPeers(n) => peers[m].vip \in VirtualIPs
    BY MembershipAssumption DEF TypeOK, ListNetworkPeers, Members, Row
<1> QED
    BY <1>1, AllocateIPType DEF AssignedIP

\* The initial state satisfies the invariant.
LEMMA InitIInv == Init => IInv
<1> SUFFICES ASSUME Init PROVE IInv
    OBVIOUS
<1> USE MembershipAssumption DEF Init, Machines
<1>1. TypeOK
    BY DEF TypeOK, Ids
<1>2. IdsFresh
    BY DEF IdsFresh
<1>3. RequestsCarry /\ LockHeld /\ AddressKept
    BY DEF RequestsCarry, LockHeld, Locked, AddressKept, Idle
<1>4. VirtualIPsUnique /\ ApprovedHasAddress /\ NoAdmissionWithoutOwner
    BY DEF VirtualIPsUnique, ApprovedHasAddress, NoAdmissionWithoutOwner, Members
<1> QED
    BY <1>1, <1>2, <1>3, <1>4 DEF IInv

-----------------------------------------------------------------------------
\* A request is idle, or what it carries is in order.
InOrder(r) == req[r] = Idle \/ (req[r] \in Pending /\ Carries(req[r]) /\ Keeps(req[r]))

\* A step of a handler that writes no table keeps the invariant if what the
\* handler carries on with is in order.
LEMMA RequestStep ==
    ASSUME IInv, NEW r \in Requests,
           req' = [req EXCEPT ![r] = req'[r]],
           UNCHANGED <<peers, nextId, active, approvals>>,
           InOrder(r)',
           lock' \in [Networks -> Requests \cup {NONE}],
           \A n \in Networks : lock[n] \notin {r, NONE} => lock'[n] = lock[n],
           Locked(req'[r]) => lock'[req'[r].network] = r
    PROVE  IInv'
<1> USE MembershipAssumption DEF IInv
<1>1. ASSUME NEW s \in Requests, s # r
      PROVE  req'[s] = req[s]
    BY <1>1 DEF TypeOK
<1>2. TypeOK'
    BY DEF TypeOK, InOrder
<1>3. IdsFresh'
    BY DEF IdsFresh
<1>4. RequestsCarry'
    BY <1>1 DEF RequestsCarry, Carries, InOrder
<1>5. AddressKept'
  <2>1. ASSUME NEW s \in Requests, s # r, req[s] # Idle
        PROVE  Keeps(req[s])'
    <3>1. Keeps(req[s])
        BY <2>1 DEF AddressKept
    <3>2. req'[s] = req[s]
        BY <1>1, <2>1
    <3>3. peers' = peers /\ active' = active
        OBVIOUS
    <3> QED
        BY <3>1, <3>2, <3>3 DEF Keeps, Unjudged
  <2>2. req'[r] # Idle => Keeps(req[r])'
    BY DEF InOrder
  <2> QED
    BY <1>1, <2>1, <2>2 DEF AddressKept
<1>6. LockHeld'
  <2> SUFFICES ASSUME NEW s \in Requests, s # r, Locked(req[s])
               PROVE  lock'[req[s].network] = s
    BY <1>1 DEF LockHeld, Locked
  <2>1. req[s] # Idle
    BY DEF Locked, Idle
  <2>2. Carries(req[s])
    BY <2>1 DEF RequestsCarry
  <2>3. req[s].network \in Networks
    BY <2>2 DEF Carries, Locked
  <2>4. lock[req[s].network] = s
    BY DEF LockHeld
  <2> QED
    BY <2>3, <2>4
<1>7. VirtualIPsUnique' /\ ApprovedHasAddress' /\ NoAdmissionWithoutOwner'
    BY DEF VirtualIPsUnique, ApprovedHasAddress, NoAdmissionWithoutOwner, Members
<1> QED
    BY <1>2, <1>3, <1>4, <1>5, <1>6, <1>7

\* A handler that ends without writing a table keeps the invariant.
LEMMA RespondStep ==
    ASSUME IInv, NEW r \in Requests, Respond(r),
           UNCHANGED <<peers, nextId, active, approvals>>,
           \/ UNCHANGED lock
           \/ lock' = [n \in Networks |-> IF lock[n] = r THEN NONE ELSE lock[n]]
           \/ \E n \in Networks : lock' = [lock EXCEPT ![n] = NONE] /\ lock[n] = r
    PROVE  IInv'
<1>1. req' = [req EXCEPT ![r] = req'[r]] /\ req'[r] = Idle
    BY DEF Respond, Goto, IInv, TypeOK
<1>2. InOrder(r)' /\ ~Locked(req'[r])
    BY <1>1 DEF InOrder, Locked, Idle
<1>3. /\ lock' \in [Networks -> Requests \cup {NONE}]
      /\ \A n \in Networks : lock[n] \notin {r, NONE} => lock'[n] = lock[n]
    BY DEF IInv, TypeOK
<1> QED
    BY <1>1, <1>2, <1>3, RequestStep

\* A new request is in order: it has no id, address or lock yet.
LEMMA BeginStep ==
    ASSUME IInv, NEW r \in Requests, NEW n \in Networks,
           \/ \E d \in Devices : Join(r, d, n)
           \/ \E a \in Agents : Register(r, a, n)
           \/ \E m \in Machines : Reject(r, n, m) \/ Kick(r, n, m)
    PROVE  IInv'
<1> USE MembershipAssumption DEF IInv, Request, Goto
<1>1. UNCHANGED <<peers, nextId, active, lock, approvals>>
    BY DEF Join, Register, Reject, Kick
<1>2. \E pc \in {"join_list", "join_pending", "register_lock", "reject", "kick"},
         m \in Machines \cup {NONE}, net \in {n, NONE}, id \in Nat :
         /\ req' = [req EXCEPT ![r] = Request(pc, net, m, id, NoIP, 1)]
         /\ id < nextId
         /\ pc \in {"join_list", "join_pending"} => m \in Devices /\ net = n
         /\ pc = "join_list" => n \in AutoNetworks
         /\ pc = "register_lock" => m \in Agents /\ net = n
  <2>1. 0 \in Nat /\ 0 < nextId
    BY DEF TypeOK, Ids
  <2>2. CASE \E d \in Devices : Join(r, d, n)
    <3>1. PICK d \in Devices : Join(r, d, n)
        BY <2>2
    <3>2. d \in Machines \cup {NONE}
        BY DEF Machines
    <3>3. CASE n \in AutoNetworks
      <4>1. req' = [req EXCEPT ![r] = Request("join_list", n, d, 0, NoIP, 1)]
        BY <3>1, <3>3 DEF Join
      <4> QED
        BY <2>1, <3>2, <3>3, <4>1
    <3>4. CASE n \notin AutoNetworks
      <4>1. req' = [req EXCEPT ![r] = Request("join_pending", n, d, 0, NoIP, 1)]
        BY <3>1, <3>4 DEF Join
      <4> QED
        BY <2>1, <3>2, <4>1
    <3> QED
        BY <3>3, <3>4
  <2>3. CASE \E a \in Agents : Register(r, a, n)
    <3>1. PICK a \in Agents : Register(r, a, n)
        BY <2>3
    <3>2. req' = [req EXCEPT ![r] = Request("register_lock", n, a, 0, NoIP, 1)]
        BY <3>1 DEF Register
    <3>3. a \in Machines \cup {NONE}
        BY DEF Machines
    <3> QED
        BY <2>1, <3>2, <3>3
  <2>4. CASE \E m \in Machines : Reject(r, n, m) \/ Kick(r, n, m)
    <3>1. PICK m \in Machines : Reject(r, n, m) \/ Kick(r, n, m)
        BY <2>4
    <3>2. peers[m] # NONE
        BY <3>1 DEF Reject, Kick, Members
    <3>3. peers[m].id \in Nat /\ peers[m].id < nextId
        BY <3>2 DEF TypeOK, Row, Ids, IdsFresh
    <3> QED
        BY <3>1, <3>3 DEF Reject, Kick
  <2> QED
    BY <2>2, <2>3, <2>4
<1>3. req'[r] \in Pending /\ req' = [req EXCEPT ![r] = req'[r]]
    BY <1>2 DEF TypeOK, Pending, Pc, VirtualIPs, NoIP, maxRegisterAttempts
<1>4. Carries(req[r])'
    BY <1>1, <1>2 DEF TypeOK, Carries
<1>5. Keeps(req[r])' /\ ~Locked(req'[r])
    BY <1>2 DEF TypeOK, Keeps, Locked
<1> QED
    BY <1>1, <1>3, <1>4, <1>5, RequestStep DEF InOrder, TypeOK

\* A request in progress is a record and carries what it should.
LEMMA PendingFacts ==
    ASSUME IInv, NEW r \in Requests, req[r].pc # "idle"
    PROVE  req[r] \in Pending /\ Carries(req[r]) /\ Keeps(req[r])
<1>1. req[r] # Idle
    BY DEF Idle
<1> QED
    BY <1>1 DEF IInv, TypeOK, RequestsCarry, AddressKept

\* Listing and allocating: the handler goes on with the address it chose.
LEMMA ListStep ==
    ASSUME IInv, NEW r \in Requests, JoinList(r) \/ ApproveList(r)
    PROVE  IInv'
<1> DEFINE v == AllocateIP(UsedIPs(req[r].network))
<1>1. req[r].pc \in {"join_list", "approve_list"}
      /\ UNCHANGED <<peers, nextId, active, lock, approvals>>
    BY DEF JoinList, ApproveList
<1>2. req[r] \in Pending /\ Carries(req[r]) /\ Keeps(req[r])
    BY <1>1, PendingFacts
<1>3. CASE Respond(r)
    BY <1>1, <1>3, RespondStep
<1>4. CASE /\ Allocated(v)
           /\ \E pc \in {"join_store", "approve_store"} :
                /\ req' = [req EXCEPT ![r] = [req[r] EXCEPT !.pc = pc, !.vip = v]]
                /\ pc = "join_store" => req[r].pc = "join_list"
                /\ pc = "approve_store" => req[r].pc = "approve_list"
  <2>1. v \in VirtualIPs /\ v # NoIP
    BY <1>4, AllocateIPType DEF Allocated
  <2>2. PICK pc \in {"join_store", "approve_store"} :
          /\ req' = [req EXCEPT ![r] = [req[r] EXCEPT !.pc = pc, !.vip = v]]
          /\ pc = "join_store" => req[r].pc = "join_list"
          /\ pc = "approve_store" => req[r].pc = "approve_list"
    BY <1>4
  <2>3. req'[r] = [req[r] EXCEPT !.pc = pc, !.vip = v]
    BY <2>2 DEF IInv, TypeOK
  <2>4. req' = [req EXCEPT ![r] = req'[r]]
    BY <2>2, <2>3
  <2>5. req'[r] \in Pending
    BY <1>2, <2>1, <2>3 DEF Pending, Pc
  <2>6. /\ req'[r].pc = pc /\ req'[r].machine = req[r].machine /\ req'[r].vip = v
        /\ req'[r].network = req[r].network /\ req'[r].id = req[r].id
    BY <1>2, <2>3 DEF Pending
  <2>7. Carries(req[r])'
    BY <1>1, <1>2, <2>1, <2>2, <2>6 DEF Carries
  <2>8. Keeps(req[r])' /\ ~Locked(req'[r])
    BY <1>1, <1>2, <2>2, <2>6 DEF Keeps, Unjudged, Locked
  <2> QED
    BY <1>1, <2>4, <2>5, <2>7, <2>8, RequestStep DEF InOrder, IInv, TypeOK
<1> QED
    BY <1>3, <1>4 DEF JoinList, ApproveList, Goto

\* Taking the network's mutex.
LEMMA RegisterLockStep ==
    ASSUME IInv, NEW r \in Requests, RegisterLock(r)
    PROVE  IInv'
<1>1. req[r].pc = "register_lock" /\ UNCHANGED <<peers, nextId, active, approvals>>
    BY DEF RegisterLock
<1>2. req[r] \in Pending /\ Carries(req[r])
    BY <1>1, PendingFacts
<1>3. req[r].network \in Networks
    BY <1>1, <1>2 DEF Carries
<1>4. req' = [req EXCEPT ![r] = [req[r] EXCEPT !.pc = "register_list"]]
    BY DEF RegisterLock, Goto
<1>5. req'[r] \in Pending /\ req' = [req EXCEPT ![r] = req'[r]] /\ req'[r].network = req[r].network
    BY <1>2, <1>4 DEF Pending, Pc, IInv, TypeOK
<1>6. Carries(req[r])' /\ Keeps(req[r])'
    BY <1>1, <1>2, <1>4 DEF Pending, Carries, Keeps, IInv, TypeOK
<1>7. /\ lock' \in [Networks -> Requests \cup {NONE}]
      /\ \A n \in Networks : lock[n] \notin {r, NONE} => lock'[n] = lock[n]
      /\ lock'[req'[r].network] = r
    BY <1>3, <1>5 DEF RegisterLock, IInv, TypeOK
<1> QED
    BY <1>1, <1>5, <1>6, <1>7, RequestStep DEF InOrder

\* A registration chooses the agent's own address if the agent has one here.
LEMMA RegisterListStep ==
    ASSUME IInv, NEW r \in Requests, RegisterList(r)
    PROVE  IInv'
<1> DEFINE a == req[r].machine
           n == req[r].network
           v == AssignedIP(a, n)
<1>1. req[r].pc = "register_list" /\ UNCHANGED <<peers, nextId, active, approvals>>
    BY DEF RegisterList
<1>2. req[r] \in Pending /\ Carries(req[r])
    BY <1>1, PendingFacts
<1>3. a \in Agents /\ a \in Machines /\ n \in Networks /\ lock[n] = r
    BY <1>1, <1>2 DEF Carries, Machines, IInv, LockHeld, Locked
<1>4. CASE Respond(r) /\ Unlock(r)
    BY <1>1, <1>3, <1>4, RespondStep DEF Unlock
<1>5. CASE /\ Allocated(v) /\ UNCHANGED lock
           /\ req' = [req EXCEPT ![r] = [req[r] EXCEPT !.pc = "register_store", !.vip = v]]
  <2>1. v \in VirtualIPs /\ v # NoIP
    BY <1>3, <1>5, AssignedIPType DEF Allocated, IInv
  <2>2. req'[r] \in Pending /\ req' = [req EXCEPT ![r] = req'[r]]
    BY <1>2, <1>5, <2>1 DEF Pending, Pc, IInv, TypeOK
  <2>3. Carries(req[r])'
    BY <1>1, <1>2, <1>5, <2>1 DEF Pending, Carries, IInv, TypeOK
  <2>4. (Unjudged(a) /\ peers[a].network = n /\ active[n]) => peers[a].vip = v
    <3> SUFFICES ASSUME Unjudged(a), peers[a].network = n, active[n]
                 PROVE  peers[a].vip = v
        OBVIOUS
    <3>1. a \in ListNetworkPeers(n) /\ ListNetworkPeers(n) = Members(n)
        BY <1>3 DEF ListNetworkPeers, Members, Unjudged
    <3>2. peers[a].vip # NoIP
        BY <1>3 DEF Unjudged, IInv, ApprovedHasAddress, Scanned
    <3>3. ~\E other \in Members(n) \ {a} : peers[other].vip = peers[a].vip
        BY <1>3, <3>1, <3>2 DEF IInv, VirtualIPsUnique
    <3> QED
        BY <3>1, <3>2, <3>3 DEF AssignedIP
  <2>5. /\ req'[r].pc = "register_store" /\ req'[r].machine = a
        /\ req'[r].network = n /\ req'[r].vip = v
    BY <1>2, <1>5 DEF Pending, IInv, TypeOK
  <2>6. Keeps(req[r])'
    BY <1>1, <2>4, <2>5 DEF Keeps, Unjudged
  <2> QED
    BY <1>1, <1>3, <1>5, <2>2, <2>3, <2>5, <2>6, RequestStep DEF InOrder, IInv, TypeOK
<1> QED
    BY <1>4, <1>5 DEF RegisterList, Goto

\* A request is no handler's business but its own: a failing statement ends it.
LEMMA StatementFailsStep ==
    ASSUME IInv, NEW r \in Requests, StatementFails(r)
    PROVE  IInv'
    BY RespondStep DEF StatementFails

\* Deleting a network leaves the rows and the requests as they are.
LEMMA DeleteNetworkStep ==
    ASSUME IInv, NEW n \in Networks, DeleteNetwork(n)
    PROVE  IInv'
<1> USE MembershipAssumption DEF IInv
<1>1. UNCHANGED <<peers, nextId, req, lock, approvals>>
    BY DEF DeleteNetwork
<1>2. TypeOK'
    BY <1>1 DEF DeleteNetwork, TypeOK
<1>3. IdsFresh' /\ LockHeld'
    BY <1>1 DEF IdsFresh, LockHeld, Locked
<1>4. RequestsCarry'
    BY <1>1 DEF RequestsCarry, Carries
<1>5. AddressKept'
  <2> SUFFICES ASSUME NEW r \in Requests, req[r] # Idle
               PROVE  Keeps(req[r])'
    BY <1>1 DEF AddressKept
  <2>1. Keeps(req[r]) /\ Carries(req[r])
    BY DEF AddressKept, RequestsCarry
  <2>2. req[r].pc = "register_store" => req[r].network \in Networks
    BY <2>1 DEF Carries
  <2>3. ASSUME NEW x \in Networks, active'[x] PROVE active[x]
    BY <2>3 DEF DeleteNetwork, TypeOK
  <2> QED
    BY <1>1, <2>1, <2>2, <2>3 DEF Keeps, Unjudged
<1>6. VirtualIPsUnique' /\ ApprovedHasAddress' /\ NoAdmissionWithoutOwner'
    BY <1>1 DEF VirtualIPsUnique, ApprovedHasAddress, NoAdmissionWithoutOwner, Members
<1> QED
    BY <1>2, <1>3, <1>4, <1>5, <1>6

\* Asking to approve a row: the pair is new or was asked for already, and the row
\* is in the network it is asked for in.
LEMMA ApproveStep ==
    ASSUME IInv, NEW r \in Requests, NEW n \in Networks, NEW m \in Machines,
           Approve(r, n, m)
    PROVE  IInv'
<1> USE MembershipAssumption DEF IInv
<1> DEFINE id == peers[m].id
<1>1. /\ UNCHANGED <<peers, nextId, active, lock>>
      /\ peers[m] # NONE /\ peers[m].network = n /\ ~Unjudged(m)
      /\ approvals \subseteq approvals' /\ approvals' \subseteq approvals \cup {<<n, id>>}
      /\ n \in AutoNetworks \/ <<n, id>> \in approvals'
      /\ req' = [req EXCEPT ![r] = Request("approve_list", n, NONE, id, NoIP, 1)]
    BY DEF Approve, Members, Scanned, Unjudged, Goto
<1>2. id \in Ids /\ id < nextId
    BY <1>1 DEF TypeOK, Row, IdsFresh
<1>3. req'[r] \in Pending /\ \A s \in Requests \ {r} : req'[s] = req[s]
    BY <1>1, <1>2 DEF TypeOK, Request, Pending, Pc, VirtualIPs, NoIP, maxRegisterAttempts, Ids
<1>4. TypeOK'
    BY <1>1, <1>2, <1>3 DEF TypeOK
<1>5. IdsFresh'
    BY <1>1, <1>2 DEF IdsFresh
<1>6. /\ req'[r].pc = "approve_list" /\ req'[r].id = id /\ req'[r].network = n
    BY <1>1 DEF TypeOK, Request
<1>7. RequestsCarry'
  <2>1. Carries(req[r])'
    BY <1>1, <1>2, <1>6 DEF Carries
  <2>2. ASSUME NEW s \in Requests \ {r}, req[s] # Idle PROVE Carries(req[s])'
    <3>1. Carries(req[s])
        BY <2>2 DEF RequestsCarry
    <3> QED
        BY <1>1, <1>3, <3>1 DEF Carries
  <2> QED
    BY <1>3, <2>1, <2>2 DEF RequestsCarry
<1>8. AddressKept'
  <2>1. Keeps(req[r])'
    BY <1>1, <1>6 DEF Keeps, Unjudged, IdsFresh, Machines
  <2>2. ASSUME NEW s \in Requests \ {r}, req[s] # Idle PROVE Keeps(req[s])'
    <3>1. Keeps(req[s])
        BY <2>2 DEF AddressKept
    <3> QED
        BY <1>1, <1>3, <3>1 DEF Keeps, Unjudged
  <2> QED
    BY <1>3, <2>1, <2>2 DEF AddressKept
<1>9. LockHeld'
    BY <1>1, <1>3, <1>6 DEF LockHeld, Locked
<1>10. VirtualIPsUnique' /\ ApprovedHasAddress' /\ NoAdmissionWithoutOwner'
    BY <1>1 DEF VirtualIPsUnique, ApprovedHasAddress, NoAdmissionWithoutOwner, Members
<1> QED
    BY <1>4, <1>5, <1>7, <1>8, <1>9, <1>10

-----------------------------------------------------------------------------
\* Deleting rows or rejecting them keeps the invariant.
LEMMA DemoteStep ==
    ASSUME IInv,
           peers' = [m \in Machines |-> peers'[m]],
           \A m \in Machines :
               \/ peers'[m] \in {NONE, peers[m]}
               \/ peers[m] # NONE /\ peers'[m] = [peers[m] EXCEPT !.status = "rejected"],
           UNCHANGED <<nextId, active, lock, approvals>>,
           UNCHANGED req \/ \E r \in Requests : Respond(r)
    PROVE  IInv'
<1> USE MembershipAssumption DEF IInv
<1>1. ASSUME NEW m \in Machines, peers'[m] # NONE
      PROVE  /\ peers[m] # NONE
             /\ peers'[m] \in Row
             /\ peers'[m].id = peers[m].id /\ peers'[m].network = peers[m].network
             /\ peers'[m].vip = peers[m].vip
             /\ peers'[m].status \in {peers[m].status, "rejected"}
    BY <1>1 DEF TypeOK, Row
<1>2. ASSUME NEW r \in Requests, req'[r] # Idle
      PROVE  req'[r] = req[r] /\ req[r] # Idle
    BY <1>2 DEF TypeOK, Respond, Goto
<1>3. req' \in [Requests -> {Idle} \cup Pending]
    BY DEF TypeOK, Respond, Goto
<1>4. TypeOK'
  <2>1. peers' \in [Machines -> Row \cup {NONE}]
    BY <1>1
  <2> QED
    BY <1>3, <2>1 DEF TypeOK
<1>5. IdsFresh'
    BY <1>1 DEF IdsFresh
<1>6. RequestsCarry'
    BY <1>2 DEF RequestsCarry, Carries
<1>7. LockHeld'
    BY <1>2 DEF LockHeld, Locked, Idle
<1>8. AddressKept'
  <2> SUFFICES ASSUME NEW r \in Requests, req'[r] # Idle
               PROVE  Keeps(req[r])'
    BY DEF AddressKept
  <2>1. Keeps(req[r]) /\ Carries(req[r]) /\ req'[r] = req[r]
    BY <1>2 DEF AddressKept, RequestsCarry
  <2>2. ASSUME NEW a \in Agents, Unjudged(a)'
        PROVE  /\ Unjudged(a) /\ peers'[a].id = peers[a].id
               /\ peers'[a].network = peers[a].network /\ peers'[a].vip = peers[a].vip
    BY <1>1, <2>2 DEF Unjudged, Machines
  <2>3. req[r].pc = "register_store" => req[r].machine \in Agents
    BY <2>1 DEF Carries
  <2>4. ASSUME NEW d \in Devices, peers'[d] # NONE
        PROVE  /\ peers[d] # NONE /\ peers'[d].id = peers[d].id
               /\ peers'[d].network = peers[d].network
    BY <1>1, <2>4 DEF Machines
  <2> QED
    BY <2>1, <2>2, <2>3, <2>4 DEF Keeps
<1>9. VirtualIPsUnique'
    BY <1>1 DEF VirtualIPsUnique, Members
<1>10. ApprovedHasAddress'
    BY <1>1 DEF ApprovedHasAddress, Scanned
<1>11. NoAdmissionWithoutOwner'
    BY <1>1 DEF NoAdmissionWithoutOwner, Machines
<1> QED
    BY <1>4, <1>5, <1>6, <1>7, <1>8, <1>9, <1>10, <1>11

\* Rejecting, kicking and unregistering are such steps.
LEMMA RemovalSteps ==
    ASSUME IInv,
           \/ \E r \in Requests : RejectStore(r) \/ KickStore(r)
           \/ \E a \in Agents, n \in Networks : Unregister(a, n)
    PROVE  IInv'
<1>1. CASE \E r \in Requests : RejectStore(r)
  <2>1. PICK r \in Requests : RejectStore(r)
    BY <1>1
  <2> QED
    BY <2>1, DemoteStep DEF RejectStore, MachineOf
<1>2. CASE \E r \in Requests : KickStore(r)
  <2>1. PICK r \in Requests : KickStore(r)
    BY <1>2
  <2> QED
    BY <2>1, DemoteStep DEF KickStore, MachineOf
<1>3. CASE \E a \in Agents, n \in Networks : Unregister(a, n)
  <2>1. PICK a \in Agents, n \in Networks : Unregister(a, n)
    BY <1>3
  <2> QED
    BY <2>1, DemoteStep DEF Unregister, IInv, TypeOK
<1> QED
    BY <1>1, <1>2, <1>3

\* Carrying out an approval: the row is one the owner asked for, and the index
\* keeps its address its own.
LEMMA ApproveStoreStep ==
    ASSUME IInv, NEW r \in Requests, ApproveStore(r)
    PROVE  IInv'
<1> USE MembershipAssumption DEF IInv
<1> DEFINE q == req[r]
<1>1. q \in Pending /\ Carries(q) /\ Keeps(q) /\ q.pc = "approve_store"
    BY PendingFacts DEF ApproveStore
<1>2. /\ q.network \in AutoNetworks \/ <<q.network, q.id>> \in approvals
      /\ q.vip # NoIP /\ q.vip \in VirtualIPs
    BY <1>1 DEF Carries, Pending
<1>3. UNCHANGED <<nextId, active, lock, approvals>> /\ req' = [req EXCEPT ![r] = Idle]
    BY DEF ApproveStore, Respond, Goto
<1>4. ASSUME NEW m \in Machines, peers'[m] # NONE
      PROVE  /\ peers[m] # NONE
             /\ peers'[m] \in Row
             /\ peers'[m].id = peers[m].id /\ peers'[m].network = peers[m].network
             /\ \/ peers'[m] = peers[m]
                \/ /\ peers[m].id = q.id
                   /\ peers'[m].vip = q.vip /\ peers'[m].status = "approved"
                   /\ ~VirtualIPConflict(m, peers[m].network, q.vip)
    BY <1>2, <1>4 DEF ApproveStore, MachineOf, TypeOK, Row
<1>5. ASSUME NEW s \in Requests, req'[s] # Idle
      PROVE  req'[s] = req[s] /\ req[s] # Idle
    BY <1>3, <1>5 DEF TypeOK
<1>6. TypeOK'
  <2>1. peers' = [m \in Machines |-> peers'[m]]
    BY DEF ApproveStore
  <2>2. peers' \in [Machines -> Row \cup {NONE}]
    BY <1>4, <2>1
  <2> QED
    BY <1>3, <2>2 DEF TypeOK
<1>7. IdsFresh'
    BY <1>3, <1>4 DEF IdsFresh
<1>8. RequestsCarry'
    BY <1>3, <1>5 DEF RequestsCarry, Carries
<1>9. LockHeld'
    BY <1>3, <1>5 DEF LockHeld, Locked, Idle
<1>10. AddressKept'
  <2> SUFFICES ASSUME NEW s \in Requests, req'[s] # Idle
               PROVE  Keeps(req[s])'
    BY DEF AddressKept
  <2>1. Keeps(req[s]) /\ Carries(req[s]) /\ req'[s] = req[s]
    BY <1>5 DEF AddressKept, RequestsCarry
  <2>2. ASSUME NEW a \in Agents, Unjudged(a)'
        PROVE  Unjudged(a) /\ peers'[a] = peers[a]
    BY <1>4, <2>2 DEF Unjudged, Machines
  <2>3. req[s].pc = "register_store" => req[s].machine \in Agents
    BY <2>1 DEF Carries
  <2>4. ASSUME NEW d \in Devices, peers'[d] # NONE
        PROVE  /\ peers[d] # NONE /\ peers'[d].id = peers[d].id
               /\ peers'[d].network = peers[d].network
    BY <1>4, <2>4 DEF Machines
  <2> QED
    BY <1>3, <2>1, <2>2, <2>3, <2>4 DEF Keeps
<1>11. VirtualIPsUnique'
  <2> SUFFICES ASSUME NEW m1 \in Machines, NEW m2 \in Machines, m1 # m2,
                      peers'[m1] # NONE, peers'[m2] # NONE,
                      peers'[m1].network = peers'[m2].network,
                      peers'[m1].vip = peers'[m2].vip
               PROVE  peers'[m1].vip = NoIP
    BY DEF VirtualIPsUnique, Members
  <2>1. peers[m1].id # peers[m2].id
    BY <1>4 DEF IdsFresh
  <2>2. CASE peers'[m1] = peers[m1] /\ peers'[m2] = peers[m2]
    <3>1. peers[m1].network \in Networks
        BY <1>4, <2>2 DEF Row
    <3> QED
        BY <2>2, <3>1 DEF VirtualIPsUnique, Members
  <2>3. CASE peers'[m1] # peers[m1]
    BY <1>2, <1>4, <2>1, <2>3 DEF VirtualIPConflict, Members
  <2>4. CASE peers'[m2] # peers[m2]
    BY <1>2, <1>4, <2>1, <2>4 DEF VirtualIPConflict, Members
  <2> QED
    BY <2>2, <2>3, <2>4
<1>12. ApprovedHasAddress'
    BY <1>2, <1>4 DEF ApprovedHasAddress, Scanned
<1>13. NoAdmissionWithoutOwner'
  <2> SUFFICES ASSUME NEW d \in Devices, peers'[d] # NONE, peers'[d].status = "approved",
                      peers'[d].network \notin AutoNetworks
               PROVE  <<peers'[d].network, peers'[d].id>> \in approvals
    BY <1>3 DEF NoAdmissionWithoutOwner
  <2>1. d \in Machines
    BY DEF Machines
  <2>2. CASE peers'[d] = peers[d]
    BY <1>4, <2>1, <2>2 DEF NoAdmissionWithoutOwner
  <2>3. CASE peers'[d] # peers[d]
    <3>1. peers[d] # NONE /\ peers[d].id = q.id /\ peers'[d].id = q.id
          /\ peers'[d].network = peers[d].network
        BY <1>4, <2>1, <2>3
    <3>2. peers[d].network \in AutoNetworks \cup {q.network}
        BY <1>1, <3>1 DEF Keeps
    <3> QED
        BY <1>2, <3>1, <3>2
  <2> QED
    BY <2>2, <2>3
<1> QED
    BY <1>6, <1>7, <1>8, <1>9, <1>10, <1>11, <1>12, <1>13

\* Storing a row: a new one with the next id, or the machine's own, perhaps in
\* another network and with another address that no other row has there.  Only a
\* device's join stores the row of a device, and it keeps it in its network or
\* moves it to an automatic one.
LEMMA StoreStep ==
    ASSUME IInv, NEW r \in Requests, NEW m \in Machines,
           peers' = [peers EXCEPT ![m] = peers'[m]],
           peers'[m] \in Row,
           peers'[m].id = IF peers[m] = NONE THEN nextId ELSE peers[m].id,
           nextId' = IF peers[m] = NONE THEN nextId + 1 ELSE nextId,
           req' = [req EXCEPT ![r] = Idle],
           UNCHANGED <<active, approvals>>,
           lock' \in [Networks -> Requests \cup {NONE}],
           \A n \in Networks : lock[n] \notin {r, NONE} => lock'[n] = lock[n],
           peers'[m] = peers[m] \/ ~VirtualIPConflict(m, peers'[m].network, peers'[m].vip),
           Scanned(peers'[m].status) = "approved" => peers'[m].vip # NoIP,
           peers[m] # NONE => peers'[m].status = peers[m].status,
           m \in Devices =>
               \/ peers'[m].network \in AutoNetworks
               \/ peers'[m] = peers[m]
               \/ peers[m] = NONE /\ peers'[m].status = "pending",
           m \in Agents => lock[peers'[m].network] = r
    PROVE  IInv'
<1> USE MembershipAssumption DEF IInv
<1>1. ASSUME NEW x \in Machines, x # m PROVE peers'[x] = peers[x]
    BY <1>1 DEF TypeOK
<1>2. ASSUME NEW s \in Requests, req'[s] # Idle
      PROVE  s # r /\ req'[s] = req[s] /\ req[s] # Idle
    BY <1>2 DEF TypeOK
<1>3. nextId \in Nat /\ nextId' \in Ids /\ nextId <= nextId'
    BY DEF TypeOK, Ids
<1>4. ASSUME NEW x \in Machines, peers[x] # NONE PROVE peers[x].id \in Nat /\ peers[x].id < nextId
    BY <1>4 DEF IdsFresh, TypeOK, Row, Ids
<1>5. TypeOK'
    BY <1>3 DEF TypeOK
<1>6. IdsFresh'
  <2>1. ASSUME NEW x \in Machines, peers'[x] # NONE PROVE peers'[x].id < nextId'
    BY <1>1, <1>3, <1>4, <2>1
  <2>2. ASSUME NEW x \in Machines, x # m, peers[x] # NONE PROVE peers[x].id # peers'[m].id
    BY <1>3, <1>4, <2>2 DEF IdsFresh
  <2>3. ASSUME NEW m1 \in Machines, NEW m2 \in Machines,
               peers'[m1] # NONE, peers'[m2] # NONE, peers'[m1].id = peers'[m2].id
        PROVE  m1 = m2
    BY <1>1, <2>2, <2>3 DEF IdsFresh
  <2> QED
    BY <2>1, <2>3 DEF IdsFresh
<1>7. RequestsCarry'
  <2> SUFFICES ASSUME NEW s \in Requests, req'[s] # Idle
               PROVE  Carries(req[s])'
    BY DEF RequestsCarry
  <2>1. Carries(req[s]) /\ req[s] \in Pending /\ req'[s] = req[s]
    BY <1>2 DEF RequestsCarry, TypeOK
  <2>2. req[s].id < nextId'
    BY <1>3, <2>1 DEF Carries, Pending, Ids
  <2> QED
    BY <2>1, <2>2 DEF Carries
<1>8. LockHeld'
  <2> SUFFICES ASSUME NEW s \in Requests, Locked(req'[s])
               PROVE  lock'[req'[s].network] = s
    BY DEF LockHeld, Locked
  <2>1. req'[s] # Idle
    BY DEF Locked, Idle
  <2>2. s # r /\ req'[s] = req[s] /\ Carries(req[s])
    BY <1>2, <2>1 DEF RequestsCarry
  <2>3. req[s].network \in Networks
    BY <2>2 DEF Carries, Locked
  <2>4. lock[req[s].network] = s
    BY <2>2 DEF LockHeld
  <2> QED
    BY <2>2, <2>3, <2>4
<1>9. AddressKept'
  <2> SUFFICES ASSUME NEW s \in Requests, req'[s] # Idle
               PROVE  Keeps(req[s])'
    BY DEF AddressKept
  <2>1. Keeps(req[s]) /\ Carries(req[s]) /\ req[s] \in Pending /\ req'[s] = req[s] /\ s # r
    BY <1>2 DEF AddressKept, RequestsCarry, TypeOK
  <2>2. ASSUME req[s].pc \in {"approve_list", "approve_store"}, NEW a \in Agents, Unjudged(a)'
        PROVE  peers'[a].id # req[s].id
    <3>1. a \in Machines /\ req[s].id \in Nat /\ req[s].id < nextId
        BY <2>1 DEF Machines, Carries, Pending
    <3>2. CASE a # m
        BY <1>1, <2>1, <2>2, <3>1, <3>2 DEF Keeps, Unjudged
    <3>3. CASE a = m /\ peers[m] # NONE
        BY <2>1, <2>2, <3>3 DEF Keeps, Unjudged
    <3>4. CASE a = m /\ peers[m] = NONE
        BY <1>3, <3>1, <3>4
    <3> QED
        BY <3>2, <3>3, <3>4
  <2>3. ASSUME req[s].pc = "register_store", Unjudged(req[s].machine)',
               peers'[req[s].machine].network = req[s].network, active[req[s].network]
        PROVE  peers'[req[s].machine].vip = req[s].vip
    <3>1. /\ req[s].machine \in Agents /\ req[s].machine \in Machines
          /\ lock[req[s].network] = s
        BY <2>1, <2>3 DEF Carries, Machines, LockHeld, Locked
    <3>2. req[s].machine # m
        BY <2>1, <2>3, <3>1
    <3> QED
        BY <1>1, <2>1, <2>3, <3>1, <3>2 DEF Keeps, Unjudged
  <2>4. ASSUME req[s].pc \in {"approve_list", "approve_store"}, NEW d \in Devices,
               peers'[d] # NONE, peers'[d].id = req[s].id
        PROVE  peers'[d].network \in AutoNetworks \cup {req[s].network}
    <3>1. d \in Machines /\ req[s].id \in Nat /\ req[s].id < nextId
        BY <2>1 DEF Machines, Carries, Pending
    <3>2. CASE d # m
        BY <1>1, <2>1, <2>4, <3>1, <3>2 DEF Keeps
    <3>3. CASE d = m
      <4>1. peers[m] # NONE
        BY <1>3, <2>4, <3>1, <3>3
      <4> QED
        BY <2>1, <2>4, <3>3, <4>1 DEF Keeps
    <3> QED
        BY <3>2, <3>3
  <2> QED
    BY <2>1, <2>2, <2>3, <2>4 DEF Keeps, Unjudged
<1>10. VirtualIPsUnique'
  <2> SUFFICES ASSUME NEW m1 \in Machines, NEW m2 \in Machines, m1 # m2,
                      peers'[m1] # NONE, peers'[m2] # NONE,
                      peers'[m1].network = peers'[m2].network,
                      peers'[m1].vip = peers'[m2].vip
               PROVE  peers'[m1].vip = NoIP
    BY DEF VirtualIPsUnique, Members
  <2>1. CASE (m1 # m /\ m2 # m) \/ peers'[m] = peers[m]
    <3>1. peers'[m1] = peers[m1] /\ peers'[m2] = peers[m2]
        BY <1>1, <2>1
    <3>2. peers[m1].network \in Networks
        BY <3>1 DEF TypeOK, Row
    <3> QED
        BY <3>1, <3>2 DEF VirtualIPsUnique, Members
  <2>2. CASE m1 = m /\ peers'[m] # peers[m]
    BY <1>1, <2>2 DEF VirtualIPConflict, Members
  <2>3. CASE m2 = m /\ peers'[m] # peers[m]
    BY <1>1, <2>3 DEF VirtualIPConflict, Members
  <2> QED
    BY <2>1, <2>2, <2>3
<1>11. ApprovedHasAddress'
    BY <1>1 DEF ApprovedHasAddress, Scanned
<1>12. NoAdmissionWithoutOwner'
    BY <1>1 DEF NoAdmissionWithoutOwner, Machines
<1> QED
    BY <1>5, <1>6, <1>7, <1>8, <1>9, <1>10, <1>11, <1>12

\* The row a registration or an automatic join stores.
LEMMA RegisteredRowFacts ==
    ASSUME TypeOK, NEW m \in Machines, NEW n \in Networks, NEW v \in VirtualIPs,
           NEW status \in {"", "approved"}
    PROVE  /\ RegisteredRow(m, n, v, status) \in Row
           /\ RegisteredRow(m, n, v, status).network = n
           /\ RegisteredRow(m, n, v, status).vip = v
           /\ RegisteredRow(m, n, v, status).id = IF peers[m] = NONE THEN nextId ELSE peers[m].id
           /\ peers[m] # NONE => RegisteredRow(m, n, v, status).status = peers[m].status
<1>1. CASE peers[m] = NONE
  <2>1. nextId \in Ids
    BY DEF TypeOK
  <2> QED
    BY <1>1, <2>1 DEF RegisteredRow, Row
<1>2. CASE peers[m] # NONE
  <2>1. peers[m] \in Row
    BY <1>2 DEF TypeOK
  <2> QED
    BY <1>2, <2>1 DEF RegisteredRow, Row
<1> QED
    BY <1>1, <1>2

\* The row a pending join stores.
LEMMA PendingRowFacts ==
    ASSUME TypeOK, NEW m \in Machines, NEW n \in Networks
    PROVE  /\ PendingRow(m, n) \in Row
           /\ PendingRow(m, n).id = IF peers[m] = NONE THEN nextId ELSE peers[m].id
           /\ peers[m] # NONE => PendingRow(m, n) = peers[m]
           /\ peers[m] = NONE => PendingRow(m, n).vip = NoIP /\ PendingRow(m, n).status = "pending"
<1>1. NoIP \in VirtualIPs
    BY MembershipAssumption DEF VirtualIPs, NoIP
<1>2. CASE peers[m] = NONE
    BY <1>1, <1>2 DEF PendingRow, TypeOK, Row
<1>3. CASE peers[m] # NONE
    BY <1>3 DEF PendingRow, TypeOK
<1> QED
    BY <1>2, <1>3

\* An automatic join stores its row or gives up.
LEMMA JoinStoreStep == ASSUME IInv, NEW r \in Requests, JoinStore(r) PROVE IInv'
<1>1. req[r].pc = "join_store" /\ UNCHANGED <<active, lock, approvals>> /\ Respond(r)
    BY DEF JoinStore
<1>2. req[r] \in Pending /\ Carries(req[r])
    BY <1>1, PendingFacts
<1>3. PICK m \in Devices, n \in AutoNetworks, v \in VirtualIPs :
        m = req[r].machine /\ n = req[r].network /\ v = req[r].vip /\ v # NoIP
    BY <1>1, <1>2 DEF Carries, Pending
<1>4. m \in Machines /\ n \in Networks /\ m \notin Agents
    BY MembershipAssumption DEF Machines
<1>5. CASE UNCHANGED <<peers, nextId>>
    BY <1>1, <1>5, RespondStep
<1>6. CASE /\ ~VirtualIPConflict(m, n, v)
           /\ StoreRow(m, RegisteredRow(m, n, v, "approved"))
  <2>1. peers'[m] = RegisteredRow(m, n, v, "approved")
    BY <1>4, <1>6 DEF StoreRow, IInv, TypeOK
  <2>2. peers' = [peers EXCEPT ![m] = peers'[m]]
    BY <1>6, <2>1 DEF StoreRow
  <2>3. /\ peers'[m] \in Row
        /\ peers'[m].network = n /\ peers'[m].vip = v
        /\ peers'[m].id = IF peers[m] = NONE THEN nextId ELSE peers[m].id
        /\ peers[m] # NONE => peers'[m].status = peers[m].status
    <3>1. TypeOK /\ "approved" \in {"", "approved"}
        BY DEF IInv
    <3>2. /\ RegisteredRow(m, n, v, "approved") \in Row
          /\ RegisteredRow(m, n, v, "approved").network = n
          /\ RegisteredRow(m, n, v, "approved").vip = v
          /\ RegisteredRow(m, n, v, "approved").id = IF peers[m] = NONE THEN nextId ELSE peers[m].id
          /\ peers[m] # NONE => RegisteredRow(m, n, v, "approved").status = peers[m].status
        BY <1>4, <3>1, RegisteredRowFacts
    <3> QED
        BY <2>1, <3>2
  <2>4. /\ lock' \in [Networks -> Requests \cup {NONE}]
        /\ \A x \in Networks : lock[x] \notin {r, NONE} => lock'[x] = lock[x]
    BY <1>1 DEF IInv, TypeOK
  <2> QED
    BY <1>1, <1>3, <1>4, <1>6, <2>2, <2>3, <2>4, StoreStep DEF StoreRow, Respond, Goto
<1> QED
    BY <1>3, <1>5, <1>6 DEF JoinStore

\* A pending join stores its row.
LEMMA JoinPendingStep == ASSUME IInv, NEW r \in Requests, JoinPending(r) PROVE IInv'
<1>1. req[r].pc = "join_pending" /\ UNCHANGED <<active, lock, approvals>> /\ Respond(r)
    BY DEF JoinPending
<1>2. Carries(req[r])
    BY <1>1, PendingFacts
<1>3. PICK m \in Devices, n \in Networks : m = req[r].machine /\ n = req[r].network
    BY <1>1, <1>2 DEF Carries
<1>4. m \in Machines /\ m \notin Agents
    BY MembershipAssumption DEF Machines
<1>5. StoreRow(m, PendingRow(m, n))
    BY <1>3 DEF JoinPending
<1>6. peers'[m] = PendingRow(m, n)
    BY <1>4, <1>5 DEF StoreRow, IInv, TypeOK
<1>7. peers' = [peers EXCEPT ![m] = peers'[m]]
    BY <1>5, <1>6 DEF StoreRow
<1>8. /\ peers'[m] \in Row
      /\ peers'[m].id = IF peers[m] = NONE THEN nextId ELSE peers[m].id
      /\ peers[m] # NONE => peers'[m] = peers[m]
      /\ peers[m] = NONE => peers'[m].vip = NoIP /\ peers'[m].status = "pending"
    BY <1>4, <1>6, PendingRowFacts DEF IInv
<1>9. peers'[m] = peers[m] \/ ~VirtualIPConflict(m, peers'[m].network, peers'[m].vip)
    BY <1>8 DEF VirtualIPConflict
<1>10. Scanned(peers'[m].status) = "approved" => peers'[m].vip # NoIP
    BY <1>4, <1>8 DEF Scanned, IInv, ApprovedHasAddress
<1>11. /\ lock' \in [Networks -> Requests \cup {NONE}]
       /\ \A x \in Networks : lock[x] \notin {r, NONE} => lock'[x] = lock[x]
    BY <1>1 DEF IInv, TypeOK
<1> QED
    BY <1>1, <1>4, <1>5, <1>7, <1>8, <1>9, <1>10, <1>11, StoreStep DEF StoreRow, Respond, Goto

\* A registration stores its row under the mutex, tries again or gives up.
LEMMA RegisterStoreStep == ASSUME IInv, NEW r \in Requests, RegisterStore(r) PROVE IInv'
<1>1. req[r].pc = "register_store" /\ UNCHANGED <<active, approvals>>
    BY DEF RegisterStore
<1>2. req[r] \in Pending /\ Carries(req[r])
    BY <1>1, PendingFacts
<1>3. PICK m \in Agents, n \in Networks, v \in VirtualIPs :
        m = req[r].machine /\ n = req[r].network /\ v = req[r].vip /\ v # NoIP
    BY <1>1, <1>2 DEF Carries, Pending
<1>4. m \in Machines /\ m \notin Devices /\ lock[n] = r
    BY <1>1, <1>3, MembershipAssumption DEF Machines, IInv, LockHeld, Locked
<1>5. CASE /\ ~VirtualIPConflict(m, n, v)
           /\ StoreRow(m, RegisteredRow(m, n, v, ""))
           /\ Respond(r) /\ Unlock(r)
  <2>1. peers'[m] = RegisteredRow(m, n, v, "")
    BY <1>4, <1>5 DEF StoreRow, IInv, TypeOK
  <2>2. peers' = [peers EXCEPT ![m] = peers'[m]]
    BY <1>5, <2>1 DEF StoreRow
  <2>3. /\ peers'[m] \in Row
        /\ peers'[m].network = n /\ peers'[m].vip = v
        /\ peers'[m].id = IF peers[m] = NONE THEN nextId ELSE peers[m].id
        /\ peers[m] # NONE => peers'[m].status = peers[m].status
    <3>1. TypeOK /\ "" \in {"", "approved"}
        BY DEF IInv
    <3>2. /\ RegisteredRow(m, n, v, "") \in Row
          /\ RegisteredRow(m, n, v, "").network = n
          /\ RegisteredRow(m, n, v, "").vip = v
          /\ RegisteredRow(m, n, v, "").id = IF peers[m] = NONE THEN nextId ELSE peers[m].id
          /\ peers[m] # NONE => RegisteredRow(m, n, v, "").status = peers[m].status
        BY <1>4, <3>1, RegisteredRowFacts
    <3> QED
        BY <2>1, <3>2
  <2>4. /\ lock' \in [Networks -> Requests \cup {NONE}]
        /\ \A x \in Networks : lock[x] \notin {r, NONE} => lock'[x] = lock[x]
    BY <1>3, <1>4, <1>5 DEF Unlock, IInv, TypeOK
  <2>5. /\ nextId' = IF peers[m] = NONE THEN nextId + 1 ELSE nextId
        /\ req' = [req EXCEPT ![r] = Idle]
        /\ ~VirtualIPConflict(m, peers'[m].network, peers'[m].vip)
        /\ peers'[m].vip # NoIP /\ lock[peers'[m].network] = r
    BY <1>3, <1>4, <1>5, <2>3 DEF StoreRow, Respond, Goto
  <2> QED
    BY <1>1, <1>4, <2>2, <2>3, <2>4, <2>5, StoreStep
<1>6. CASE /\ UNCHANGED <<peers, nextId>> /\ Respond(r) /\ Unlock(r)
    BY <1>1, <1>3, <1>4, <1>6, RespondStep DEF Unlock
<1>7. CASE /\ UNCHANGED <<peers, nextId, lock>> /\ req[r].attempt < maxRegisterAttempts
           /\ req' = [req EXCEPT ![r] = [req[r] EXCEPT !.pc = "register_list", !.attempt = @ + 1]]
  <2>1. req'[r] = [req[r] EXCEPT !.pc = "register_list", !.attempt = @ + 1]
    BY <1>7 DEF IInv, TypeOK
  <2>2. req[r].attempt + 1 \in 1 .. maxRegisterAttempts
    BY <1>2, <1>7 DEF Pending, maxRegisterAttempts
  <2>3. /\ req'[r] \in Pending /\ req'[r].pc = "register_list" /\ req'[r].network = req[r].network
        /\ req'[r].machine = req[r].machine /\ req'[r].id = req[r].id
    BY <1>2, <2>1, <2>2 DEF Pending, Pc
  <2>4. Carries(req[r])' /\ Keeps(req[r])'
    BY <1>1, <1>2, <1>7, <2>3 DEF Carries, Keeps
  <2>5. req' = [req EXCEPT ![r] = req'[r]]
    BY <1>7, <2>1
  <2> QED
    BY <1>1, <1>3, <1>4, <1>7, <2>3, <2>4, <2>5, RequestStep DEF InOrder, IInv, TypeOK
<1> QED
    BY <1>3, <1>5, <1>6, <1>7 DEF RegisterStore, RegisterConflict, Goto

-----------------------------------------------------------------------------
\* Every step of the server keeps the invariant.
LEMMA NextIInv == IInv /\ [Next]_vars => IInv'
<1> SUFFICES ASSUME IInv, [Next]_vars PROVE IInv'
    OBVIOUS
<1>1. ASSUME NEW r \in Requests, Begin(r) PROVE IInv'
    BY <1>1, BeginStep, ApproveStep DEF Begin
<1>2. ASSUME NEW r \in Requests, Continue(r) PROVE IInv'
  <2>1. CASE JoinList(r) \/ ApproveList(r)
    BY <2>1, ListStep
  <2>2. CASE JoinStore(r) \/ JoinPending(r)
    BY <2>2, JoinStoreStep, JoinPendingStep
  <2>3. CASE RejectStore(r) \/ KickStore(r)
    BY <2>3, RemovalSteps
  <2>4. CASE ApproveStore(r)
    BY <2>4, ApproveStoreStep
  <2>5. CASE RegisterList(r) \/ RegisterStore(r)
    BY <2>5, RegisterListStep, RegisterStoreStep
  <2> QED
    BY <1>2, <2>1, <2>2, <2>3, <2>4, <2>5 DEF Continue
<1>3. ASSUME NEW r \in Requests, RegisterLock(r) \/ StatementFails(r) PROVE IInv'
    BY <1>3, RegisterLockStep, StatementFailsStep
<1>4. CASE \E a \in Agents, n \in Networks : Unregister(a, n)
    BY <1>4, RemovalSteps
<1>5. CASE \E n \in Networks : DeleteNetwork(n)
    BY <1>5, DeleteNetworkStep
<1>6. CASE UNCHANGED vars
  <2>1. UNCHANGED <<nextId, active, lock, approvals>> /\ UNCHANGED req /\ UNCHANGED peers
    BY <1>6 DEF vars
  <2> QED
    BY <2>1, DemoteStep DEF IInv, TypeOK
<1> QED
    BY <1>1, <1>2, <1>3, <1>4, <1>5, <1>6 DEF Next

\* The inductive invariant holds in every reachable state of the handlers' code.
THEOREM MembershipInvariant == Spec => []IInv
<1> QED
    BY InitIInv, NextIInv, PTL DEF Spec

\* Concurrent joins, approvals and registrations never give two members of one
\* network the same address.
THEOREM MembershipVirtualIPs == Spec => []VirtualIPsUnique
<1>1. IInv => VirtualIPsUnique
    BY DEF IInv
<1> QED
    BY <1>1, MembershipInvariant, PTL

\* Whoever the server takes for approved has an address.
THEOREM MembershipApproved == Spec => []ApprovedHasAddress
<1>1. IInv => ApprovedHasAddress
    BY DEF IInv
<1> QED
    BY <1>1, MembershipInvariant, PTL

\* No device is approved in a manual network unless its owner asked for that row.
THEOREM MembershipAdmission == Spec => []NoAdmissionWithoutOwner
<1>1. IInv => NoAdmissionWithoutOwner
    BY DEF IInv
<1> QED
    BY <1>1, MembershipInvariant, PTL
-----------------------------------------------------------------------------
\* What one step can do to a row that stays: reject it, carry out an approval of
\* it, or give it the network and address of a join or registration.
LEMMA RowChange ==
    ASSUME IInv, [Next]_vars, NEW m \in Machines, peers[m] # NONE, peers'[m] # NONE
    PROVE  \/ peers'[m] = peers[m]
           \/ peers'[m] = [peers[m] EXCEPT !.status = "rejected"]
           \/ \E r \in Requests : req[r].pc = "approve_store" /\ req[r].id = peers[m].id
           \/ \E r \in Requests :
                /\ req[r].pc \in {"join_store", "register_store"} /\ req[r].machine = m
                /\ peers'[m] = [peers[m] EXCEPT !.network = req[r].network, !.vip = req[r].vip]
<1> SUFFICES ASSUME peers'[m] # peers[m]
             PROVE  \/ peers'[m] = [peers[m] EXCEPT !.status = "rejected"]
                    \/ \E r \in Requests : req[r].pc = "approve_store" /\ req[r].id = peers[m].id
                    \/ \E r \in Requests :
                         /\ req[r].pc \in {"join_store", "register_store"} /\ req[r].machine = m
                         /\ peers'[m] = [peers[m] EXCEPT !.network = req[r].network, !.vip = req[r].vip]
    OBVIOUS
<1> USE DEF IInv, TypeOK
<1>1. ASSUME NEW r \in Requests, JoinStore(r) \/ RegisterStore(r)
      PROVE  /\ req[r].pc \in {"join_store", "register_store"} /\ req[r].machine = m
             /\ peers'[m] = [peers[m] EXCEPT !.network = req[r].network, !.vip = req[r].vip]
    BY <1>1 DEF JoinStore, RegisterStore, RegisterConflict, StoreRow, RegisteredRow
<1>2. ASSUME NEW r \in Requests, JoinPending(r) PROVE FALSE
    BY <1>2 DEF JoinPending, StoreRow, PendingRow
<1>3. ASSUME NEW r \in Requests, ApproveStore(r)
      PROVE  req[r].pc = "approve_store" /\ req[r].id = peers[m].id
    BY <1>3 DEF ApproveStore, MachineOf
<1>4. ASSUME NEW r \in Requests, RejectStore(r)
      PROVE  peers'[m] = [peers[m] EXCEPT !.status = "rejected"]
    BY <1>4 DEF RejectStore
<1>5. ASSUME NEW r \in Requests, KickStore(r) PROVE FALSE
    BY <1>5 DEF KickStore
<1>6. ASSUME NEW a \in Agents, NEW n \in Networks, Unregister(a, n) PROVE FALSE
    BY <1>6 DEF Unregister
<1>7. ASSUME NEW r \in Requests, \/ JoinList(r) \/ ApproveList(r) \/ RegisterList(r)
                                 \/ RegisterLock(r) \/ StatementFails(r) \/ Begin(r)
      PROVE  FALSE
    BY <1>7 DEF JoinList, ApproveList, RegisterList, RegisterLock, StatementFails, Begin,
                Join, Register, Approve, Reject, Kick
<1>8. ASSUME NEW n \in Networks, DeleteNetwork(n) PROVE FALSE
    BY <1>8 DEF DeleteNetwork
<1>9. UNCHANGED vars => FALSE
    BY DEF vars
<1> QED
    BY <1>1, <1>2, <1>3, <1>4, <1>5, <1>6, <1>7, <1>8, <1>9 DEF Next, Continue

\* A rejected row is lifted only by carrying out an approval of that row.
THEOREM MembershipRejection == Spec => RejectionSticks
<1> DEFINE Sticks ==
        \A m \in Machines :
            (/\ peers[m] # NONE /\ peers'[m] # NONE
             /\ peers[m].id = peers'[m].id
             /\ peers[m].status = "rejected" /\ peers'[m].status # "rejected")
            => \E r \in Requests : req[r].pc = "approve_store" /\ req[r].id = peers[m].id
<1>1. ASSUME IInv, [Next]_vars PROVE Sticks
  <2> SUFFICES ASSUME NEW m \in Machines, peers[m] # NONE, peers'[m] # NONE,
                      peers[m].status = "rejected", peers'[m].status # "rejected"
               PROVE  \E r \in Requests : req[r].pc = "approve_store" /\ req[r].id = peers[m].id
    OBVIOUS
  <2>1. peers[m] \in Row
    BY <1>1 DEF IInv, TypeOK
  <2>2. ASSUME NEW r \in Requests,
               peers'[m] = [peers[m] EXCEPT !.network = req[r].network, !.vip = req[r].vip]
        PROVE  FALSE
    BY <2>1, <2>2 DEF Row
  <2>3. peers'[m] # [peers[m] EXCEPT !.status = "rejected"]
    BY <2>1 DEF Row
  <2>4. \/ peers'[m] = peers[m]
        \/ peers'[m] = [peers[m] EXCEPT !.status = "rejected"]
        \/ \E r \in Requests : req[r].pc = "approve_store" /\ req[r].id = peers[m].id
        \/ \E r \in Requests :
             /\ req[r].pc \in {"join_store", "register_store"} /\ req[r].machine = m
             /\ peers'[m] = [peers[m] EXCEPT !.network = req[r].network, !.vip = req[r].vip]
    BY <1>1, RowChange
  <2> QED
    BY <2>2, <2>3, <2>4
<1>2. IInv /\ [Next]_vars => [Sticks]_vars
    BY <1>1
<1>3. [][Sticks]_vars => RejectionSticks
    BY DEF RejectionSticks
<1> QED
    BY <1>2, <1>3, MembershipInvariant, PTL DEF Spec

\* An agent that registers again keeps its address.
THEOREM MembershipAgentAddress == Spec => AgentAddressSticks
<1> DEFINE Sticks ==
        \A a \in Agents :
            (/\ peers[a] # NONE /\ peers'[a] # NONE
             /\ peers[a].id = peers'[a].id /\ peers[a].network = peers'[a].network
             /\ peers[a].status = "" /\ active[peers[a].network])
            => peers'[a].vip = peers[a].vip
<1>1. ASSUME IInv, [Next]_vars PROVE Sticks
  <2> SUFFICES ASSUME NEW a \in Agents, peers[a] # NONE, peers'[a] # NONE,
                      peers[a].network = peers'[a].network,
                      peers[a].status = "", active[peers[a].network]
               PROVE  peers'[a].vip = peers[a].vip
    OBVIOUS
  <2>1. a \in Machines /\ a \notin Devices /\ peers[a] \in Row
    BY <1>1, MembershipAssumption DEF IInv, TypeOK, Machines
  <2>2. CASE \E r \in Requests : req[r].pc = "approve_store" /\ req[r].id = peers[a].id
    BY <1>1, <2>2, PendingFacts DEF Keeps, Unjudged
  <2>3. CASE \E r \in Requests :
                /\ req[r].pc \in {"join_store", "register_store"} /\ req[r].machine = a
                /\ peers'[a] = [peers[a] EXCEPT !.network = req[r].network, !.vip = req[r].vip]
    <3>1. PICK r \in Requests :
                /\ req[r].pc \in {"join_store", "register_store"} /\ req[r].machine = a
                /\ peers'[a] = [peers[a] EXCEPT !.network = req[r].network, !.vip = req[r].vip]
        BY <2>3
    <3>2. Carries(req[r]) /\ Keeps(req[r])
        BY <1>1, <3>1, PendingFacts
    <3>3. req[r].pc = "register_store"
        BY <2>1, <3>1, <3>2 DEF Carries
    <3>4. peers'[a].network = req[r].network /\ peers'[a].vip = req[r].vip
        BY <2>1, <3>1 DEF Row
    <3> QED
        BY <3>1, <3>2, <3>3, <3>4 DEF Keeps, Unjudged
  <2>4. CASE peers'[a] = [peers[a] EXCEPT !.status = "rejected"]
    BY <2>1, <2>4 DEF Row
  <2> QED
    BY <1>1, <2>1, <2>2, <2>3, <2>4, RowChange
<1>2. IInv /\ [Next]_vars => [Sticks]_vars
    BY <1>1
<1>3. [][Sticks]_vars => AgentAddressSticks
    BY DEF AgentAddressSticks
<1> QED
    BY <1>2, <1>3, MembershipInvariant, PTL DEF Spec
=============================================================================
