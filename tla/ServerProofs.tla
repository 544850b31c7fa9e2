---------------------------- MODULE ServerProofs ----------------------------
(* Proofs about a server's start-up (Migrate), its rate limiter              *)
(* (RateLimiter) and their composition (Server), for any number of servers,  *)
(* files and clients, and any rate, capacity, ttl and length of headers.     *)
EXTENDS Server, WellFoundedInduction, TLAPS

-----------------------------------------------------------------------------
(* Migrate: a server between its lock and its unlock holds the lock, has     *)
(* seen all files before its next one applied, and applies only what is not. *)

InLock(s) == pc[s] \in {"check", "apply"}

\* Who is migrating has the lock: at most one server is.
Holds == \A s \in Servers : InLock(s) => lock = s

\* What a migrating server knows of the files.
Progress ==
    \A s \in Servers :
        /\ pc[s] = "lock" => next[s] = 1
        /\ InLock(s) => /\ next[s] \in 1 .. Files[s] + 1
                        /\ \A f \in 1 .. Files[s] : f < next[s] => f \in applied
        /\ pc[s] = "apply" => next[s] <= Files[s] /\ next[s] \notin applied

MInv == MTypeOK /\ Holds /\ Progress /\ AppliedInOrder /\ ServesMigrated /\ NobodyClashes

\* A server's files are files.
LEMMA FilesOfServers == \A s \in Servers : \A f \in 1 .. Files[s] : f \in AllFiles
BY DEF AllFiles

\* The invariant holds when nothing has started.
LEMMA MInitInv == MInit => MInv
BY MigrateAssumption DEF MInit, MInv, MTypeOK, Holds, InLock, Progress, AppliedInOrder,
   ServesMigrated, NobodyClashes

\* Every step of every server keeps the invariant.
LEMMA MNextInv == MInv /\ [MNext]_migrateVars => MInv'
<1> SUFFICES ASSUME MInv, [MNext]_migrateVars PROVE MInv'
    OBVIOUS
<1> USE MigrateAssumption DEF MInv, MTypeOK
<1>1. CASE UNCHANGED migrateVars
  BY <1>1 DEF migrateVars, Holds, InLock, Progress, AppliedInOrder, ServesMigrated,
     NobodyClashes
<1>2. ASSUME NEW s \in Servers, Start(s) PROVE MInv'
  BY <1>2 DEF Start, Holds, InLock, Progress, AppliedInOrder, ServesMigrated, NobodyClashes
<1>3. ASSUME NEW s \in Servers, AcquireLock(s) PROVE MInv'
  <2>1. \A t \in Servers : ~InLock(t)
    BY <1>3 DEF AcquireLock, LockFree, Holds
  <2>2. next[s] = 1
    BY <1>3 DEF AcquireLock, Progress
  <2> QED
    BY <1>3, <2>1, <2>2 DEF AcquireLock, Holds, InLock, Progress, AppliedInOrder,
       ServesMigrated, NobodyClashes
<1>4. ASSUME NEW s \in Servers, CheckFile(s) PROVE MInv'
  BY <1>4 DEF CheckFile, Finished, Holds, InLock, Progress, AppliedInOrder, ServesMigrated,
     NobodyClashes
<1>5. ASSUME NEW s \in Servers, ApplyFile(s) PROVE MInv'
  BY <1>5, FilesOfServers DEF ApplyFile, Marked, Holds, InLock, Progress, AppliedInOrder,
     ServesMigrated, NobodyClashes
<1>6. ASSUME NEW s \in Servers, Serve(s) PROVE MInv'
  BY <1>6 DEF Serve, Finished, Unlocked, Holds, InLock, Progress, AppliedInOrder,
     ServesMigrated, NobodyClashes
<1>7. ASSUME NEW s \in Servers, Crash(s) PROVE MInv'
  BY <1>7 DEF Crash, Holds, InLock, Progress, AppliedInOrder, ServesMigrated, NobodyClashes
<1> QED
  BY <1>1, <1>2, <1>3, <1>4, <1>5, <1>6, <1>7 DEF MNext, Preparing

\* The invariant holds in every reachable state.
LEMMA MInvariant == MSpec => []MInv
<1>1. MInit => MInv BY MInitInv
<1>2. MInv /\ [MNext]_migrateVars => MInv' BY MNextInv
<1> QED BY <1>1, <1>2, PTL DEF MSpec

-----------------------------------------------------------------------------
(* RateLimiter: it implements the ideal token bucket. *)

Bucket == [tokens : 0 .. Capacity, last : 0 .. now]

\* Buckets are never overdrawn or overfull, and were refilled in the past.
RInv ==
    /\ now \in Nat
    /\ buckets \in [Addresses -> Bucket \cup {NONE}]

\* NONE is no bucket.
LEMMA NoneIsNoBucket == ASSUME RInv PROVE NONE \notin Bucket
BY RateLimiterAssumption DEF RInv, Bucket

\* min64 is the lower of two numbers.
LEMMA Min64 ==
    ASSUME NEW a \in Int, NEW b \in Int
    PROVE  min64(a, b) \in Int /\ min64(a, b) <= a /\ min64(a, b) <= b /\ min64(a, b) \in {a, b}
BY DEF min64

\* What flows in is a natural number, and Rate more after another unit of time.
LEMMA Flow ==
    ASSUME NEW d \in Nat
    PROVE  d * Rate \in Nat /\ (d + 1) * Rate = d * Rate + Rate /\ 0 * Rate = 0
BY RateLimiterAssumption

\* After more than ttl a bucket is full again.
LEMMA Overflow ==
    ASSUME NEW d \in Nat, d > TTL
    PROVE  d * Rate >= Capacity
<1>1. PICK e \in Nat : d = TTL + e
  BY RateLimiterAssumption
<1>2. d * Rate = TTL * Rate + e * Rate /\ e * Rate \in Nat
  BY <1>1, RateLimiterAssumption
<1> QED
  BY <1>2, RateLimiterAssumption

\* A bucket has between none and Capacity tokens at any time.
LEMMA RefilledRange ==
    ASSUME RInv, NEW b \in Bucket
    PROVE  Refilled(b) \in 0 .. Capacity
<1>1. now - b.last \in Nat
  BY DEF RInv, Bucket
<1>2. (now - b.last) * Rate \in Nat
  BY <1>1, Flow
<1> QED
  BY <1>2, RateLimiterAssumption DEF Refilled, min64, Bucket

\* gc changes nothing that could be noticed.
LEMMA CollectedLevel ==
    ASSUME RInv, NEW c \in Addresses
    PROVE  /\ Collected[c] \in Bucket \cup {NONE}
           /\ Tokens(c) = Level[c]
<1>1. Collected \in [Addresses -> Bucket \cup {NONE}]
  BY DEF RInv, Collected
<1>2. CASE Collected[c] = buckets[c]
  BY <1>1, <1>2 DEF Tokens, Level
<1>3. CASE Collected[c] # buckets[c]
  <2>1. buckets[c] # NONE /\ Stale(buckets[c]) /\ Collected[c] = NONE
    BY <1>3 DEF Collected, RInv
  <2>2. buckets[c] \in Bucket
    BY <2>1 DEF RInv
  <2>3. now - buckets[c].last \in Nat /\ now - buckets[c].last > TTL
    BY <2>1, <2>2 DEF Stale, RInv, Bucket
  <2>4. (now - buckets[c].last) * Rate >= Capacity /\ (now - buckets[c].last) * Rate \in Nat
    BY <2>3, Overflow, Flow
  <2>5. Refilled(buckets[c]) = Capacity
    BY <2>2, <2>4, RateLimiterAssumption DEF Refilled, min64, Bucket
  <2> QED
    BY <1>1, <2>1, <2>5 DEF Tokens, Level
<1> QED
  BY <1>2, <1>3

\* The level of every address is a number of tokens.
LEMMA LevelRange ==
    ASSUME RInv, NEW c \in Addresses
    PROVE  Level[c] \in 0 .. Capacity
BY RefilledRange, RateLimiterAssumption DEF Level, RInv

\* A set of natural numbers has a least one.
LEMMA Least ==
    ASSUME NEW T, T \subseteq Nat, T # {}
    PROVE  \E n \in T : \A m \in T : n <= m
<1>1. IsWellFoundedOn(OpToRel(<, Nat), Nat)
  BY NatLessThanWellFounded
<1>2. PICK n \in T : \A m \in T : ~ (<<m, n>> \in OpToRel(<, Nat))
  BY <1>1, WFMin
<1>3. \A m \in T : ~ (m < n)
  BY <1>2 DEF OpToRel
<1> QED
  BY <1>3

\* What parseForwardedFor finds is an address.
LEMMA ForwardedAddress ==
    ASSUME NEW f \in Seq(Field)
    PROVE  parseForwardedFor(f) \in Field
<1> DEFINE parsed == {n \in DOMAIN f : f[n] # NONE}
<1>1. CASE parsed = {}
  BY <1>1 DEF parseForwardedFor, Field
<1>2. CASE parsed # {}
  <2>1. parsed \subseteq Nat
    OBVIOUS
  <2>2. \E n \in parsed : \A m \in parsed : n <= m
    BY <1>2, <2>1, Least
  <2>3. (CHOOSE n \in parsed : \A m \in parsed : n <= m) \in DOMAIN f
    BY <2>2
  <2> QED
    BY <1>2, <2>3 DEF parseForwardedFor
<1> QED
  BY <1>1, <1>2

\* The X-Forwarded-For of a request, a proxy's entry included, is a sequence of fields.
LEMMA ForwardedForSeq ==
    ASSUME NEW c \in Clients, NEW f \in ForwardedFor
    PROVE  f \in Seq(Field) /\ Append(f, c) \in Seq(Field)
<1>1. f \in Seq(Field)
  BY RateLimiterAssumption DEF ForwardedFor
<1> QED
  BY <1>1 DEF Field, Addresses

\* A request is counted for an address, and one that is vouched for, for its sender.
LEMMA Counted ==
    ASSUME NEW c \in Clients
    PROVE  /\ \A r \in Direct(c) \cup Proxied(c, {c}) : RealIP(r) = c
           /\ \A r \in Proxied(c, Field) : RealIP(r) \in Addresses
<1>1. ASSUME NEW r \in Direct(c) PROVE RealIP(r) = c
  BY <1>1, RateLimiterAssumption DEF Direct, RealIP
<1>2. ASSUME NEW r \in Proxied(c, {c}) PROVE RealIP(r) = c
  BY <1>2, RateLimiterAssumption DEF Proxied, RealIP, Addresses
<1>3. ASSUME NEW r \in Proxied(c, Field) PROVE RealIP(r) \in Addresses
  <2>1. r.remote \in Proxies /\ r.real \in Field /\ r.forwarded \in Seq(Field)
    BY <1>3, ForwardedForSeq DEF Proxied
  <2>2. parseForwardedFor(r.forwarded) \in Field
    BY <2>1, ForwardedAddress
  <2> QED
    BY <2>1, <2>2 DEF RealIP, Field, Addresses
<1> QED
  BY <1>1, <1>2, <1>3

\* Every step keeps RInv.
LEMMA RNextInv == RInv /\ [RNext]_rvars => RInv'
<1> SUFFICES ASSUME RInv, [RNext]_rvars PROVE RInv'
    OBVIOUS
<1>1. CASE UNCHANGED rvars
  BY <1>1 DEF rvars, RInv, Bucket
<1>2. CASE Tick
  BY <1>2 DEF Tick, RInv, Bucket
<1>3. CASE Restarted
  BY <1>3 DEF Restarted, NoBuckets, RInv, Bucket
<1>4. ASSUME NEW c \in Clients, NEW k \in Addresses, NEW v \in BOOLEAN, Allow(k, c, v)
      PROVE  RInv'
  <2>1. Tokens(k) \in 0 .. Capacity
    BY CollectedLevel, LevelRange
  <2>2. Collected \in [Addresses -> Bucket \cup {NONE}]
    BY DEF RInv, Collected
  <2>3. now' = now /\ Bucket' = Bucket
    BY <1>4 DEF Allow, Bucket
  <2>4. [tokens |-> IF Tokens(k) >= 1 THEN Tokens(k) - 1 ELSE Tokens(k), last |-> now] \in Bucket
    BY <2>1, RateLimiterAssumption DEF RInv, Bucket
  <2> QED
    BY <1>4, <2>2, <2>3, <2>4 DEF Allow, RInv
<1>5. ASSUME NEW c \in Clients, Request(c) PROVE RInv'
  BY <1>4, <1>5, Counted DEF Request, Addresses
<1> QED
  BY <1>1, <1>2, <1>3, <1>5 DEF RNext

\* A step of the limiter is a step of the ideal bucket.
LEMMA RStep == RInv /\ RInv' /\ [RNext]_rvars => [Ideal!BNext]_<<Level, answer>>
<1> SUFFICES ASSUME RInv, RInv', [RNext]_rvars PROVE [Ideal!BNext]_<<Level, answer>>
    OBVIOUS
<1>1. CASE UNCHANGED rvars
  BY <1>1 DEF rvars, Level, Refilled
<1>2. CASE Tick
  <2>1. ASSUME NEW c \in Addresses PROVE Level'[c] = Ideal!Lower(Level[c] + Rate, Capacity)
    <3>1. CASE buckets[c] = NONE
      BY <1>2, <3>1, RateLimiterAssumption DEF Tick, Level, Ideal!Lower
    <3>2. CASE buckets[c] # NONE
      <4>1. buckets[c] \in Bucket /\ now - buckets[c].last \in Nat
        BY <3>2 DEF RInv, Bucket
      <4>2. now' - buckets[c].last = (now - buckets[c].last) + 1
        BY <1>2, <4>1 DEF Tick, RInv, Bucket
      <4>3. /\ (now' - buckets[c].last) * Rate = (now - buckets[c].last) * Rate + Rate
            /\ (now - buckets[c].last) * Rate \in Nat
        BY <4>1, <4>2, Flow
      <4>4. Level[c] = min64(buckets[c].tokens + (now - buckets[c].last) * Rate, Capacity)
        BY <3>2 DEF Level, Refilled
      <4>5. Level'[c] = min64(buckets[c].tokens + (now' - buckets[c].last) * Rate, Capacity)
        BY <1>2, <3>2 DEF Tick, Level, Refilled
      <4>6. buckets[c].tokens \in Nat
        BY <4>1, RateLimiterAssumption DEF Bucket
      <4> QED
        BY <4>3, <4>4, <4>5, <4>6, RateLimiterAssumption DEF min64, Ideal!Lower
    <3> QED
      BY <3>1, <3>2
  <2>2. Level' = [c \in Addresses |-> Ideal!Lower(Level[c] + Rate, Capacity)]
    BY <2>1 DEF Level
  <2> QED
    BY <1>2, <2>2 DEF Tick, Ideal!BNext, Ideal!Refill
<1>3. CASE Restarted
  BY <1>3 DEF Restarted, NoBuckets, Level, Ideal!BNext, Ideal!Renew
<1>4. ASSUME NEW s \in Clients, NEW v \in BOOLEAN, NEW k \in Addresses, Allow(k, s, v), v => k = s
      PROVE  Ideal!Take(s, v, k)
  <2> DEFINE b == [tokens |-> IF Tokens(k) >= 1 THEN Tokens(k) - 1 ELSE Tokens(k), last |-> now]
  <2>1. Tokens(k) = Level[k] /\ Level[k] \in 0 .. Capacity
    BY CollectedLevel, LevelRange
  <2>2. Collected \in [Addresses -> Bucket \cup {NONE}]
    BY DEF RInv, Collected
  <2>3. now' = now /\ buckets' = [Collected EXCEPT ![k] = b]
    BY <1>4 DEF Allow
  <2>4. b # NONE /\ b.last = now /\ b.tokens \in 0 .. Capacity
    BY <2>1, RateLimiterAssumption DEF RInv
  <2>5. Level'[k] = b.tokens
    <3>1. Level'[k] = min64(b.tokens + (now - now) * Rate, Capacity)
      BY <2>2, <2>3, <2>4 DEF Level, Refilled
    <3>2. (now - now) * Rate = 0
      BY Flow DEF RInv
    <3> QED
      BY <2>4, <3>1, <3>2, RateLimiterAssumption DEF min64
  <2>6. ASSUME NEW d \in Addresses, d # k PROVE Level'[d] = Level[d]
    <3>1. buckets'[d] = Collected[d]
      BY <2>2, <2>3, <2>6
    <3>2. Level'[d] = Tokens(d)
      BY <2>3, <3>1 DEF Level, Tokens, Refilled
    <3> QED
      BY <3>2, CollectedLevel
  <2>7. Level' = IF Level[k] >= 1 THEN [Level EXCEPT ![k] = @ - 1] ELSE Level
    BY <2>1, <2>5, <2>6 DEF Level
  <2> QED
    BY <1>4, <2>1, <2>7 DEF Allow, Ideal!Take
<1>5. ASSUME NEW s \in Clients, Request(s)
      PROVE  \E v \in BOOLEAN, k \in Addresses : Ideal!Take(s, v, k)
  <2>1. CASE \E k \in {RealIP(r) : r \in Direct(s) \cup Proxied(s, {s})} : Allow(k, s, TRUE)
    <3>1. Allow(s, s, TRUE) /\ s \in Addresses
      BY <2>1, Counted DEF Addresses
    <3> QED
      BY <1>4, <3>1
  <2>2. CASE \E k \in {RealIP(r) : r \in Proxied(s, Field)} : Allow(k, s, FALSE)
    BY <1>4, <2>2, Counted
  <2> QED
    BY <1>5, <2>1, <2>2 DEF Request
<1> QED
  BY <1>1, <1>2, <1>3, <1>5 DEF RNext, Ideal!BNext

\* The limiter starts as the ideal bucket does.
LEMMA RInitStep == RInit => RInv /\ Ideal!BInit
BY DEF RInit, RInv, NoBuckets, Bucket, Ideal!BInit, Level

\* Allow, with its lazy refills and its gc, implements the ideal token bucket, and
\* RealIP counts a request that comes directly, or from a proxy that sets X-Real-IP, for
\* its sender.
THEOREM LimiterImplementsBucket == RSpec => ImplementsBucket
<1>1. RInit => RInv /\ Ideal!BInit BY RInitStep
<1>2. RInv /\ [RNext]_rvars => RInv' BY RNextInv
<1>3. RInv /\ RInv' /\ [RNext]_rvars => [Ideal!BNext]_<<Level, answer>> BY RStep
<1> QED BY <1>1, <1>2, <1>3, PTL DEF RSpec, ImplementsBucket, Ideal!BSpec

-----------------------------------------------------------------------------
(* Server: a server that migrates and serves takes only steps of Migrate and *)
(* of RateLimiter, so what is proved of them holds of it.                    *)

\* As far as the database is concerned the servers run Migrate.
LEMMA MigratePart == Spec => MSpec
<1>1. Init => MInit BY DEF Init
<1>2. [Next]_vars => [MNext]_migrateVars
  <2>1. CASE UNCHANGED vars
    BY <2>1 DEF vars
  <2>2. CASE \E s \in Servers : Preparing(s) \/ Crash(s)
    BY <2>2 DEF MNext
  <2>3. CASE \E s \in Servers \ {me} : Serve(s)
    BY <2>3 DEF MNext
  <2>4. CASE Open
    BY <2>4, ServerAssumption DEF MNext, Open
  <2>5. CASE UNCHANGED migrateVars
    BY <2>5
  <2> QED
    BY <2>1, <2>2, <2>3, <2>4, <2>5 DEF Next
<1> QED BY <1>1, <1>2, PTL DEF Spec, MSpec

\* As far as the limiter is concerned the server runs RateLimiter.
LEMMA LimiterPart == Spec => RSpec
<1>1. Init => RInit BY DEF Init
<1>2. [Next]_vars => [RNext]_rvars
  BY DEF Next, vars, RNext, Open
<1> QED BY <1>1, <1>2, PTL DEF Spec, RSpec

\* The variables of the migration keep their types.
THEOREM MigrateTypes == Spec => []MTypeOK
<1>1. MInv => MTypeOK BY DEF MInv
<1> QED BY <1>1, MigratePart, MInvariant, PTL

\* Migrate: the files of all releases take effect in order, each once, through any
\* number of crashes and servers.
THEOREM FilesAppliedInOrder == Spec => []AppliedInOrder
<1>1. MInv => AppliedInOrder BY DEF MInv
<1> QED BY <1>1, MigratePart, MInvariant, PTL

\* main: a server serves only with the schema of its release.
THEOREM ServersServeMigrated == Spec => []ServesMigrated
<1>1. MInv => ServesMigrated BY DEF MInv
<1> QED BY <1>1, MigratePart, MInvariant, PTL

\* The advisory lock keeps servers that start together from failing.
THEOREM ServersDoNotClash == Spec => []NobodyClashes
<1>1. MInv => NobodyClashes BY DEF MInv
<1> QED BY <1>1, MigratePart, MInvariant, PTL

\* The rate limiter of a server that migrates, serves and is restarted is that bucket.
THEOREM ServerImplementsBucket == Spec => ImplementsBucket
BY LimiterPart, LimiterImplementsBucket
=============================================================================
