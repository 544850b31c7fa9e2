---------------------------- MODULE RateLimiter ----------------------------
(***************************************************************************)
(* RateLimiter of server/internal/api/middleware/ratelimit.go behind       *)
(* RealIP of realip.go and, for some requests, a proxy (web/nginx.conf).   *)
(* A bucket is made at the first request counted for an address, refilled  *)
(* when there is another one, and deleted by gc when it was not used for   *)
(* ttl; Allow holds rl.mu throughout, so it is one step.  Time is counted  *)
(* in the unit in which a token flows in Rate times.                       *)
(***************************************************************************)
EXTENDS Integers, Sequences

CONSTANTS
    Clients,   \* client addresses
    Proxies,   \* addresses of trusted proxies
    NONE,
    Rate, Capacity, TTL,
    MaxTime,       \* bound: the clock
    MaxForwarded   \* bound: entries of a client's own X-Forwarded-For

Addresses == Clients \cup Proxies

ASSUME RateLimiterAssumption ==
    /\ Rate \in Nat /\ Capacity \in Nat \ {0} /\ TTL \in Nat
    /\ MaxTime \in Nat /\ MaxForwarded \in Nat
    /\ Rate * TTL >= Capacity         \* 300 s at 5, 60, 120 tokens; bursts 10, 120, 200
    /\ NONE \notin [tokens : Int, last : Int]
    /\ Clients \cap Proxies = {} /\ NONE \notin Addresses

VARIABLES
    now,      \* the clock
    buckets,  \* rl.buckets: address -> [tokens, last] or NONE
    lastGC,   \* rl.lastGC
    answer    \* the last request: whose, vouched for or not, counted for which address,
              \* and whether it was let through

rvars == <<now, buckets, lastGC, answer>>

NoBuckets == [k \in Addresses |-> NONE]

RInit ==
    /\ now = 0
    /\ buckets = NoBuckets
    /\ lastGC = 0
    /\ answer = NONE

Tick ==
    /\ now < MaxTime
    /\ now' = now + 1
    /\ UNCHANGED <<buckets, lastGC, answer>>

-----------------------------------------------------------------------------
(* Whom a request is counted for *)

\* What a header field may be parsed to: an address, or NONE when it is none.
Field == Addresses \cup {NONE}
ForwardedFor == UNION {[1 .. n -> Field] : n \in 0 .. MaxForwarded}

\* The leftmost entry that is an address.
parseForwardedFor(entries) ==
    LET parsed == {n \in DOMAIN entries : entries[n] # NONE}
    IN  IF parsed = {} THEN NONE
        ELSE entries[CHOOSE n \in parsed : \A m \in parsed : n <= m]

\* The address a request is counted for.  The headers of a trusted proxy count, those
\* of others do not.
RealIP(r) ==
    LET forwarded == parseForwardedFor(r.forwarded)
    IN  CASE r.remote \notin Proxies -> r.remote
          [] r.remote \in Proxies /\ r.real # NONE -> r.real
          [] r.remote \in Proxies /\ r.real = NONE /\ forwarded # NONE -> forwarded
          [] OTHER -> r.remote

\* A request as it reaches the server: from the client itself with the headers it
\* likes, or from a proxy, which may set X-Real-IP to the client's address (/api/,
\* /join/, /install.sh) or leave the client's own there (/health), and may append the
\* client's address to X-Forwarded-For.
Direct(c) == [remote : {c}, real : Field, forwarded : ForwardedFor]
Proxied(c, real) ==
    [remote : Proxies, real : real,
     forwarded : ForwardedFor \cup {Append(f, c) : f \in ForwardedFor}]

-----------------------------------------------------------------------------
(* The buckets *)

\* Mutant: buckets that are still in use are deleted, too.
Stale_Early(b) == now - b.last >= 1

\* gc deletes a bucket that was not used for longer than ttl.
Stale(b) == now - b.last > TTL

Collected ==
    IF now - lastGC > TTL
    THEN [k \in Addresses |-> IF buckets[k] # NONE /\ Stale(buckets[k]) THEN NONE ELSE buckets[k]]
    ELSE buckets

min64(a, b) == IF a < b THEN a ELSE b

\* The tokens of a bucket at this time (the code writes them back with each request).
Refilled(b) == min64(b.tokens + (now - b.last) * Rate, Capacity)

Tokens(key) == IF Collected[key] = NONE THEN Capacity ELSE Refilled(Collected[key])

\* Allow, for a request of client c that is counted for key.
Allow(key, c, vouched) ==
    LET ok == Tokens(key) >= 1
    IN  /\ lastGC' = IF now - lastGC > TTL THEN now ELSE lastGC
        /\ buckets' = [Collected EXCEPT ![key] =
                          [tokens |-> IF ok THEN Tokens(key) - 1 ELSE Tokens(key), last |-> now]]
        /\ answer' = [client |-> c, vouched |-> vouched, key |-> key, allowed |-> ok]
        /\ UNCHANGED now

\* A request of client c: its own address is vouched for by its connection, or by a
\* proxy that sets X-Real-IP; another proxy passes on what the client wrote.
Request(c) ==
    \/ \E key \in {RealIP(r) : r \in Direct(c) \cup Proxied(c, {c})} : Allow(key, c, TRUE)
    \/ \E key \in {RealIP(r) : r \in Proxied(c, Field)} : Allow(key, c, FALSE)

\* A new process: NewRateLimiter.
Restarted ==
    /\ buckets' = NoBuckets
    /\ lastGC' = now
    /\ UNCHANGED <<now, answer>>

RNext == Tick \/ Restarted \/ \E c \in Clients : Request(c)

RSpec == RInit /\ [][RNext]_rvars

-----------------------------------------------------------------------------
\* The tokens an address has, whether its bucket exists or not.
Level == [k \in Addresses |-> IF buckets[k] = NONE THEN Capacity ELSE Refilled(buckets[k])]

Ideal == INSTANCE TokenBucket WITH level <- Level

\* Allow, RealIP: with lazy refills and deleted buckets the limiter lets a request
\* through exactly when a bucket per address, refilled all the time, would; and what
\* comes from a client itself, whatever headers it made up, or from a proxy that sets
\* X-Real-IP, is counted for the client that sent it.  (Nothing is claimed of the
\* bucket a request is counted for when a trusted proxy passes on the client's own
\* headers: it is any the client names, by X-Real-IP or, failing that, as the leftmost
\* of X-Forwarded-For, or the proxy's.)
ImplementsBucket == Ideal!BSpec
=============================================================================
