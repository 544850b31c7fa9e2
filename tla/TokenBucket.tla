---------------------------- MODULE TokenBucket ----------------------------
(* What a rate limiter promises: every address has a bucket of Capacity      *)
(* tokens that Rate tokens a second flow into; a request is let through when *)
(* there is a token for it in the bucket it is counted for, which it takes.  *)
(* A request whose origin is vouched for is counted for its sender.          *)
EXTENDS Integers

CONSTANTS Clients, Addresses, Rate, Capacity, NONE

VARIABLES
    level,   \* the tokens of each address
    answer   \* the last request: [client, vouched, key, allowed], or NONE

Lower(x, y) == IF x < y THEN x ELSE y

BInit ==
    /\ level = [k \in Addresses |-> Capacity]
    /\ answer = NONE

Refill ==
    /\ level' = [k \in Addresses |-> Lower(level[k] + Rate, Capacity)]
    /\ UNCHANGED answer

Take(c, vouched, k) ==
    /\ vouched => k = c
    /\ answer' = [client |-> c, vouched |-> vouched, key |-> k, allowed |-> level[k] >= 1]
    /\ level' = IF level[k] >= 1 THEN [level EXCEPT ![k] = @ - 1] ELSE level

\* The process restarts; its buckets are full.
Renew ==
    /\ level' = [k \in Addresses |-> Capacity]
    /\ UNCHANGED answer

BNext ==
    \/ Refill
    \/ Renew
    \/ \E c \in Clients, vouched \in BOOLEAN, k \in Addresses : Take(c, vouched, k)

BSpec == BInit /\ [][BNext]_<<level, answer>>
=============================================================================
