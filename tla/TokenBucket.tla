---------------------------- MODULE TokenBucket ----------------------------
(***************************************************************************)
(* What the rate limiter promises: one bucket of tokens per client, for    *)
(* ever.  A bucket starts full, gains a unit with every tick of the clock, *)
(* and a request costs Cost units; it is let through if and only if its    *)
(* client's bucket has that many.  A bucket that lacks no more than Gift   *)
(* units may also be filled up at any time.  RateLimiter.tla, which keeps  *)
(* buckets only for the clients it has seen lately, implements this.       *)
(***************************************************************************)
EXTENDS Naturals

CONSTANTS
    Clients,    \* IP addresses
    Cost,       \* units that one request costs: ticks per request at the steady rate
    Burst,      \* requests that a full bucket is good for
    Gift        \* units that a bucket may be given on top

VARIABLES
    level,      \* level[c]: units in the bucket of client c
    verdict     \* verdict[c]: what became of the last request of c

Cap == Burst * Cost

Init ==
    /\ level = [c \in Clients |-> Cap]
    /\ verdict = [c \in Clients |-> "none"]

Tick ==
    /\ level' = [c \in Clients |-> IF level[c] < Cap THEN level[c] + 1 ELSE Cap]
    /\ UNCHANGED verdict

Allow(c) ==
    /\ level[c] >= Cost
    /\ level' = [level EXCEPT ![c] = @ - Cost]
    /\ verdict' = [verdict EXCEPT ![c] = "allowed"]

Deny(c) ==
    /\ level[c] < Cost
    /\ verdict' = [verdict EXCEPT ![c] = "denied"]
    /\ UNCHANGED level

TopUp ==
    /\ \E given \in SUBSET Clients :
          /\ \A c \in given : level[c] + Gift >= Cap
          /\ level' = [c \in Clients |-> IF c \in given THEN Cap ELSE level[c]]
    /\ UNCHANGED verdict

Next == Tick \/ TopUp \/ \E c \in Clients : Allow(c) \/ Deny(c)

Spec == Init /\ [][Next]_<<level, verdict>>

=============================================================================
