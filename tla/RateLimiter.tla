---------------------------- MODULE RateLimiter ----------------------------
(***************************************************************************)
(* The RateLimit middleware (src/internal/middleware/middleware.go): a map *)
(* from client IPs to token buckets, under a mutex that the handlers and   *)
(* the sweeping goroutine take.  The sweeper forgets the clients that have *)
(* not been seen for Idle ticks; who comes back later starts with a new,   *)
(* full bucket.                                                            *)
(*                                                                         *)
(* A bucket (rate.Limiter of golang.org/x/time) stores the tokens it had   *)
(* when it last allowed a request and works out from the clock what it has *)
(* now.  Time is counted in ticks, tokens in the units a bucket gains per  *)
(* tick, so that a request costs Cost units.  Each critical section reads  *)
(* the clock within one tick.                                              *)
(*                                                                         *)
(* Definitions with an underscore in their name are faulty variants of the *)
(* one that follows them: each makes some property below fail, none is     *)
(* part of the model.                                                      *)
(***************************************************************************)
EXTENDS Naturals

CONSTANTS
    Clients,    \* IP addresses
    Cost,       \* ticks per request at the steady rate, 1 / LIMITER_RPS
    Burst,      \* LIMITER_BURST
    Idle,       \* three minutes: how long a client is remembered
    Period,     \* one minute: how long the sweeper sleeps
    MaxNow      \* bound on the clock

Cap == Burst * Cost

(* What a forgotten client can gain by its new bucket.  Nothing checks     *)
(* LIMITER_RPS and LIMITER_BURST, which come from the environment: with a  *)
(* slow rate or a large burst a bucket is not full again by the time its   *)
(* client is forgotten, and the new one is.                                *)
Gift == IF Cap > Idle + 1 THEN Cap - (Idle + 1) ELSE 0

(* The rate is positive; a tick divides what the constants count.          *)
ASSUME LimiterAssumption ==
    /\ Cost \in Nat \ {0} /\ Burst \in Nat /\ Cap \in Nat
    /\ Idle \in Nat /\ Period \in Nat \ {0} /\ MaxNow \in Nat

VARIABLES
    now,        \* the clock
    known,      \* keys of the map `clients`
    tokens,     \* tokens[c]: units in the bucket of c at time last[c]
    last,       \* last[c]: when c was last allowed, or its bucket made
    lastSeen,   \* lastSeen[c]: when c was last seen
    sweptAt,    \* when the sweeper last ran
    verdict,    \* verdict[c]: what became of the last request of c
    spent,      \* spent[c]: units taken by all requests of c allowed so far (history)
    forgotten   \* forgotten[c]: how often the sweeper has dropped c (history)

vars == <<now, known, tokens, last, lastSeen, sweptAt, verdict, spent, forgotten>>

(* limiter.advance: what bucket c holds at the present time.               *)
Filled(c) ==
    IF tokens[c] + (now - last[c]) < Cap THEN tokens[c] + (now - last[c]) ELSE Cap

(* A client that is not in the map gets a new bucket, which is full.       *)
Level(c) == IF c \in known THEN Filled(c) ELSE Cap

-----------------------------------------------------------------------------

Init ==
    /\ now = 0
    /\ known = {}
    /\ tokens = [c \in Clients |-> 0]
    /\ last = [c \in Clients |-> 0]
    /\ lastSeen = [c \in Clients |-> 0]
    /\ sweptAt = 0
    /\ verdict = [c \in Clients |-> "none"]
    /\ spent = [c \in Clients |-> 0]
    /\ forgotten = [c \in Clients |-> 0]

(* The sweeper sleeps for Period and then runs; the mutex is only ever     *)
(* held for a moment, so it does not come later than that.                 *)
Tick ==
    /\ now < MaxNow
    /\ now < sweptAt + Period
    /\ now' = now + 1
    /\ UNCHANGED <<known, tokens, last, lastSeen, sweptAt, verdict, spent, forgotten>>

(* A request of c is let through: limiter.Allow stores what is left.       *)
Allow_ForgetsLast(c) ==
    /\ Level(c) >= Cost
    /\ known' = known \union {c}
    /\ lastSeen' = [lastSeen EXCEPT ![c] = now]
    /\ tokens' = [tokens EXCEPT ![c] = Level(c) - Cost]
    /\ verdict' = [verdict EXCEPT ![c] = "allowed"]
    /\ spent' = [spent EXCEPT ![c] = @ + Cost]
    /\ UNCHANGED <<now, last, sweptAt, forgotten>>

Allow_Unchecked(c) ==
    /\ known' = known \union {c}
    /\ lastSeen' = [lastSeen EXCEPT ![c] = now]
    /\ tokens' = [tokens EXCEPT ![c] = Level(c) - Cost]
    /\ last' = [last EXCEPT ![c] = now]
    /\ verdict' = [verdict EXCEPT ![c] = "allowed"]
    /\ spent' = [spent EXCEPT ![c] = @ + Cost]
    /\ UNCHANGED <<now, sweptAt, forgotten>>

Allow(c) ==
    /\ Level(c) >= Cost
    /\ known' = known \union {c}
    /\ lastSeen' = [lastSeen EXCEPT ![c] = now]
    /\ tokens' = [tokens EXCEPT ![c] = Level(c) - Cost]
    /\ last' = [last EXCEPT ![c] = now]
    /\ verdict' = [verdict EXCEPT ![c] = "allowed"]
    /\ spent' = [spent EXCEPT ![c] = @ + Cost]
    /\ UNCHANGED <<now, sweptAt, forgotten>>

(* A request of c is answered 429.  The bucket of a known client is left   *)
(* as it is; a new client's is made first (it is empty-handed only if a    *)
(* full bucket does not hold the price of one request, Burst = 0).         *)
Deny(c) ==
    /\ Level(c) < Cost
    /\ known' = known \union {c}
    /\ lastSeen' = [lastSeen EXCEPT ![c] = now]
    /\ tokens' = [tokens EXCEPT ![c] = IF c \in known THEN @ ELSE Cap]
    /\ last' = [last EXCEPT ![c] = IF c \in known THEN @ ELSE now]
    /\ verdict' = [verdict EXCEPT ![c] = "denied"]
    /\ UNCHANGED <<now, sweptAt, spent, forgotten>>

(* The sweeper's pass over the map.                                        *)
Stale_Early(c) == now - lastSeen[c] > 1

Stale(c) == now - lastSeen[c] > Idle

Sweep_One ==
    /\ now >= sweptAt + Period
    /\ \/ \E c \in known : /\ Stale(c)
                          /\ known' = known \ {c}
                          /\ forgotten' = [forgotten EXCEPT ![c] = @ + 1]
       \/ (\A c \in known : ~ Stale(c)) /\ UNCHANGED <<known, forgotten>>
    /\ sweptAt' = now
    /\ UNCHANGED <<now, tokens, last, lastSeen, verdict, spent>>

Sweep ==
    /\ now >= sweptAt + Period
    /\ LET swept == {c \in known : Stale(c)}
       IN  /\ known' = known \ swept
           /\ forgotten' = [c \in Clients |-> forgotten[c] + (IF c \in swept THEN 1 ELSE 0)]
    /\ sweptAt' = now
    /\ UNCHANGED <<now, tokens, last, lastSeen, verdict, spent>>

Next ==
    \/ Tick
    \/ \E c \in Clients : Allow(c) \/ Deny(c)
    \/ Sweep

Spec == Init /\ [][Next]_vars

-----------------------------------------------------------------------------
(***************************************************************************)
(* Properties.                                                             *)
(***************************************************************************)

(* The type of every variable; no clock reading lies in the future.        *)
TypeOK ==
    /\ now \in 0 .. MaxNow
    /\ known \subseteq Clients
    /\ tokens \in [Clients -> 0 .. Cap]
    /\ last \in [Clients -> 0 .. now]
    /\ lastSeen \in [Clients -> 0 .. now]
    /\ sweptAt \in 0 .. now
    /\ verdict \in [Clients -> {"none", "allowed", "denied"}]
    /\ spent \in [Clients -> Nat]
    /\ forgotten \in [Clients -> Nat]

(* Every request is allowed or denied exactly as if each client had had    *)
(* one bucket all the time, into which forgetting the client puts at most  *)
(* Gift units -- none at all when a bucket fills up in the idle time.      *)
Bucket == INSTANCE TokenBucket WITH level <- [c \in Clients |-> Level(c)]

ImplementsTokenBucket == Bucket!Spec

(* From the start to any moment, a client gets at most its burst, the      *)
(* steady rate and a gift for each time it was forgotten, however its      *)
(* requests and the sweeps fall; and to be forgotten once more it must     *)
(* stay away for more than the idle time.                                  *)
Gifts(c) == forgotten[c] * Gift
Away(c) == forgotten[c] * (Idle + 1)

RateBound == \A c \in Clients : spent[c] <= Cap + now + Gifts(c) /\ Away(c) <= now

(* The map forgets: no entry is older than the idle time and one period of *)
(* the sweeper.                                                            *)
EntriesExpire == \A c \in known : now - lastSeen[c] <= Idle + Period

=============================================================================
