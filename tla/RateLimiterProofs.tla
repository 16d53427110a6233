------------------------- MODULE RateLimiterProofs -------------------------
(***************************************************************************)
(* Proofs about RateLimiter: its type, its bounds, and that forgetting     *)
(* idle clients gives them at most Gift units (it implements TokenBucket), *)
(* for every number of clients, every positive rate, every burst, and a    *)
(* clock without bound.                                                    *)
(***************************************************************************)
EXTENDS RateLimiter, TLAPS

(* The bucket of a client is never newer than its last visit.              *)
SeenAfterAllowed == \A c \in known : last[c] <= lastSeen[c]

(* What was spent and what is left never exceed a full bucket, a unit for  *)
(* every tick and the gifts.                                               *)
Accounted == \A c \in Clients : spent[c] + Level(c) <= Cap + now + Gifts(c)

(* A client has stayed away for more than the idle time before each time   *)
(* that it was forgotten.                                                  *)
StayedAway ==
    \A c \in Clients : Away(c) <= IF c \in known THEN lastSeen[c] ELSE now

(* The sweeper is never late, and what it left was not stale.              *)
SweptInTime ==
    /\ now <= sweptAt + Period
    /\ \A c \in known : sweptAt <= lastSeen[c] + Idle

IInv == TypeOK /\ SeenAfterAllowed /\ Accounted /\ StayedAway /\ SweptInTime

LEMMA Constants ==
  /\ Cost \in Nat /\ Cost > 0 /\ Cap \in Nat
  /\ Idle \in Nat /\ Period \in Nat /\ Period > 0 /\ MaxNow \in Nat
  /\ Gift \in Nat /\ Cap <= Gift + Idle + 1
<1>1. /\ Cost \in Nat /\ Cost > 0 /\ Cap \in Nat
      /\ Idle \in Nat /\ Period \in Nat /\ Period > 0 /\ MaxNow \in Nat
  BY LimiterAssumption
<1> QED
  BY <1>1 DEF Gift

(* What is counted for a client grows by a gift, and by the time it stayed *)
(* away, with each time it is forgotten.                                   *)
LEMMA Products ==
  ASSUME NEW f \in Nat, NEW g \in Nat
  PROVE  f * g \in Nat /\ (f + 0) * g = f * g /\ (f + 1) * g = f * g + g
OBVIOUS

LEMMA Counted ==
  ASSUME TypeOK, NEW c \in Clients
  PROVE  Gifts(c) \in Nat /\ Away(c) \in Nat
<1>1. forgotten[c] \in Nat /\ Gift \in Nat /\ Idle + 1 \in Nat
  BY Constants DEF TypeOK
<1> QED
  BY <1>1, Products DEF Gifts, Away

LEMMA SweepCounts ==
  ASSUME TypeOK, Sweep, NEW c \in Clients
  PROVE  /\ c \in known /\ Stale(c) => /\ Gifts(c)' = Gifts(c) + Gift
                                      /\ Away(c)' = Away(c) + (Idle + 1)
         /\ ~ (c \in known /\ Stale(c)) => /\ Gifts(c)' = Gifts(c)
                                          /\ Away(c)' = Away(c)
<1>1. forgotten[c] \in Nat /\ Gift \in Nat /\ Idle + 1 \in Nat
  BY Constants DEF TypeOK
<1>2. /\ c \in known /\ Stale(c) => forgotten'[c] = forgotten[c] + 1
      /\ ~ (c \in known /\ Stale(c)) => forgotten'[c] = forgotten[c] + 0
  BY DEF Sweep
<1>3. /\ (forgotten[c] + 1) * Gift = forgotten[c] * Gift + Gift
      /\ (forgotten[c] + 1) * (Idle + 1) = forgotten[c] * (Idle + 1) + (Idle + 1)
      /\ (forgotten[c] + 0) * Gift = forgotten[c] * Gift
      /\ (forgotten[c] + 0) * (Idle + 1) = forgotten[c] * (Idle + 1)
  BY <1>1, Products
<1> QED
  BY <1>2, <1>3 DEF Gifts, Away

(* The level of a bucket is a number of units that fits in it.             *)
LEMMA LevelInRange ==
  ASSUME TypeOK, NEW c \in Clients
  PROVE  Level(c) \in 0 .. Cap
<1>1. /\ tokens[c] \in Nat /\ last[c] \in Nat /\ now \in Nat /\ last[c] <= now
      /\ tokens[c] <= Cap
  BY Constants DEF TypeOK
<1> QED
  BY <1>1, Constants DEF Level, Filled

(* A tick adds a unit to every bucket that is not full.                    *)
LEMMA TickLevel ==
  ASSUME TypeOK, Tick, NEW c \in Clients
  PROVE  Level(c)' = IF Level(c) < Cap THEN Level(c) + 1 ELSE Cap
<1>1. /\ tokens[c] \in Nat /\ last[c] \in Nat /\ now \in Nat /\ last[c] <= now
      /\ tokens[c] <= Cap
  BY Constants DEF TypeOK
<1>2. now' = now + 1 /\ UNCHANGED <<known, tokens, last>>
  BY DEF Tick
<1> QED
  BY <1>1, <1>2, Constants DEF Level, Filled

(* Allowing a request takes its cost from the bucket of its client.        *)
LEMMA AllowLevel ==
  ASSUME TypeOK, NEW c \in Clients, Allow(c)
  PROVE  /\ Level(c)' = Level(c) - Cost
         /\ \A d \in Clients \ {c} : Level(d)' = Level(d)
<1>1. Level(c) \in 0 .. Cap /\ Level(c) >= Cost /\ now \in Nat
  BY LevelInRange DEF Allow, TypeOK
<1>2. /\ now' = now /\ c \in known' /\ tokens'[c] = Level(c) - Cost /\ last'[c] = now
      /\ \A d \in Clients \ {c} :
            (d \in known' <=> d \in known) /\ tokens'[d] = tokens[d] /\ last'[d] = last[d]
  BY DEF Allow, TypeOK
<1>3. Level(c)' = Level(c) - Cost
  BY <1>1, <1>2, Constants DEF Level, Filled
<1>4. \A d \in Clients \ {c} : Level(d)' = Level(d)
  BY <1>2 DEF Level, Filled
<1> QED
  BY <1>3, <1>4

(* Denying a request takes nothing from any bucket.                        *)
LEMMA DenyLevel ==
  ASSUME TypeOK, NEW c \in Clients, Deny(c)
  PROVE  \A d \in Clients : Level(d)' = Level(d)
<1>1. now \in Nat
  BY DEF TypeOK
<1>2. /\ now' = now /\ c \in known'
      /\ tokens'[c] = IF c \in known THEN tokens[c] ELSE Cap
      /\ last'[c] = IF c \in known THEN last[c] ELSE now
      /\ \A d \in Clients \ {c} :
            (d \in known' <=> d \in known) /\ tokens'[d] = tokens[d] /\ last'[d] = last[d]
  BY DEF Deny, TypeOK
<1>3. Level(c)' = Level(c)
  <2>1. CASE c \in known
    BY <1>2, <2>1 DEF Level, Filled
  <2>2. CASE c \notin known
    BY <1>1, <1>2, <2>2, Constants DEF Level, Filled
  <2> QED
    BY <2>1, <2>2
<1>4. \A d \in Clients \ {c} : Level(d)' = Level(d)
  BY <1>2 DEF Level, Filled
<1> QED
  BY <1>3, <1>4

(* Whoever is swept lacks at most a gift, and gets a full bucket.          *)
LEMMA SweepLevel ==
  ASSUME IInv, Sweep, NEW c \in Clients
  PROVE  IF c \in known /\ Stale(c) THEN Level(c)' = Cap /\ Level(c) + Gift >= Cap
                                   ELSE Level(c)' = Level(c)
<1>1. /\ tokens[c] \in Nat /\ last[c] \in Nat /\ lastSeen[c] \in Nat /\ now \in Nat
      /\ last[c] <= now /\ lastSeen[c] <= now
  BY Constants DEF IInv, TypeOK
<1>2. UNCHANGED <<now, tokens, last>> /\ known' = {d \in known : ~ Stale(d)}
  BY DEF Sweep
<1>3. CASE c \in known /\ Stale(c)
  <2>1. last[c] <= lastSeen[c] /\ now - lastSeen[c] > Idle
    BY <1>3 DEF IInv, SeenAfterAllowed, Stale
  <2>2. tokens[c] + (now - last[c]) + Gift >= Cap
    BY <1>1, <2>1, Constants
  <2>3. Level(c) + Gift >= Cap
    BY <1>1, <1>3, <2>2, Constants DEF Level, Filled
  <2> QED
    BY <1>2, <1>3, <2>3 DEF Level
<1>4. CASE ~ (c \in known /\ Stale(c))
  BY <1>2, <1>4 DEF Level, Filled
<1> QED
  BY <1>3, <1>4

LEMMA InitIInv == Init => IInv
<1> SUFFICES ASSUME Init PROVE IInv
  OBVIOUS
<1>1. TypeOK
  BY Constants DEF Init, TypeOK
<1>2. SeenAfterAllowed /\ SweptInTime
  BY Constants DEF Init, SeenAfterAllowed, SweptInTime
<1>3. ASSUME NEW c \in Clients
      PROVE  spent[c] = 0 /\ now = 0 /\ Level(c) = Cap /\ Gifts(c) = 0 /\ Away(c) = 0
  BY Constants DEF Init, Level, Gifts, Away
<1>4. Accounted /\ StayedAway
  BY <1>3, Constants DEF Accounted, StayedAway, Init
<1> QED
  BY <1>1, <1>2, <1>4 DEF IInv

LEMMA TickIInv ==
  ASSUME IInv, Tick
  PROVE  IInv'
<1>1. /\ now \in Nat /\ now' = now + 1 /\ now' \in 0 .. MaxNow
      /\ sweptAt \in Nat /\ now < sweptAt + Period
      /\ UNCHANGED <<known, tokens, last, lastSeen, sweptAt, verdict, spent, forgotten>>
  BY Constants DEF IInv, TypeOK, Tick
<1>2. 0 .. now \subseteq 0 .. now'
  BY <1>1
<1>3. TypeOK'
  <2>1. sweptAt' \in 0 .. now'
    BY <1>1, <1>2 DEF IInv, TypeOK
  <2>2. last' \in [Clients -> 0 .. now'] /\ lastSeen' \in [Clients -> 0 .. now']
    BY <1>1, <1>2 DEF IInv, TypeOK
  <2> QED
    BY <1>1, <2>1, <2>2 DEF IInv, TypeOK
<1>4. SeenAfterAllowed'
  BY <1>1 DEF IInv, SeenAfterAllowed
<1>5. SweptInTime'
  BY <1>1, Constants DEF IInv, SweptInTime
<1>6. Accounted' /\ StayedAway'
  <2> SUFFICES ASSUME NEW c \in Clients
               PROVE  /\ spent[c] + Level(c)' <= Cap + (now + 1) + Gifts(c)
                      /\ Away(c) <= IF c \in known THEN lastSeen[c] ELSE now + 1
    BY <1>1 DEF Accounted, StayedAway, Gifts, Away
  <2>1. /\ spent[c] \in Nat /\ Gifts(c) \in Nat /\ Away(c) \in Nat
        /\ spent[c] + Level(c) <= Cap + now + Gifts(c)
        /\ Away(c) <= IF c \in known THEN lastSeen[c] ELSE now
    BY Counted DEF IInv, TypeOK, Accounted, StayedAway
  <2>2. Level(c) \in 0 .. Cap
    BY LevelInRange DEF IInv
  <2>3. Level(c)' <= Level(c) + 1 /\ Level(c)' \in Nat
    BY <2>2, TickLevel, Constants DEF IInv
  <2>4. spent[c] + Level(c)' <= Cap + (now + 1) + Gifts(c)
    BY <1>1, <2>1, <2>2, <2>3, Constants
  <2>5. Away(c) <= IF c \in known THEN lastSeen[c] ELSE now + 1
    BY <1>1, <2>1
  <2> QED
    BY <2>4, <2>5
<1> QED
  BY <1>3, <1>4, <1>5, <1>6 DEF IInv

LEMMA AllowIInv ==
  ASSUME IInv, NEW c \in Clients, Allow(c)
  PROVE  IInv'
<1>1. /\ now \in Nat /\ sweptAt \in Nat /\ sweptAt <= now /\ UNCHANGED <<now, sweptAt, forgotten>>
      /\ known' = known \union {c} /\ last'[c] = now /\ lastSeen'[c] = now
      /\ spent'[c] = spent[c] + Cost
      /\ \A d \in Clients \ {c} :
            last'[d] = last[d] /\ lastSeen'[d] = lastSeen[d] /\ spent'[d] = spent[d]
  BY DEF IInv, TypeOK, Allow
<1>2. Level(c) \in 0 .. Cap /\ Level(c) >= Cost
  BY LevelInRange DEF IInv, Allow
<1>3. TypeOK'
  <2>1. Level(c) - Cost \in 0 .. Cap
    BY <1>2, Constants
  <2>2. spent[c] + Cost \in Nat
    BY Constants DEF IInv, TypeOK
  <2>3. now \in 0 .. now
    BY <1>1
  <2> QED
    BY <2>1, <2>2, <2>3 DEF IInv, TypeOK, Allow
<1>4. SeenAfterAllowed'
  BY <1>1 DEF IInv, TypeOK, SeenAfterAllowed
<1>5. SweptInTime'
  BY <1>1, Constants DEF IInv, TypeOK, SweptInTime
<1>6. Accounted' /\ StayedAway'
  <2> SUFFICES ASSUME NEW d \in Clients
               PROVE  /\ spent'[d] + Level(d)' <= Cap + now + Gifts(d)
                      /\ Away(d) <= IF d \in known' THEN lastSeen'[d] ELSE now
    BY <1>1 DEF Accounted, StayedAway, Gifts, Away
  <2>1. /\ spent[d] \in Nat /\ Gifts(d) \in Nat /\ Away(d) \in Nat
        /\ spent[d] + Level(d) <= Cap + now + Gifts(d)
        /\ Away(d) <= IF d \in known THEN lastSeen[d] ELSE now
        /\ lastSeen[d] \in Nat /\ lastSeen[d] <= now
    BY Counted DEF IInv, TypeOK, Accounted, StayedAway
  <2>2. CASE d = c
    <3>1. Level(c)' = Level(c) - Cost
      BY AllowLevel DEF IInv
    <3>2. spent'[c] + Level(c)' = spent[c] + Level(c)
      BY <1>1, <1>2, <2>1, <2>2, <3>1, Constants
    <3>3. Away(c) <= now
      BY <1>1, <2>1, <2>2
    <3> QED
      BY <1>1, <2>1, <2>2, <3>2, <3>3
  <2>3. CASE d # c
    <3>1. Level(d)' = Level(d)
      BY <2>3, AllowLevel DEF IInv
    <3> QED
      BY <1>1, <2>1, <2>3, <3>1
  <2> QED
    BY <2>2, <2>3
<1> QED
  BY <1>3, <1>4, <1>5, <1>6 DEF IInv

LEMMA DenyIInv ==
  ASSUME IInv, NEW c \in Clients, Deny(c)
  PROVE  IInv'
<1>1. /\ now \in Nat /\ sweptAt \in Nat /\ sweptAt <= now
      /\ UNCHANGED <<now, sweptAt, spent, forgotten>>
      /\ known' = known \union {c} /\ lastSeen'[c] = now
      /\ last'[c] \in 0 .. now
      /\ \A d \in Clients \ {c} : last'[d] = last[d] /\ lastSeen'[d] = lastSeen[d]
  BY DEF IInv, TypeOK, Deny
<1>2. TypeOK'
  <2>1. now \in 0 .. now /\ Cap \in 0 .. Cap
    BY <1>1, Constants
  <2> QED
    BY <2>1 DEF IInv, TypeOK, Deny
<1>3. SeenAfterAllowed'
  BY <1>1 DEF IInv, TypeOK, SeenAfterAllowed
<1>4. SweptInTime'
  BY <1>1, Constants DEF IInv, TypeOK, SweptInTime
<1>5. Accounted'
  BY <1>1, DenyLevel DEF IInv, Accounted, Gifts
<1>6. StayedAway'
  <2> SUFFICES ASSUME NEW d \in Clients
               PROVE  Away(d) <= IF d \in known' THEN lastSeen'[d] ELSE now
    BY <1>1 DEF StayedAway, Away
  <2>1. /\ Away(d) \in Nat /\ Away(d) <= IF d \in known THEN lastSeen[d] ELSE now
        /\ lastSeen[d] \in Nat /\ lastSeen[d] <= now
    BY Counted DEF IInv, TypeOK, StayedAway
  <2> QED
    BY <1>1, <2>1
<1> QED
  BY <1>2, <1>3, <1>4, <1>5, <1>6 DEF IInv

LEMMA SweepIInv ==
  ASSUME IInv, Sweep
  PROVE  IInv'
<1>1. /\ now \in Nat /\ sweptAt' = now
      /\ known' = {c \in known : ~ Stale(c)}
      /\ UNCHANGED <<now, tokens, last, lastSeen, verdict, spent>>
  BY DEF IInv, TypeOK, Sweep
<1>2. TypeOK'
  <2>1. now \in 0 .. now
    BY <1>1
  <2>2. forgotten' \in [Clients -> Nat]
    BY DEF IInv, TypeOK, Sweep
  <2> QED
    BY <1>1, <2>1, <2>2 DEF IInv, TypeOK
<1>3. SeenAfterAllowed'
  BY <1>1 DEF IInv, SeenAfterAllowed
<1>4. SweptInTime'
  <2> SUFFICES ASSUME NEW c \in known, ~ Stale(c) PROVE now <= lastSeen[c] + Idle
    BY <1>1, Constants DEF SweptInTime
  <2>1. lastSeen[c] \in Nat
    BY Constants DEF IInv, TypeOK
  <2> QED
    BY <1>1, <2>1, Constants DEF Stale
<1>5. Accounted' /\ StayedAway'
  <2> SUFFICES ASSUME NEW c \in Clients
               PROVE  /\ spent[c] + Level(c)' <= Cap + now + Gifts(c)'
                      /\ Away(c)' <= IF c \in known' THEN lastSeen[c] ELSE now
    BY <1>1 DEF Accounted, StayedAway
  <2>1. /\ spent[c] \in Nat /\ Gifts(c) \in Nat /\ Away(c) \in Nat
        /\ spent[c] + Level(c) <= Cap + now + Gifts(c)
        /\ Away(c) <= IF c \in known THEN lastSeen[c] ELSE now
        /\ lastSeen[c] \in Nat
    BY Counted DEF IInv, TypeOK, Accounted, StayedAway
  <2>2. Level(c) \in 0 .. Cap
    BY LevelInRange DEF IInv
  <2>3. CASE c \in known /\ Stale(c)
    <3>1. /\ Level(c)' = Cap /\ Level(c) + Gift >= Cap /\ c \notin known'
          /\ Gifts(c)' = Gifts(c) + Gift /\ Away(c)' = Away(c) + (Idle + 1)
          /\ now - lastSeen[c] > Idle
      BY <1>1, <2>3, SweepLevel, SweepCounts DEF IInv, Stale
    <3> QED
      BY <1>1, <2>1, <2>2, <2>3, <3>1, Constants
  <2>4. CASE ~ (c \in known /\ Stale(c))
    <3>1. Level(c)' = Level(c) /\ Gifts(c)' = Gifts(c) /\ Away(c)' = Away(c)
      BY <2>4, SweepLevel, SweepCounts DEF IInv
    <3> QED
      BY <1>1, <2>1, <2>4, <3>1
  <2> QED
    BY <2>3, <2>4
<1> QED
  BY <1>2, <1>3, <1>4, <1>5 DEF IInv

LEMMA NextIInv == IInv /\ [Next]_vars => IInv'
<1> SUFFICES ASSUME IInv, [Next]_vars PROVE IInv'
  OBVIOUS
<1>1. CASE UNCHANGED vars
  BY <1>1 DEF vars, IInv, TypeOK, SeenAfterAllowed, Accounted, StayedAway, SweptInTime,
              Level, Filled, Gifts, Away
<1> QED
  BY <1>1, TickIInv, AllowIInv, DenyIInv, SweepIInv DEF Next

(* The inductive invariant holds in every reachable state.                 *)
THEOREM InductiveInvariant == Spec => []IInv
BY InitIInv, NextIInv, PTL DEF Spec

(* Every variable keeps its type.                                          *)
THEOREM TypeCorrect == Spec => []TypeOK
<1>1. IInv => TypeOK
  BY DEF IInv
<1> QED
  BY <1>1, InductiveInvariant, PTL

(* A client never gets more than its burst, the steady rate and the gifts  *)
(* of its new buckets, for each of which it stayed away.                   *)
THEOREM RateIsBounded == Spec => []RateBound
<1>1. IInv => RateBound
  <2> SUFFICES ASSUME IInv, NEW c \in Clients
               PROVE  spent[c] <= Cap + now + Gifts(c) /\ Away(c) <= now
    BY DEF RateBound
  <2>1. /\ spent[c] \in Nat /\ Level(c) \in 0 .. Cap /\ now \in Nat
        /\ Gifts(c) \in Nat /\ Away(c) \in Nat
        /\ lastSeen[c] \in Nat /\ lastSeen[c] <= now
    BY LevelInRange, Counted DEF IInv, TypeOK
  <2>2. /\ spent[c] + Level(c) <= Cap + now + Gifts(c)
        /\ Away(c) <= IF c \in known THEN lastSeen[c] ELSE now
    BY DEF IInv, Accounted, StayedAway
  <2> QED
    BY <2>1, <2>2, Constants
<1> QED
  BY <1>1, InductiveInvariant, PTL

(* No entry of the map outlives the idle time by more than one period.     *)
THEOREM MapForgets == Spec => []EntriesExpire
<1>1. IInv => EntriesExpire
  <2> SUFFICES ASSUME IInv, NEW c \in known PROVE now - lastSeen[c] <= Idle + Period
    BY DEF EntriesExpire
  <2>1. lastSeen[c] \in Nat /\ now \in Nat /\ sweptAt \in Nat
        /\ now <= sweptAt + Period /\ sweptAt <= lastSeen[c] + Idle
    BY Constants DEF IInv, TypeOK, SweptInTime
  <2> QED
    BY <2>1, Constants
<1> QED
  BY <1>1, InductiveInvariant, PTL

-----------------------------------------------------------------------------
(* Each step is the step of the same name of TokenBucket, and a sweep tops *)
(* up the buckets of the clients it forgets.                               *)
LEMMA BucketStep ==
  ASSUME IInv, [Next]_vars
  PROVE  [Bucket!Next]_<<[c \in Clients |-> Level(c)], verdict>>
<1> DEFINE levels == [c \in Clients |-> Level(c)]
<1>1. CASE UNCHANGED vars
  BY <1>1 DEF vars, Level, Filled
<1>2. CASE Tick
  <2>1. levels' = [c \in Clients |-> IF levels[c] < Cap THEN levels[c] + 1 ELSE Cap]
    BY <1>2, TickLevel DEF IInv
  <2> QED
    BY <1>2, <2>1 DEF Tick, Bucket!Next, Bucket!Tick, Cap, Bucket!Cap
<1>3. ASSUME NEW c \in Clients, Allow(c) PROVE Bucket!Next
  <2>1. levels' = [levels EXCEPT ![c] = @ - Cost]
    BY <1>3, AllowLevel DEF IInv
  <2>2. levels[c] >= Cost /\ verdict' = [verdict EXCEPT ![c] = "allowed"]
    BY <1>3 DEF Allow
  <2> QED
    BY <2>1, <2>2 DEF Bucket!Next, Bucket!Allow
<1>4. ASSUME NEW c \in Clients, Deny(c) PROVE Bucket!Next
  <2>1. levels' = levels
    BY <1>4, DenyLevel DEF IInv
  <2>2. levels[c] < Cost /\ verdict' = [verdict EXCEPT ![c] = "denied"]
    BY <1>4 DEF Deny
  <2> QED
    BY <2>1, <2>2 DEF Bucket!Next, Bucket!Deny
<1>5. CASE Sweep
  <2> DEFINE given == {c \in known : Stale(c)}
  <2>1. given \subseteq Clients
    BY DEF IInv, TypeOK
  <2>2. \A c \in given : levels[c] + Gift >= Cap
    BY <1>5, <2>1, SweepLevel
  <2>3. levels' = [c \in Clients |-> IF c \in given THEN Cap ELSE levels[c]]
    BY <1>5, SweepLevel
  <2> QED
    BY <1>5, <2>1, <2>2, <2>3 DEF Sweep, Bucket!Next, Bucket!TopUp, Cap, Bucket!Cap
<1> QED
  BY <1>1, <1>2, <1>3, <1>4, <1>5 DEF Next

(* The middleware behaves as if it had one token bucket per client for     *)
(* ever, but for the gift to a client that was idle and forgotten.         *)
THEOREM ImplementsBuckets == Spec => ImplementsTokenBucket
<1>1. Init => Bucket!Init
  BY DEF Init, Bucket!Init, Level, Cap, Bucket!Cap
<1>2. IInv /\ [Next]_vars => [Bucket!Next]_<<[c \in Clients |-> Level(c)], verdict>>
  BY BucketStep
<1> QED
  BY <1>1, <1>2, InductiveInvariant, PTL DEF Spec, ImplementsTokenBucket, Bucket!Spec

=============================================================================
