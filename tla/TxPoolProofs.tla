---------------------------- MODULE TxPoolProofs ----------------------------
(***************************************************************************)
(* Proofs about TxPool, for every number of requests and connections.      *)
(***************************************************************************)
EXTENDS TxPool, TLAPS

(* A connection is with a request that uses it, or with one that panicked. *)
OwnersUse ==
    \A c \in Conns : \A r \in Requests : Owns(r, c) =>
        Using(r) \/ (pc[r] = "panicked" /\ plan[r].tx = "panics")

OneConnEach ==
    \A r \in Requests : \A c, d \in Conns : Owns(r, c) /\ Owns(r, d) => c = d

(* A request asks for what is in its plan.                                 *)
StepsPlanned ==
    \A r \in Requests :
        /\ pc[r] \in {"wantsLookup", "lookup"} => plan[r].lookups > 0
        /\ pc[r] = "wantsTx" => plan[r].tx # "none"

IInv == TypeOK /\ OwnersUse /\ OneConnEach /\ StepsPlanned

LEMMA PlansArePlans == Plans \subseteq Plan
<1>1. \A op \in DOMAIN OpenRoutes :
         OpenRoutes[op] \in Plan /\ OpenRoutes[op].lookups \in 0 .. 1
  BY DEF OpenRoutes, Plan, Nothing
<1>2. \A op \in DOMAIN BookRoutes :
         BookRoutes[op] \in Plan /\ BookRoutes[op].lookups \in 0 .. 1
  BY DEF BookRoutes, Plan
<1>3. ASSUME NEW p \in Plan, p.lookups \in 0 .. 1 PROVE Authenticated(p) \in Plan
  BY <1>3 DEF Authenticated, Plan
<1> QED
  BY <1>1, <1>2, <1>3 DEF Plans

LEMMA NothingIsPlan == Nothing \in Plan /\ Nothing.lookups = 0 /\ Nothing.tx = "none"
BY DEF Nothing, Plan

LEMMA InitIInv == Init => IInv
BY NobodyIsNobody
   DEF Init, IInv, TypeOK, OwnersUse, OneConnEach, StepsPlanned, Owns, Plan, Nothing

LEMMA NextNeeds ==
  ASSUME NEW p \in Plan
  PROVE  /\ NextNeed(p) \in {"wantsLookup", "wantsTx", "answered"}
         /\ NextNeed(p) = "wantsLookup" => p.lookups > 0
         /\ NextNeed(p) = "wantsTx" => p.tx # "none"
BY DEF NextNeed

(* Steps by which a request takes a connection.                            *)
LEMMA TakeIInv ==
  ASSUME IInv, NEW r \in Requests, StartLookup(r) \/ Begin(r)
  PROVE  IInv'
<1>1. PICK c \in Conns : owner[c] = Nobody /\ owner' = [owner EXCEPT ![c] = r]
  BY DEF StartLookup, Begin, Take
<1>2. /\ Waiting(r) /\ pc'[r] \in {"lookup", "tx"} /\ UNCHANGED plan
      /\ pc[r] = "wantsTx" => pc'[r] = "tx"
      /\ \A q \in Requests \ {r} : pc'[q] = pc[q]
      /\ owner'[c] = r /\ \A d \in Conns \ {c} : owner'[d] = owner[d]
  BY <1>1 DEF IInv, TypeOK, StartLookup, Begin, Goto, Waiting
<1>3. TypeOK'
  BY <1>1 DEF IInv, TypeOK, StartLookup, Begin, Goto
<1>4. \A d \in Conns : ~ Owns(r, d)
  BY <1>2 DEF IInv, OwnersUse, Waiting, Using
<1>5. OwnersUse'
  BY <1>2 DEF IInv, OwnersUse, Owns, Using
<1>6. OneConnEach'
  BY <1>2, <1>4 DEF IInv, OneConnEach, Owns
<1>7. StepsPlanned'
  BY <1>2 DEF IInv, StepsPlanned, Waiting
<1> QED
  BY <1>3, <1>5, <1>6, <1>7 DEF IInv

(* Steps by which a request gives its connection back.                     *)
LEMMA GiveBackIInv ==
  ASSUME IInv, NEW r \in Requests,
         EndLookup(r) \/ StopAfterLookup(r) \/ LookupTimesOut(r) \/ EndTx(r)
  PROVE  IInv'
<1>1. /\ \A c \in Conns : owner'[c] = IF owner[c] = r THEN Nobody ELSE owner[c]
      /\ \A q \in Requests \ {r} : pc'[q] = pc[q] /\ plan'[q] = plan[q]
  BY DEF EndLookup, StopAfterLookup, LookupTimesOut, EndTx, GiveBack, Answer, Goto, IInv, TypeOK
<1>2. \A c \in Conns : ~ Owns(r, c)'
  BY <1>1, NobodyIsNobody DEF Owns
<1>3. owner' \in [Conns -> Requests \union {Nobody}]
  BY DEF EndLookup, StopAfterLookup, LookupTimesOut, EndTx, GiveBack, IInv, TypeOK
<1>4. /\ plan' \in [Requests -> Plan]
      /\ pc' \in [Requests -> {"idle", "wantsLookup", "lookup", "wantsTx", "tx",
                               "answered", "panicked", "lost"}]
      /\ pc'[r] \in {"wantsLookup", "lookup"} => plan'[r].lookups > 0
      /\ pc'[r] = "wantsTx" => plan'[r].tx # "none"
  <2>1. CASE EndLookup(r)
    <3>1. plan[r] \in Plan /\ plan[r].lookups > 0
      BY <2>1 DEF EndLookup, IInv, TypeOK, StepsPlanned
    <3>2. [plan[r] EXCEPT !.lookups = @ - 1] \in Plan
      BY <3>1 DEF Plan
    <3>3. plan' \in [Requests -> Plan]
      BY <2>1, <3>2 DEF EndLookup, IInv, TypeOK
    <3>4. pc' = [pc EXCEPT ![r] = NextNeed(plan'[r])]
      BY <2>1 DEF EndLookup, Goto
    <3> QED
      BY <3>3, <3>4, NextNeeds DEF IInv, TypeOK
  <2>2. CASE StopAfterLookup(r) \/ LookupTimesOut(r) \/ EndTx(r)
    BY <2>2, NothingIsPlan DEF StopAfterLookup, LookupTimesOut, EndTx, Answer, Goto, IInv, TypeOK
  <2> QED
    BY <2>1, <2>2
<1>5. TypeOK' /\ StepsPlanned'
  BY <1>1, <1>3, <1>4 DEF IInv, TypeOK, StepsPlanned
<1>6. OwnersUse'
  BY <1>1, <1>2, NobodyIsNobody DEF IInv, OwnersUse, Owns, Using
<1>7. OneConnEach'
  BY <1>1, NobodyIsNobody DEF IInv, OneConnEach, Owns
<1> QED
  BY <1>5, <1>6, <1>7 DEF IInv

(* Steps that leave the pool alone.                                        *)
LEMMA ArriveIInv ==
  ASSUME IInv, NEW r \in Requests, Arrive(r)
  PROVE  IInv'
<1>. PICK p \in Plans : plan' = [plan EXCEPT ![r] = p] /\ Goto(r, NextNeed(p))
  BY DEF Arrive
<1>1. p \in Plan
  BY PlansArePlans
<1>2. /\ pc[r] = "idle" /\ pc'[r] = NextNeed(p) /\ plan'[r] = p /\ UNCHANGED owner
      /\ \A q \in Requests \ {r} : pc'[q] = pc[q] /\ plan'[q] = plan[q]
  BY DEF Arrive, Goto, IInv, TypeOK
<1>3. TypeOK'
  BY <1>1, NextNeeds DEF Arrive, Goto, IInv, TypeOK
<1>4. OwnersUse' /\ OneConnEach'
  BY <1>2 DEF IInv, OwnersUse, OneConnEach, Owns, Using
<1>5. StepsPlanned'
  BY <1>1, <1>2, NextNeeds DEF IInv, StepsPlanned
<1> QED
  BY <1>3, <1>4, <1>5 DEF IInv

LEMMA BeginFailsIInv ==
  ASSUME IInv, NEW r \in Requests, BeginFails(r)
  PROVE  IInv'
BY NothingIsPlan
   DEF BeginFails, Answer, Goto, IInv, TypeOK, OwnersUse, OneConnEach, StepsPlanned, Owns, Using

(* A panic leaves the connection with the request: that is the leak.       *)
LEMMA PanicIInv ==
  ASSUME IInv, NEW r \in Requests, PanicInTx(r)
  PROVE  IInv'
BY DEF PanicInTx, Goto, IInv, TypeOK, OwnersUse, OneConnEach, StepsPlanned, Owns, Using

LEMMA RestartIInv ==
  ASSUME IInv, Restart
  PROVE  IInv'
BY NobodyIsNobody, NothingIsPlan
   DEF Restart, IInv, TypeOK, OwnersUse, OneConnEach, StepsPlanned, Owns, InFlight,
       Waiting, Using

LEMMA NextIInv == IInv /\ [Next]_vars => IInv'
<1> SUFFICES ASSUME IInv, [Next]_vars PROVE IInv'
  OBVIOUS
<1>1. CASE UNCHANGED vars
  BY <1>1 DEF vars, IInv, TypeOK, OwnersUse, OneConnEach, StepsPlanned, Owns, Using
<1>2. ASSUME NEW r \in Requests, Progress(r) PROVE IInv'
  BY <1>2, TakeIInv, GiveBackIInv, BeginFailsIInv, PanicIInv DEF Progress
<1> QED
  BY <1>1, <1>2, ArriveIInv, RestartIInv DEF Next

(* The inductive invariant holds in every reachable state.                 *)
THEOREM InductiveInvariant == Spec => []IInv
BY InitIInv, NextIInv, PTL DEF Spec

(* Every variable keeps its type.                                          *)
THEOREM TypeCorrect == Spec => []TypeOK
<1>1. IInv => TypeOK
  BY DEF IInv
<1> QED
  BY <1>1, InductiveInvariant, PTL

(* No request waits for a connection while it holds one, and none holds    *)
(* two, whatever the size of the pool.                                     *)
THEOREM NoCircularWait == Spec => []NoHoldAndWait
<1>1. IInv => NoHoldAndWait
  BY DEF IInv, OwnersUse, OneConnEach, NoHoldAndWait, Using, Waiting
<1> QED
  BY <1>1, InductiveInvariant, PTL

(* A request that has ended without a panic has left no connection behind. *)
THEOREM LeaksArePanics == Spec => []OnlyPanicsLeak
<1>1. IInv => OnlyPanicsLeak
  <2> SUFFICES ASSUME IInv, NEW c \in Leaked
               PROVE  pc[owner[c]] = "panicked" /\ plan[owner[c]].tx = "panics"
    BY DEF OnlyPanicsLeak
  <2>1. c \in Conns /\ owner[c] \in Requests /\ Ended(owner[c])
    BY DEF Leaked, IInv, TypeOK
  <2>2. Using(owner[c]) \/ (pc[owner[c]] = "panicked" /\ plan[owner[c]].tx = "panics")
    BY <2>1 DEF IInv, OwnersUse, Owns
  <2> QED
    BY <2>1, <2>2 DEF Ended, Using
<1> QED
  BY <1>1, InductiveInvariant, PTL

-----------------------------------------------------------------------------
(***************************************************************************)
(* Why requests end: somebody can go on, and there are only so many steps. *)
(* That a request which can go on does so is the fairness of the model.    *)
(***************************************************************************)

(* A request has a step of its own to take: it waits for no connection, or *)
(* there is one, or the time of its lookup will be over.                   *)
CanGoOn(r) ==
    \/ Using(r)
    \/ pc[r] = "wantsLookup"
    \/ pc[r] = "wantsTx" /\ \E c \in Conns : owner[c] = Nobody

(* How many steps a request has left at most.  One that has panicked is    *)
(* one step from the end as long as it keeps a connection, which only a    *)
(* restart takes from it.                                                  *)
Left(r) ==
    CASE pc[r] = "idle"        -> 8
      [] pc[r] = "wantsLookup" -> 2 * plan[r].lookups + 3
      [] pc[r] = "lookup"      -> 2 * plan[r].lookups + 2
      [] pc[r] = "wantsTx"     -> 3
      [] pc[r] = "tx"          -> 2
      [] pc[r] = "panicked"    -> IF \E c \in Conns : Owns(r, c) THEN 1 ELSE 0
      [] OTHER                 -> 0

Advances ==
    /\ \A r \in Requests : Left(r)' <= Left(r)
    /\ \E r \in Requests : Left(r)' < Left(r)

(* A number.                                                               *)
LEMMA LeftIsNat ==
  /\ IInv => \A r \in Requests : Left(r) \in Nat
  /\ IInv' => \A r \in Requests : Left(r)' \in Nat
BY DEF IInv, TypeOK, Plan, Left

(* What is left depends on these three only.                               *)
LEMMA SameLeft ==
  ASSUME NEW r \in Requests, pc'[r] = pc[r], plan'[r] = plan[r],
         \A c \in Conns : Owns(r, c)' <=> Owns(r, c)
  PROVE  Left(r)' = Left(r)
BY DEF Left

(* Most steps are of one request.                                          *)
LEMMA OneAdvances ==
  ASSUME IInv, IInv', NEW r \in Requests, Left(r)' < Left(r),
         \A q \in Requests \ {r} :
            /\ pc'[q] = pc[q] /\ plan'[q] = plan[q]
            /\ \A c \in Conns : Owns(q, c)' <=> Owns(q, c)
  PROVE  Advances
<1>1. \A q \in Requests \ {r} : Left(q)' = Left(q)
  BY SameLeft
<1>2. \A q \in Requests : Left(q) \in Nat /\ Left(q)' \in Nat
  BY LeftIsNat
<1> QED
  BY <1>1, <1>2 DEF Advances

(* A request that gets a connection.                                       *)
LEMMA TakeAdvances ==
  ASSUME IInv, IInv', NEW r \in Requests, StartLookup(r) \/ Begin(r)
  PROVE  Advances
<1>1. PICK c \in Conns : owner[c] = Nobody /\ owner' = [owner EXCEPT ![c] = r]
  BY DEF StartLookup, Begin, Take
<1>2. /\ \/ pc[r] = "wantsLookup" /\ pc'[r] = "lookup"
         \/ pc[r] = "wantsTx" /\ pc'[r] = "tx"
      /\ plan' = plan /\ \A q \in Requests \ {r} : pc'[q] = pc[q]
  BY DEF IInv, TypeOK, StartLookup, Begin, Goto
<1>3. \A q \in Requests \ {r} : \A d \in Conns : Owns(q, d)' <=> Owns(q, d)
  BY <1>1, NobodyIsNobody DEF IInv, TypeOK, Owns
<1>4. Left(r)' < Left(r)
  BY <1>2 DEF IInv, TypeOK, Plan, Left
<1> QED
  BY <1>2, <1>3, <1>4, OneAdvances

(* One that gives it back, perhaps to ask for the next: the lookups that   *)
(* are left are fewer by one.                                              *)
LEMMA GiveBackAdvances ==
  ASSUME IInv, IInv', NEW r \in Requests,
         EndLookup(r) \/ StopAfterLookup(r) \/ LookupTimesOut(r) \/ EndTx(r)
  PROVE  Advances
<1>1. /\ \A c \in Conns : owner'[c] = IF owner[c] = r THEN Nobody ELSE owner[c]
      /\ \A q \in Requests \ {r} : pc'[q] = pc[q] /\ plan'[q] = plan[q]
  BY DEF EndLookup, StopAfterLookup, LookupTimesOut, EndTx, GiveBack, Answer, Goto, IInv, TypeOK
<1>2. \A q \in Requests \ {r} : \A c \in Conns : Owns(q, c)' <=> Owns(q, c)
  BY <1>1, NobodyIsNobody DEF Owns
<1>3. Left(r)' < Left(r)
  <2>1. plan[r] \in Plan
    BY DEF IInv, TypeOK
  <2>2. CASE EndLookup(r)
    <3>1. /\ pc[r] = "lookup" /\ plan[r].lookups > 0
          /\ plan'[r].lookups = plan[r].lookups - 1
          /\ pc'[r] = NextNeed(plan'[r])
      BY <2>2 DEF EndLookup, Goto, IInv, TypeOK, StepsPlanned, Plan
    <3>2. pc'[r] \in {"wantsLookup", "wantsTx", "answered"}
      BY <3>1 DEF NextNeed
    <3>3. plan[r].lookups \in Nat
      BY <2>1 DEF Plan
    <3>4. Left(r) = 2 * plan[r].lookups + 2
      BY <3>1 DEF Left
    <3>5. CASE pc'[r] = "wantsLookup"
      <4>1. Left(r)' = 2 * (plan[r].lookups - 1) + 3
        BY <3>1, <3>5 DEF Left
      <4> QED
        BY <3>3, <3>4, <4>1
    <3>6. CASE pc'[r] \in {"wantsTx", "answered"}
      <4>1. Left(r)' \in {0, 3}
        BY <3>6 DEF Left
      <4> QED
        BY <3>1, <3>3, <3>4, <4>1
    <3> QED
      BY <3>2, <3>5, <3>6
  <2>3. CASE StopAfterLookup(r) \/ LookupTimesOut(r) \/ EndTx(r)
    <3>1. pc[r] \in {"wantsLookup", "lookup", "tx"} /\ pc'[r] = "answered"
      BY <2>3 DEF StopAfterLookup, LookupTimesOut, EndTx, Answer, Goto, IInv, TypeOK
    <3> QED
      BY <2>1, <3>1 DEF Left, Plan
  <2> QED
    BY <2>2, <2>3
<1> QED
  BY <1>1, <1>2, <1>3, OneAdvances

(* One that leaves the connections where they are.                         *)
LEMMA ArriveAdvances ==
  ASSUME IInv, IInv', NEW r \in Requests, Arrive(r)
  PROVE  Advances
<1>. PICK p \in Plans : plan' = [plan EXCEPT ![r] = p] /\ Goto(r, NextNeed(p))
  BY DEF Arrive
<1>1. p \in Plan
  BY PlansArePlans
<1>2. /\ pc[r] = "idle" /\ pc'[r] = NextNeed(p) /\ plan'[r] = p /\ UNCHANGED owner
      /\ \A q \in Requests \ {r} : pc'[q] = pc[q] /\ plan'[q] = plan[q]
  BY DEF Arrive, Goto, IInv, TypeOK
<1>3. Left(r)' < Left(r)
  BY <1>1, <1>2, NextNeeds DEF Left, Plan
<1> QED
  BY <1>2, <1>3, OneAdvances DEF Owns

LEMMA FailureAdvances ==
  ASSUME IInv, IInv', NEW r \in Requests, BeginFails(r) \/ PanicInTx(r)
  PROVE  Advances
<1>1. /\ \/ pc[r] = "wantsTx" /\ pc'[r] = "answered"
         \/ pc[r] = "tx" /\ pc'[r] = "panicked"
      /\ UNCHANGED owner
      /\ \A q \in Requests \ {r} : pc'[q] = pc[q] /\ plan'[q] = plan[q]
  BY DEF BeginFails, PanicInTx, Answer, Goto, IInv, TypeOK
<1>2. Left(r)' < Left(r)
  BY <1>1 DEF Left
<1> QED
  BY <1>1, <1>2, OneAdvances DEF Owns

(* A restart, if anything changes at all: it loses what is in flight and   *)
(* takes from panicked requests the connections that they kept.            *)
LEMMA RestartAdvances ==
  ASSUME IInv, IInv', Restart, vars' # vars
  PROVE  Advances
<1>1. /\ \A c \in Conns : owner'[c] = Nobody
      /\ \A r \in Requests : pc'[r] = IF InFlight(r) THEN "lost" ELSE pc[r]
      /\ \A r \in Requests : ~ InFlight(r) => plan'[r] = plan[r]
  BY DEF Restart
<1>2. \A r \in Requests : \A c \in Conns : ~ Owns(r, c)'
  BY <1>1, NobodyIsNobody DEF Owns
<1>3. \A r \in Requests : Left(r) \in Nat /\ Left(r)' \in Nat
  BY LeftIsNat
<1>4. \A r \in Requests : InFlight(r) => Left(r)' < Left(r)
  BY <1>1 DEF InFlight, Waiting, Using, IInv, TypeOK, Plan, Left
<1>5. \A r \in Requests : ~ InFlight(r) => Left(r)' <= Left(r)
  BY <1>1, <1>2, <1>3 DEF InFlight, Waiting, Using, Left
<1>6. \E r \in Requests : Left(r)' < Left(r)
  <2>1. CASE \E r \in Requests : InFlight(r)
    BY <1>4, <2>1
  <2>2. CASE \A r \in Requests : ~ InFlight(r)
    <3>1. pc' = pc /\ plan' = plan
      BY <2>2 DEF Restart, IInv, TypeOK
    <3>2. owner' # owner
      BY <1>1, <3>1 DEF vars
    <3>3. PICK r \in Requests : \E c \in Conns : Owns(r, c)
      BY <3>2 DEF Restart, IInv, TypeOK, Owns
    <3>4. pc[r] = "panicked"
      BY <2>2, <3>3 DEF IInv, OwnersUse, InFlight
    <3>5. Left(r) = 1 /\ Left(r)' = 0
      BY <1>2, <3>1, <3>3, <3>4 DEF Left
    <3> QED
      BY <3>5
  <2> QED
    BY <2>1, <2>2
<1> QED
  BY <1>3, <1>4, <1>5, <1>6 DEF Advances

(* Whatever happens to the others, a request takes at most eight steps and *)
(* gets none back: each of its lookups is made once.                       *)
THEOREM EveryStepAdvances == Spec => [][Advances]_vars
<1>1. IInv /\ IInv' /\ [Next]_vars => [Advances]_vars
  <2> SUFFICES ASSUME IInv, IInv', Next, vars' # vars PROVE Advances
    OBVIOUS
  <2>1. ASSUME NEW r \in Requests, Progress(r) PROVE Advances
    BY <2>1, TakeAdvances, GiveBackAdvances, FailureAdvances DEF Progress
  <2> QED
    BY <2>1, ArriveAdvances, RestartAdvances DEF Next
<1> QED
  BY <1>1, InductiveInvariant, PTL DEF Spec

(* As long as panics have left one connection, some request that is in     *)
(* flight can go on.  One that only looks up always can, also when every   *)
(* connection is gone.                                                     *)
NeverStuck ==
    \A r \in Requests : InFlight(r) =>
        /\ Exhausted \/ \E q \in Requests : InFlight(q) /\ CanGoOn(q)
        /\ plan[r].tx = "none" => CanGoOn(r)

(* Requests never all wait for each other, and lookups for nobody: what is *)
(* left for fairness is only that those which can go on do so.             *)
THEOREM RequestsNeverStuck == Spec => []NeverStuck
<1>1. IInv => NeverStuck
  <2> SUFFICES ASSUME IInv, NEW r \in Requests, InFlight(r)
               PROVE  /\ Exhausted \/ \E q \in Requests : InFlight(q) /\ CanGoOn(q)
                      /\ plan[r].tx = "none" => CanGoOn(r)
    BY DEF NeverStuck
  <2>1. plan[r].tx = "none" => CanGoOn(r)
    BY DEF IInv, StepsPlanned, InFlight, Waiting, Using, CanGoOn
  <2>2. CASE \E c \in Conns : owner[c] = Nobody
    BY <2>2 DEF InFlight, Waiting, Using, CanGoOn
  <2>3. CASE \A c \in Conns : owner[c] \in Requests /\ ~ Using(owner[c])
    <3>1. \A c \in Conns : pc[owner[c]] = "panicked"
      BY <2>3 DEF IInv, OwnersUse, Owns
    <3>2. Leaked = Conns
      BY <2>3, <3>1, NobodyIsNobody DEF Leaked, Ended
    <3> QED
      BY <2>1, <3>2 DEF Exhausted
  <2>4. CASE \E q \in Requests : Using(q)
    BY <2>1, <2>4 DEF InFlight, CanGoOn
  <2> QED
    BY <2>1, <2>2, <2>3, <2>4 DEF IInv, TypeOK
<1> QED
  BY <1>1, InductiveInvariant, PTL

=============================================================================
