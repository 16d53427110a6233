------------------------- MODULE AccountsPoolProofs -------------------------
(***************************************************************************)
(* Proofs about AccountsPool, for every number of requests and every size  *)
(* of the pool: its requests are those of Accounts, no wait closes a       *)
(* circle, and it implements TxPool.                                       *)
(***************************************************************************)
EXTENDS AccountsPool, AccountsProofs

OwnerType == owner \in [Conns -> Requests \union {Nobody}]

(* Only requests in flight have a connection, one that is at its COMMIT    *)
(* does have one, and nobody has two.                                      *)
OwnersInFlight ==
    \A r \in Requests :
        /\ Holds(r) => InFlight(r)
        /\ pc[r] = "commit" => Holds(r)
        /\ \A c, d \in Conns : owner[c] = r /\ owner[d] = r => c = d

(* What a request does next is what it asked for.                          *)
StepsAsAsked ==
    \A r \in Requests :
        /\ pc[r] = "read" => req[r].op \in {"activate", "login"}
        /\ pc[r] = "tx" => req[r].op \in {"register", "invalid", "activate"}
        /\ pc[r] = "auth" =>
              req[r].op \in {"register", "invalid", "activate", "login", "access", "refused"}

PoolIInv == OwnerType /\ OwnersInFlight /\ StepsAsAsked

-----------------------------------------------------------------------------
(* A pool only holds requests back: their steps are steps of Accounts.     *)
LEMMA PooledStep == [PooledNext]_pooledVars => [Next]_vars
<1> SUFFICES ASSUME [PooledNext]_pooledVars PROVE [Next]_vars
  OBVIOUS
<1>1. CASE UNCHANGED pooledVars
  BY <1>1 DEF pooledVars
<1>2. CASE Come \/ PooledCrash
  BY <1>2 DEF Come, PooledCrash, Next
<1>3. ASSUME NEW r \in Requests,
             Acquire(r) \/ Run(r) \/ RunFails(r) \/ GiveUp(r) \/ BeginFails(r)
      PROVE  [Next]_vars
  BY <1>3 DEF Acquire, Run, RunFails, GiveUp, BeginFails, Next
<1> QED
  BY <1>1, <1>2, <1>3 DEF PooledNext

(* Whatever is proved of Accounts holds over a pool of any size.           *)
THEOREM PoolRunsAccounts == PooledSpec => Spec
<1>1. PooledInit => Init
  BY DEF PooledInit
<1> QED
  BY <1>1, PooledStep, PTL DEF PooledSpec, Spec

(* Also when requests wait for connections, an account is active only by   *)
(* the code that was drawn for it.                                         *)
THEOREM PooledCodes == PooledSpec => []ActivatedByIssuedCode
BY PoolRunsAccounts, OnlyIssuedCodesActivate, PTL

-----------------------------------------------------------------------------
LEMMA InitPool == PooledInit => PoolIInv
BY NobodyIsNobody
   DEF PooledInit, Init, PoolIInv, OwnerType, OwnersInFlight, StepsAsAsked, Holds, Holders

(* What the handlers do to pc and req, one request at a time: a statement  *)
(* before its COMMIT, a lookup that leads on, or the answer.               *)
StepShape(r) ==
    \/ pc[r] = "tx" /\ pc'[r] = "commit"
    \/ pc[r] = "read" /\ pc'[r] = "tx" /\ req[r].op = "activate"
    \/ /\ pc[r] = "auth" /\ pc'[r] = FirstStep(req[r])
       /\ req[r].op \notin {"access", "refused"}
    \/ pc'[r] = "done"

LEMMA ProgressSteps ==
  ASSUME IInv, NEW r \in Requests, Progress(r) \/ CommitLost(r) \/ StatementFails(r)
  PROVE  /\ \A q \in Requests : q # r => pc'[q] = pc[q]
         /\ InFlight(r) /\ req' = req /\ StepShape(r)
<1>1. ASSUME NEW label, Goto(r, label)
      PROVE  pc'[r] = label /\ \A q \in Requests : q # r => pc'[q] = pc[q]
  BY <1>1 DEF Goto, IInv, TypeOK
<1>2. CASE ActivateRead(r) \/ Insert(r) \/ Update(r)
  BY <1>1, <1>2 DEF ActivateRead, Insert, Update, InFlight, StepShape
<1>3. CASE Authenticate(r)
  BY <1>1, <1>3 DEF Authenticate, Answer, InFlight, StepShape
<1>4. CASE \/ AuthenticateUnknown(r) \/ InsertDuplicate(r) \/ SaveInvalid(r)
           \/ ActivateNotFound(r) \/ UpdateConflict(r) \/ Login(r) \/ Access(r)
           \/ StatementFails(r)
  BY <1>1, <1>4 DEF AuthenticateUnknown, InsertDuplicate, SaveInvalid, ActivateNotFound,
     UpdateConflict, Login, Access, StatementFails, Answer, InFlight, StepShape
<1>5. CASE Commit(r) \/ CommitLost(r)
  BY <1>1, <1>5 DEF Commit, CommitLost, Answer, InFlight, StepShape
<1> QED
  BY <1>2, <1>3, <1>4, <1>5 DEF Progress

(* Taking a connection.                                                    *)
LEMMA AcquireShape ==
  ASSUME OwnerType, NEW r \in Requests, Acquire(r)
  PROVE  /\ pc[r] \in {"auth", "read", "tx"} /\ ~ Holds(r) /\ UNCHANGED vars
         /\ \E c \in Conns : /\ owner[c] = Nobody /\ owner'[c] = r
                            /\ owner' = [owner EXCEPT ![c] = r]
                            /\ \A d \in Conns : d # c => owner'[d] = owner[d]
BY DEF Acquire, Free, OwnerType

LEMMA AcquirePool ==
  ASSUME PoolIInv, NEW r \in Requests, Acquire(r)
  PROVE  PoolIInv'
<1>1. PICK c \in Conns : /\ owner[c] = Nobody /\ owner'[c] = r
                         /\ owner' = [owner EXCEPT ![c] = r]
                         /\ \A d \in Conns : d # c => owner'[d] = owner[d]
  BY AcquireShape DEF PoolIInv
<1>2. pc[r] \in {"auth", "read", "tx"} /\ ~ Holds(r) /\ UNCHANGED <<pc, req>>
  BY AcquireShape DEF PoolIInv, vars
<1>3. OwnerType'
  BY <1>1 DEF PoolIInv, OwnerType
<1>4. OwnersInFlight'
  BY <1>1, <1>2, NobodyIsNobody DEF PoolIInv, OwnersInFlight, Holds, Holders, InFlight
<1>5. StepsAsAsked'
  BY <1>2 DEF PoolIInv, StepsAsAsked
<1> QED
  BY <1>3, <1>4, <1>5 DEF PoolIInv

(* A connection that is given back is nobody's, the others stay where they *)
(* are.                                                                    *)
LEMMA GiveBackShape ==
  ASSUME OwnerType, NEW r \in Requests, GiveBack(r)
  PROVE  /\ OwnerType' /\ ~ Holds(r)'
         /\ \A q \in Requests : \A c \in Conns : q # r => (owner'[c] = q <=> owner[c] = q)
         /\ \A q \in Requests : q # r => (Holds(q)' <=> Holds(q))
         /\ ~ Holds(r) => owner' = owner
BY NobodyIsNobody DEF GiveBack, OwnerType, Holds, Holders

(* Steps of a request on its connection: it keeps it up to its COMMIT and  *)
(* has none afterwards.                                                    *)
LEMMA RunPool ==
  ASSUME IInv, PoolIInv, NEW r \in Requests, Run(r) \/ RunFails(r)
  PROVE  PoolIInv'
<1>1. /\ \A q \in Requests : q # r => pc'[q] = pc[q]
      /\ InFlight(r) /\ req' = req /\ StepShape(r)
  BY ProgressSteps DEF Run, RunFails
<1>2. StepsAsAsked'
  BY <1>1 DEF PoolIInv, StepsAsAsked, StepShape, FirstStep
<1>3. Holds(r) /\ Release(r)
  BY DEF Run, RunFails
<1>4. CASE pc'[r] = "commit"
  <2>1. owner' = owner
    BY <1>3, <1>4 DEF Release
  <2> QED
    BY <1>1, <1>2, <1>3, <1>4, <2>1 DEF PoolIInv, OwnerType, OwnersInFlight, Holds, Holders, InFlight
<1>5. CASE pc'[r] # "commit"
  <2>1. GiveBack(r)
    BY <1>3, <1>5 DEF Release
  <2>2. OwnersInFlight'
    BY <1>1, <1>5, <2>1, GiveBackShape
       DEF PoolIInv, OwnersInFlight, Holds, Holders, InFlight, StepShape
  <2> QED
    BY <1>2, <2>1, <2>2, GiveBackShape DEF PoolIInv
<1> QED
  BY <1>4, <1>5

(* Requests that end without ever having had their connection.             *)
LEMMA GiveUpPool ==
  ASSUME IInv, PoolIInv, NEW r \in Requests, GiveUp(r) \/ BeginFails(r)
  PROVE  PoolIInv'
<1>1. /\ StatementFails(r) /\ ~ Holds(r) /\ owner' = owner
      /\ \A q \in Requests : q # r => pc'[q] = pc[q]
      /\ pc'[r] = "done" /\ UNCHANGED req
  BY DEF GiveUp, BeginFails, StatementFails, Answer, Goto, IInv, TypeOK
<1> QED
  BY <1>1 DEF PoolIInv, OwnerType, OwnersInFlight, StepsAsAsked, Holds, Holders, InFlight

LEMMA ComeShape ==
  ASSUME IInv, Come
  PROVE  \E r \in Requests, in \in Served \union Refused :
            /\ pc[r] = "idle" /\ req[r] = NoRequest /\ req'[r] = in /\ owner' = owner
            /\ \/ pc'[r] = FirstStep(in) /\ in.op \notin {"access", "refused"}
               \/ pc'[r] = "auth"
               \/ pc'[r] = "done" /\ in.op = "refused"
            /\ \A q \in Requests : q # r => pc'[q] = pc[q] /\ req'[q] = req[q]
<1>1. \A in \in Refused : in.op = "refused"
  BY DEF Refused
<1>2. \A in \in Served : in.op # "refused"
  BY DEF Served, RegisterRequest, ActivateRequest, LoginRequest, InvalidRequest, AccessRequest
<1>3. ASSUME NEW r \in Requests, NEW in \in Served, Arrive(r, in)
      PROVE  /\ pc[r] = "idle" /\ req[r] = NoRequest /\ req'[r] = in
             /\ pc'[r] = FirstStep(in) /\ in.op \notin {"access", "refused"}
             /\ \A q \in Requests : q # r => pc'[q] = pc[q] /\ req'[q] = req[q]
  BY <1>2, <1>3 DEF Arrive, Goto, IInv, TypeOK, PendOnCommit
<1>4. ASSUME NEW r \in Requests, NEW in \in Served \union Refused, ArriveWithToken(r, in)
      PROVE  /\ pc[r] = "idle" /\ req[r] = NoRequest /\ req'[r] = in /\ pc'[r] = "auth"
             /\ \A q \in Requests : q # r => pc'[q] = pc[q] /\ req'[q] = req[q]
  BY <1>4 DEF ArriveWithToken, Goto, IInv, TypeOK, PendOnCommit
<1>5. ASSUME NEW r \in Requests, NEW in \in Refused, Refuse(r, in)
      PROVE  /\ pc[r] = "idle" /\ req[r] = NoRequest /\ req'[r] = in /\ pc'[r] = "done"
             /\ \A q \in Requests : q # r => pc'[q] = pc[q] /\ req'[q] = req[q]
  BY <1>5 DEF Refuse, Answer, Goto, IInv, TypeOK, PendOnCommit
<1> QED
  BY <1>1, <1>3, <1>4, <1>5 DEF Come

LEMMA Ops ==
  \A in \in Served \union Refused :
     in.op \in {"register", "invalid", "activate", "login", "access", "refused"}
BY DEF Served, RegisterRequest, ActivateRequest, LoginRequest, InvalidRequest, AccessRequest, Refused

LEMMA ComePool ==
  ASSUME IInv, PoolIInv, Come
  PROVE  PoolIInv'
<1>1. PICK r \in Requests, in \in Served \union Refused :
         /\ pc[r] = "idle" /\ req[r] = NoRequest /\ req'[r] = in /\ owner' = owner
         /\ \/ pc'[r] = FirstStep(in) /\ in.op \notin {"access", "refused"}
            \/ pc'[r] = "auth"
            \/ pc'[r] = "done" /\ in.op = "refused"
         /\ \A q \in Requests : q # r => pc'[q] = pc[q] /\ req'[q] = req[q]
  BY ComeShape
<1>2. in.op \in {"register", "invalid", "activate", "login", "access", "refused"}
  BY Ops
<1>3. StepsAsAsked'
  BY <1>1, <1>2 DEF PoolIInv, StepsAsAsked, FirstStep
<1>4. OwnersInFlight'
  BY <1>1 DEF PoolIInv, OwnersInFlight, Holds, Holders, InFlight, FirstStep
<1> QED
  BY <1>1, <1>3, <1>4 DEF PoolIInv, OwnerType

LEMMA CrashPool ==
  ASSUME IInv, PoolIInv, PooledCrash
  PROVE  PoolIInv'
BY NobodyIsNobody
   DEF PooledCrash, Crash, InFlight, IInv, TypeOK, PoolIInv, OwnerType, OwnersInFlight,
       StepsAsAsked, Holds, Holders

LEMMA NextPool == IInv /\ PoolIInv /\ [PooledNext]_pooledVars => PoolIInv'
<1> SUFFICES ASSUME IInv, PoolIInv, [PooledNext]_pooledVars PROVE PoolIInv'
  OBVIOUS
<1>1. CASE UNCHANGED pooledVars
  BY <1>1 DEF pooledVars, vars, PoolIInv, OwnerType, OwnersInFlight,
    StepsAsAsked, Holds, Holders, InFlight
<1>2. CASE PooledNext
  BY <1>2, AcquirePool, RunPool, GiveUpPool, ComePool, CrashPool DEF PooledNext
<1> QED
  BY <1>1, <1>2

(* Who has a connection, and what for, in every reachable state.           *)
THEOREM PooledInvariant == PooledSpec => [](IInv /\ PoolIInv)
<1>1. PooledSpec => []IInv
  BY PoolRunsAccounts, InductiveInvariant, PTL
<1>2. PooledSpec /\ []IInv => []PoolIInv
  BY InitPool, NextPool, PTL DEF PooledSpec
<1> QED
  BY <1>1, <1>2, PTL

-----------------------------------------------------------------------------
(***************************************************************************)
(* No deadlock: what is locked or reserved belongs to a request that is at *)
(* its COMMIT, has its connection and waits for nothing.  When no request  *)
(* is, one that has a connection goes on, and when none has, all are free. *)
(***************************************************************************)
LEMMA CommitNeverWaits ==
  ASSUME PoolIInv, NEW q \in Requests, pc[q] = "commit"
  PROVE  InFlight(q) /\ ~ WaitsForConn(q) /\ ~ WaitsForCommit(q)
BY DEF InFlight, WaitsForConn, WaitsForCommit

LEMMA WaitsForACommit ==
  ASSUME IInv, NEW r \in Requests, WaitsForCommit(r)
  PROVE  \E q \in Requests : pc[q] = "commit"
BY DEF WaitsForCommit, EmailReserved, PhoneReserved, Locked, IInv, PendOnCommit

LEMMA SomeoneGoesOn ==
  ASSUME IInv, PoolIInv, NEW r \in Requests, InFlight(r)
  PROVE  \E q \in Requests : InFlight(q) /\ ~ WaitsForConn(q) /\ ~ WaitsForCommit(q)
<1>1. CASE \E q \in Requests : pc[q] = "commit"
  BY <1>1, CommitNeverWaits
<1>2. CASE \A q \in Requests : pc[q] # "commit"
  <2>1. \A q \in Requests : ~ WaitsForCommit(q)
    BY <1>2, WaitsForACommit
  <2>2. CASE \E q \in Requests : Holds(q)
    BY <2>1, <2>2 DEF PoolIInv, OwnersInFlight, WaitsForConn
  <2>3. CASE \A q \in Requests : ~ Holds(q)
    <3>1. Free = Conns
      BY <2>3 DEF Free, Holds, Holders, PoolIInv, OwnerType
    <3> QED
      BY <2>1, <3>1, SomeConnection DEF WaitsForConn
  <2> QED
    BY <2>2, <2>3
<1> QED
  BY <1>1, <1>2

(* For every number of requests and every pool, however small: as long as  *)
(* some request is in flight, one waits neither for a connection nor for   *)
(* the COMMIT of another.                                                  *)
THEOREM NeverDeadlocked == PooledSpec => []NoDeadlock
<1>1. IInv /\ PoolIInv => NoDeadlock
  BY SomeoneGoesOn DEF NoDeadlock
<1> QED
  BY <1>1, PooledInvariant, PTL

-----------------------------------------------------------------------------
(***************************************************************************)
(* Why every request ends.  That somebody can go on is NeverDeadlocked,    *)
(* that a request which can does is the fairness of the model; that there  *)
(* are only so many steps is proved here.                                  *)
(***************************************************************************)

(* How many steps a request has left at most, and one more while it is     *)
(* still without the connection that its next statement needs.             *)
LeftWithConn ==
    [idle |-> 8, auth |-> 6, read |-> 4, tx |-> 2, commit |-> 1, done |-> 0, lost |-> 0]

Left(r) ==
    LeftWithConn[pc[r]] + (IF pc[r] \in {"auth", "read", "tx"} /\ ~ Holds(r) THEN 1 ELSE 0)

(* A step brings some request nearer to its end and takes none away from   *)
(* it.                                                                     *)
Advances ==
    /\ \A r \in Requests : Left(r)' <= Left(r)
    /\ \E r \in Requests : Left(r)' < Left(r)

(* A number.                                                               *)
LEMMA LeftIsNat ==
  /\ IInv => \A r \in Requests : Left(r) \in Nat
  /\ IInv' => \A r \in Requests : Left(r)' \in Nat
BY DEF IInv, TypeOK, Left, LeftWithConn

(* What is left depends on these two only.                                 *)
LEMMA SameLeft ==
  ASSUME NEW r \in Requests, pc'[r] = pc[r], Holds(r)' <=> Holds(r)
  PROVE  Left(r)' = Left(r)
BY DEF Left

(* Most steps are of one request.                                          *)
LEMMA OneAdvances ==
  ASSUME IInv, IInv', NEW r \in Requests, Left(r)' < Left(r),
         \A q \in Requests : q # r => pc'[q] = pc[q] /\ (Holds(q)' <=> Holds(q))
  PROVE  Advances
<1>1. \A q \in Requests : q # r => Left(q)' = Left(q)
  BY SameLeft
<1>2. \A q \in Requests : Left(q) \in Nat /\ Left(q)' \in Nat
  BY LeftIsNat
<1> QED
  BY <1>1, <1>2 DEF Advances

(* A request that gets its connection is one step further.                 *)
LEMMA AcquireAdvances ==
  ASSUME IInv, IInv', PoolIInv, NEW r \in Requests, Acquire(r)
  PROVE  Advances
<1>1. PICK c \in Conns : /\ owner[c] = Nobody /\ owner'[c] = r
                         /\ \A d \in Conns : d # c => owner'[d] = owner[d]
  BY AcquireShape DEF PoolIInv
<1>2. pc[r] \in {"auth", "read", "tx"} /\ ~ Holds(r) /\ pc' = pc
  BY AcquireShape DEF PoolIInv, vars
<1>3. Holds(r)' /\ \A q \in Requests : q # r => (Holds(q)' <=> Holds(q))
  BY <1>1, NobodyIsNobody DEF Holds, Holders
<1>4. Left(r)' < Left(r)
  BY <1>2, <1>3 DEF Left, LeftWithConn
<1> QED
  BY <1>2, <1>3, <1>4, OneAdvances

(* A statement, a COMMIT or their failure: a request whose lookup leads on *)
(* needs a connection again, and is nearer to its end all the same.        *)
LEMMA RunAdvances ==
  ASSUME IInv, IInv', PoolIInv, NEW r \in Requests, Run(r) \/ RunFails(r)
  PROVE  Advances
<1>1. /\ \A q \in Requests : q # r => pc'[q] = pc[q]
      /\ InFlight(r) /\ req' = req /\ StepShape(r)
  BY ProgressSteps DEF Run, RunFails
<1>2. Holds(r) /\ Release(r)
  BY DEF Run, RunFails
<1>3. \A q \in Requests : q # r => (Holds(q)' <=> Holds(q))
  BY <1>2, GiveBackShape DEF Release, PoolIInv, Holds, Holders
<1>4. Left(r)' < Left(r)
  <2>1. CASE pc[r] = "auth"
    <3>1. pc'[r] \in {"read", "tx", "done"}
      BY <1>1, <2>1 DEF StepShape, FirstStep
    <3> QED
      BY <2>1, <3>1 DEF Left, LeftWithConn
  <2>2. CASE pc[r] \in {"read", "tx", "commit"}
    <3>1. \/ pc[r] = "tx" /\ pc'[r] = "commit"
          \/ pc[r] = "read" /\ pc'[r] = "tx"
          \/ pc'[r] = "done"
      BY <1>1, <2>2 DEF StepShape
    <3> QED
      BY <2>2, <3>1 DEF Left, LeftWithConn
  <2> QED
    BY <1>1, <2>1, <2>2 DEF InFlight
<1> QED
  BY <1>1, <1>3, <1>4, OneAdvances

(* Requests that end without ever having had their connection.             *)
LEMMA GiveUpAdvances ==
  ASSUME IInv, IInv', NEW r \in Requests, GiveUp(r) \/ BeginFails(r)
  PROVE  Advances
<1>1. /\ ~ Holds(r) /\ owner' = owner
      /\ \A q \in Requests : q # r => pc'[q] = pc[q]
      /\ pc[r] \in {"auth", "read", "tx"} /\ pc'[r] = "done"
  BY DEF GiveUp, BeginFails, StatementFails, Answer, Goto, IInv, TypeOK
<1>2. Left(r)' < Left(r)
  BY <1>1 DEF Left, LeftWithConn
<1> QED
  BY <1>1, <1>2, OneAdvances DEF Holds, Holders

(* Requests that arrive, and those that are refused at once.               *)
LEMMA ComeAdvances ==
  ASSUME IInv, IInv', Come
  PROVE  Advances
<1>1. PICK r \in Requests :
         /\ pc[r] = "idle" /\ pc'[r] \in {"auth", "read", "tx", "done"} /\ owner' = owner
         /\ \A q \in Requests : q # r => pc'[q] = pc[q]
  BY ComeShape DEF FirstStep
<1>2. Left(r)' < Left(r)
  BY <1>1 DEF Left, LeftWithConn
<1> QED
  BY <1>1, <1>2, OneAdvances DEF Holds, Holders

(* A crash leaves nothing to do to those that were in flight.              *)
LEMMA CrashAdvances ==
  ASSUME IInv, IInv', PooledCrash
  PROVE  Advances
<1>1. /\ \E r \in Requests : InFlight(r)
      /\ \A r \in Requests : pc'[r] = IF InFlight(r) THEN "lost" ELSE pc[r]
  BY DEF PooledCrash, Crash
<1>2. \A r \in Requests : IF InFlight(r) THEN Left(r)' < Left(r) ELSE Left(r)' = Left(r)
  BY <1>1 DEF InFlight, Left, LeftWithConn
<1>3. \A r \in Requests : Left(r) \in Nat /\ Left(r)' \in Nat
  BY LeftIsNat
<1> QED
  BY <1>1, <1>2, <1>3 DEF Advances

(* A request takes at most eight steps, whatever happens to the others, and  *)
(* nothing that the others do gives it one back: there are no retries.     *)
THEOREM EveryStepAdvances == PooledSpec => [][Advances]_pooledVars
<1>1. ASSUME IInv, IInv', PoolIInv, PooledNext PROVE Advances
  BY <1>1, AcquireAdvances, RunAdvances, GiveUpAdvances, ComeAdvances, CrashAdvances
     DEF PooledNext
<1> QED
  BY <1>1, PooledInvariant, PTL DEF PooledSpec

-----------------------------------------------------------------------------
(***************************************************************************)
(* AccountsPool implements TxPool.                                         *)
(***************************************************************************)

(* Both are functions on the requests.                                     *)
LEMMA PoolDomains ==
  /\ PoolPc = [q \in Requests |-> PoolPc[q]]
  /\ PoolPc' = [q \in Requests |-> PoolPc'[q]]
  /\ PoolPlan = [q \in Requests |-> PoolPlan[q]]
  /\ PoolPlan' = [q \in Requests |-> PoolPlan'[q]]
<1>1. PoolPc = [q \in Requests |-> PoolPc[q]] /\ PoolPc' = [q \in Requests |-> PoolPc'[q]]
  BY Zenon DEF PoolPc
<1>2. PoolPlan = [q \in Requests |-> PoolPlan[q]] /\ PoolPlan' = [q \in Requests |-> PoolPlan'[q]]
  BY Zenon DEF PoolPlan
<1> QED
  BY <1>1, <1>2

(* What TxPool sees of a request depends on these three only.              *)
LEMMA SamePool ==
  ASSUME NEW r \in Requests, pc'[r] = pc[r], req'[r] = req[r], Holds(r)' <=> Holds(r)
  PROVE  PoolPc'[r] = PoolPc[r] /\ PoolPlan'[r] = PoolPlan[r]
BY DEF PoolPc, PoolPlan, Holds

LEMMA PoolGoto ==
  ASSUME NEW r \in Requests, NEW label, PoolPc'[r] = label,
         \A q \in Requests : q # r => PoolPc'[q] = PoolPc[q]
  PROVE  Pool!Goto(r, label)
BY PoolDomains DEF Pool!Goto

LEMMA PoolInitial == PooledInit => Pool!Init
<1> SUFFICES ASSUME PooledInit PROVE Pool!Init
  OBVIOUS
<1>1. \A r \in Requests : pc[r] = "idle"
  BY DEF PooledInit, Init
<1>2. PoolPc = [r \in Requests |-> "idle"]
  BY <1>1 DEF PoolPc
<1>3. PoolPlan = [r \in Requests |-> Pool!Nothing]
  BY <1>1 DEF PoolPlan, Pool!Nothing
<1> QED
  BY <1>2, <1>3 DEF PooledInit, Pool!Init

(* To take a connection is to begin the lookup or the transaction.         *)
LEMMA AcquireStep ==
  ASSUME IInv, PoolIInv, NEW r \in Requests, Acquire(r)
  PROVE  Pool!StartLookup(r) \/ Pool!Begin(r)
<1>1. PICK c \in Conns : /\ owner[c] = Nobody /\ owner'[c] = r
                         /\ owner' = [owner EXCEPT ![c] = r]
                         /\ \A d \in Conns : d # c => owner'[d] = owner[d]
  BY AcquireShape DEF PoolIInv
<1>2. pc[r] \in {"auth", "read", "tx"} /\ ~ Holds(r) /\ UNCHANGED <<pc, req>>
  BY AcquireShape DEF PoolIInv, vars
<1>3. Holds(r)' /\ \A q \in Requests : q # r => (Holds(q)' <=> Holds(q))
  BY <1>1, NobodyIsNobody DEF Holds, Holders
<1>4. \A q \in Requests : q # r => PoolPc'[q] = PoolPc[q]
  BY <1>2, <1>3, SamePool
<1>5. PoolPlan' = PoolPlan
  BY <1>2 DEF PoolPlan
<1>6. Pool!Take(r)
  BY <1>1 DEF Pool!Take
<1>7. CASE pc[r] \in {"auth", "read"}
  <2>1. PoolPc[r] = "wantsLookup" /\ PoolPc'[r] = "lookup"
    BY <1>2, <1>3, <1>7 DEF PoolPc
  <2> QED
    BY <1>4, <1>5, <1>6, <2>1, PoolGoto DEF Pool!StartLookup
<1>8. CASE pc[r] = "tx"
  <2>1. PoolPc[r] = "wantsTx" /\ PoolPc'[r] = "tx"
    BY <1>2, <1>3, <1>8 DEF PoolPc
  <2> QED
    BY <1>4, <1>5, <1>6, <2>1, PoolGoto DEF Pool!Begin
<1> QED
  BY <1>2, <1>7, <1>8

(* An answered request has nothing more to do.                             *)
LEMMA PoolAnswers ==
  ASSUME NEW r \in Requests, pc'[r] = "done",
         \A q \in Requests : q # r => PoolPc'[q] = PoolPc[q] /\ PoolPlan'[q] = PoolPlan[q]
  PROVE  Pool!Answer(r)
<1>1. PoolPc'[r] = "answered" /\ PoolPlan'[r] = Pool!Nothing
  BY DEF PoolPc, PoolPlan, Pool!Nothing
<1>2. PoolPlan' = [PoolPlan EXCEPT ![r] = Pool!Nothing]
  BY <1>1, PoolDomains
<1> QED
  BY <1>1, <1>2, PoolGoto DEF Pool!Answer

(* A lookup that leads on to the next need of the request.                 *)
LEMMA PoolEndsLookup ==
  ASSUME NEW r \in Requests, NEW n \in {0, 1}, NEW tx \in {"none", "returns"},
         Pool!GiveBack(r), PoolPc[r] = "lookup",
         PoolPlan[r] = [lookups |-> n + 1, tx |-> tx],
         PoolPlan'[r] = [lookups |-> n, tx |-> tx],
         PoolPc'[r] = Pool!NextNeed([lookups |-> n, tx |-> tx]),
         \A q \in Requests : q # r => PoolPc'[q] = PoolPc[q] /\ PoolPlan'[q] = PoolPlan[q]
  PROVE  Pool!EndLookup(r)
<1>1. PoolPlan'[r] = [PoolPlan[r] EXCEPT !.lookups = @ - 1]
  OBVIOUS
<1>2. PoolPlan' = [PoolPlan EXCEPT ![r] = PoolPlan'[r]]
  BY PoolDomains
<1>3. PoolPlan' = [PoolPlan EXCEPT ![r].lookups = @ - 1]
  BY <1>1, <1>2
<1>4. Pool!Goto(r, Pool!NextNeed(PoolPlan'[r]))
  BY PoolGoto
<1> QED
  BY <1>3, <1>4 DEF Pool!EndLookup

(* A statement or the end of a transaction: a lookup that leads on makes   *)
(* place for what the request needs next, everything else that gives the   *)
(* connection back ends the request, and the statement of a transaction is *)
(* not seen.                                                               *)
LEMMA RunStep ==
  ASSUME IInv, PoolIInv, NEW r \in Requests, Run(r) \/ RunFails(r)
  PROVE  \/ UNCHANGED <<owner, PoolPc, PoolPlan>>
         \/ Pool!EndLookup(r) \/ Pool!StopAfterLookup(r) \/ Pool!EndTx(r)
<1>1. /\ \A q \in Requests : q # r => pc'[q] = pc[q]
      /\ InFlight(r) /\ req' = req /\ StepShape(r)
  BY ProgressSteps DEF Run, RunFails
<1>2. Holds(r) /\ Release(r)
  BY DEF Run, RunFails
<1>3. CASE pc[r] = "tx" /\ pc'[r] = "commit"
  <2>1. owner' = owner
    BY <1>2, <1>3 DEF Release
  <2>2. \A q \in Requests : Holds(q)' <=> Holds(q)
    BY <2>1 DEF Holds, Holders
  <2>3. PoolPc'[r] = PoolPc[r] /\ PoolPlan'[r] = PoolPlan[r]
    BY <1>2, <1>3, <2>2 DEF PoolPc, PoolPlan
  <2>4. \A q \in Requests : PoolPc'[q] = PoolPc[q] /\ PoolPlan'[q] = PoolPlan[q]
    BY <1>1, <2>2, <2>3, SamePool
  <2> QED
    BY <2>1, <2>4, PoolDomains
<1>4. ASSUME pc'[r] # "commit"
      PROVE  /\ Pool!GiveBack(r) /\ ~ Holds(r)'
             /\ \A q \in Requests : q # r =>
                   PoolPc'[q] = PoolPc[q] /\ PoolPlan'[q] = PoolPlan[q]
  <2>1. GiveBack(r)
    BY <1>2, <1>4 DEF Release
  <2> QED
    BY <1>1, <2>1, GiveBackShape, SamePool DEF PoolIInv, GiveBack, Pool!GiveBack
<1>5. CASE pc[r] = "read" /\ pc'[r] = "tx" /\ req[r].op = "activate"
  <2>1. PoolPc[r] = "lookup" /\ PoolPc'[r] = "wantsTx"
    BY <1>2, <1>4, <1>5 DEF PoolPc
  <2>2. /\ PoolPlan[r] = [lookups |-> 0 + 1, tx |-> "returns"]
        /\ PoolPlan'[r] = [lookups |-> 0, tx |-> "returns"]
    BY <1>5 DEF PoolPlan, HandlerPlan
  <2>3. Pool!NextNeed([lookups |-> 0, tx |-> "returns"]) = "wantsTx"
    BY DEF Pool!NextNeed
  <2> QED
    BY <1>4, <1>5, <2>1, <2>2, <2>3, PoolEndsLookup
<1>6. CASE /\ pc[r] = "auth" /\ pc'[r] = FirstStep(req[r])
           /\ req[r].op \notin {"access", "refused"}
  <2>1. req[r].op \in {"register", "invalid", "activate", "login"}
    BY <1>6 DEF PoolIInv, StepsAsAsked
  <2>2. PICK n \in {0, 1}, tx \in {"none", "returns"} :
           /\ HandlerPlan(req[r].op) = [lookups |-> n, tx |-> tx]
           /\ pc'[r] = (IF n = 0 THEN "tx" ELSE "read")
           /\ n = 0 => tx = "returns"
    BY <1>6, <2>1 DEF HandlerPlan, FirstStep
  <2>3. /\ PoolPlan[r] = [lookups |-> n + 1, tx |-> tx]
        /\ PoolPlan'[r] = [lookups |-> n, tx |-> tx]
    BY <1>1, <1>6, <2>2 DEF PoolPlan
  <2>4. PoolPc[r] = "lookup" /\ PoolPc'[r] = Pool!NextNeed([lookups |-> n, tx |-> tx])
    BY <1>2, <1>4, <1>6, <2>2 DEF PoolPc, Pool!NextNeed
  <2> QED
    BY <1>4, <2>2, <2>3, <2>4, PoolEndsLookup
<1>7. CASE pc'[r] = "done"
  <2>1. Pool!Answer(r)
    BY <1>4, <1>7, PoolAnswers
  <2>2. CASE pc[r] \in {"auth", "read"}
    <3>1. PoolPc[r] = "lookup"
      BY <1>2, <2>2 DEF PoolPc
    <3> QED
      BY <1>4, <1>7, <2>1, <3>1 DEF Pool!StopAfterLookup
  <2>3. CASE pc[r] \in {"tx", "commit"}
    <3>1. PoolPc[r] = "tx" /\ PoolPlan[r].tx = "returns"
      BY <1>2, <2>3 DEF PoolPc, PoolPlan
    <3> QED
      BY <1>4, <1>7, <2>1, <3>1 DEF Pool!EndTx
  <2> QED
    BY <1>1, <2>2, <2>3 DEF InFlight
<1> QED
  BY <1>1, <1>3, <1>5, <1>6, <1>7 DEF StepShape

(* A request that ends without its connection was timed out in its wait,   *)
(* or db.Begin failed.                                                     *)
LEMMA GiveUpStep ==
  ASSUME IInv, PoolIInv, NEW r \in Requests, GiveUp(r) \/ BeginFails(r)
  PROVE  Pool!LookupTimesOut(r) \/ Pool!BeginFails(r)
<1>1. /\ ~ Holds(r) /\ owner' = owner
      /\ \A q \in Requests : q # r => pc'[q] = pc[q]
      /\ pc'[r] = "done" /\ UNCHANGED req
  BY DEF GiveUp, BeginFails, StatementFails, Answer, Goto, IInv, TypeOK
<1>2. \A q \in Requests : Holds(q)' <=> Holds(q)
  BY <1>1 DEF Holds, Holders
<1>3. Pool!Answer(r)
  BY <1>1, <1>2, SamePool, PoolAnswers
<1>4. CASE GiveUp(r)
  <2>1. PoolPc[r] = "wantsLookup"
    BY <1>4 DEF GiveUp, PoolPc
  <2>2. Pool!GiveBack(r)
    <3>1. \A c \in Conns : owner[c] # r
      BY <1>1 DEF Holds, Holders
    <3> QED
      BY <1>1, <3>1 DEF Pool!GiveBack, PoolIInv, OwnerType
  <2> QED
    BY <1>3, <2>1, <2>2 DEF Pool!LookupTimesOut
<1>5. CASE BeginFails(r)
  <2>1. PoolPc[r] = "wantsTx" /\ \E c \in Conns : owner[c] = Nobody
    BY <1>5 DEF BeginFails, Free, PoolPc
  <2> QED
    BY <1>1, <1>3, <2>1 DEF Pool!BeginFails
<1> QED
  BY <1>4, <1>5

(* A request comes with the plan of its route, and with one lookup more    *)
(* when it has a token; one that is refused at once has nothing to do.     *)
LEMMA HandlerPlans ==
  \A op : /\ HandlerPlan(op) \in Pool!Plans
          /\ [HandlerPlan(op) EXCEPT !.lookups = @ + 1] \in Pool!Plans
<1> TAKE op
<1> DEFINE routes == DOMAIN Pool!OpenRoutes
<1>1. PICK route \in routes : HandlerPlan(op) = Pool!OpenRoutes[route]
  <2>1. HandlerPlan(op) \in {[lookups |-> 0, tx |-> "returns"], [lookups |-> 1, tx |-> "returns"],
                             [lookups |-> 1, tx |-> "none"], [lookups |-> 0, tx |-> "none"]}
    BY DEF HandlerPlan
  <2> QED
    BY <2>1 DEF Pool!OpenRoutes, Pool!Nothing
<1>2. [HandlerPlan(op) EXCEPT !.lookups = @ + 1] = Pool!Authenticated(Pool!OpenRoutes[route])
  BY <1>1 DEF Pool!Authenticated
<1> QED
  BY <1>1, <1>2, Zenon DEF Pool!Plans

LEMMA ComeStep ==
  ASSUME IInv, PoolIInv, Come
  PROVE  \E r \in Requests : Pool!Arrive(r)
<1>1. PICK r \in Requests, in \in Served \union Refused :
         /\ pc[r] = "idle" /\ req[r] = NoRequest /\ req'[r] = in /\ owner' = owner
         /\ \/ pc'[r] = FirstStep(in) /\ in.op \notin {"access", "refused"}
            \/ pc'[r] = "auth"
            \/ pc'[r] = "done" /\ in.op = "refused"
         /\ \A q \in Requests : q # r => pc'[q] = pc[q] /\ req'[q] = req[q]
  BY ComeShape
<1>2. in.op \in {"register", "invalid", "activate", "login", "access", "refused"}
  BY Ops
<1>3. \A q \in Requests : Holds(q)' <=> Holds(q)
  BY <1>1 DEF Holds, Holders
<1>4. ~ Holds(r) /\ PoolPc[r] = "idle"
  BY <1>1 DEF PoolIInv, OwnersInFlight, InFlight, PoolPc
<1>5. \A q \in Requests : q # r => PoolPc'[q] = PoolPc[q] /\ PoolPlan'[q] = PoolPlan[q]
  BY <1>1, <1>3, SamePool
<1>6. ASSUME NEW p \in Pool!Plans, PoolPlan'[r] = p, PoolPc'[r] = Pool!NextNeed(p)
      PROVE  Pool!Arrive(r)
  <2>1. PoolPlan' = [PoolPlan EXCEPT ![r] = p]
    BY <1>5, <1>6, PoolDomains
  <2>2. Pool!Goto(r, Pool!NextNeed(p))
    BY <1>5, <1>6, PoolGoto
  <2> QED
    BY <1>1, <1>4, <2>1, <2>2 DEF Pool!Arrive
<1>7. CASE pc'[r] = "auth"
  <2> DEFINE p == [HandlerPlan(in.op) EXCEPT !.lookups = @ + 1]
  <2>1. PoolPlan'[r] = p
    BY <1>1, <1>7 DEF PoolPlan
  <2>2. p.lookups > 0
    BY DEF HandlerPlan
  <2>3. PoolPc'[r] = Pool!NextNeed(p)
    BY <1>3, <1>4, <1>7, <2>2 DEF PoolPc, Pool!NextNeed
  <2> QED
    BY <1>6, <2>1, <2>3, HandlerPlans
<1>8. CASE pc'[r] = FirstStep(in) /\ in.op \notin {"access", "refused"}
  <2>1. PoolPlan'[r] = HandlerPlan(in.op)
    BY <1>1, <1>2, <1>8 DEF PoolPlan, HandlerPlan, FirstStep
  <2>2. PoolPc'[r] = Pool!NextNeed(HandlerPlan(in.op))
    BY <1>2, <1>3, <1>4, <1>8 DEF PoolPc, HandlerPlan, FirstStep, Pool!NextNeed
  <2> QED
    BY <1>6, <2>1, <2>2, HandlerPlans
<1>9. CASE pc'[r] = "done" /\ in.op = "refused"
  <2>1. PoolPlan'[r] = HandlerPlan(in.op)
    BY <1>9 DEF PoolPlan, HandlerPlan
  <2>2. PoolPc'[r] = Pool!NextNeed(HandlerPlan(in.op))
    BY <1>9 DEF PoolPc, HandlerPlan, Pool!NextNeed
  <2> QED
    BY <1>6, <2>1, <2>2, HandlerPlans
<1> QED
  BY <1>1, <1>7, <1>8, <1>9

LEMMA CrashStep ==
  ASSUME IInv, PoolIInv, PooledCrash
  PROVE  Pool!Restart
<1>1. /\ \E r \in Requests : InFlight(r)
      /\ pc' = [r \in Requests |-> IF InFlight(r) THEN "lost" ELSE pc[r]]
      /\ owner' = [c \in Conns |-> Nobody] /\ UNCHANGED req
  BY DEF PooledCrash, Crash
<1>2. \A r \in Requests : Pool!InFlight(r) <=> InFlight(r)
  BY DEF IInv, TypeOK, InFlight, PoolPc, Pool!InFlight, Pool!Waiting, Pool!Using
<1>3. \A r \in Requests : PoolPc'[r] = IF Pool!InFlight(r) THEN "lost" ELSE PoolPc[r]
  BY <1>1, <1>2 DEF IInv, TypeOK, InFlight, PoolPc
<1>4. \A r \in Requests : PoolPlan'[r] = IF Pool!InFlight(r) THEN Pool!Nothing ELSE PoolPlan[r]
  BY <1>1, <1>2 DEF IInv, TypeOK, InFlight, PoolPlan, Pool!Nothing
<1> QED
  BY <1>1, <1>2, <1>3, <1>4, PoolDomains DEF Pool!Restart

LEMMA PoolStep == IInv /\ PoolIInv /\ [PooledNext]_pooledVars => [Pool!Next]_(Pool!vars)
<1> SUFFICES ASSUME IInv, PoolIInv, [PooledNext]_pooledVars
             PROVE  Pool!Next \/ UNCHANGED <<owner, PoolPc, PoolPlan>>
  BY DEF Pool!vars
<1>1. CASE UNCHANGED pooledVars
  <2>1. UNCHANGED <<owner, pc, req>>
    BY <1>1 DEF pooledVars, vars
  <2>2. \A q \in Requests : Holds(q)' <=> Holds(q)
    BY <2>1 DEF Holds, Holders
  <2>3. \A q \in Requests : PoolPc'[q] = PoolPc[q] /\ PoolPlan'[q] = PoolPlan[q]
    BY <2>1, <2>2, SamePool
  <2> QED
    BY <2>1, <2>3 DEF PoolPc, PoolPlan
<1>2. CASE Come \/ PooledCrash
  BY <1>2, ComeStep, CrashStep DEF Pool!Next
<1>3. ASSUME NEW r \in Requests, Acquire(r) \/ Run(r) \/ RunFails(r) \/ GiveUp(r) \/ BeginFails(r)
      PROVE  Pool!Progress(r) \/ UNCHANGED <<owner, PoolPc, PoolPlan>>
  BY <1>3, AcquireStep, RunStep, GiveUpStep DEF Pool!Progress
<1> QED
  BY <1>1, <1>2, <1>3 DEF PooledNext, Pool!Next

(* No request holds a connection while it waits for one, none holds two,   *)
(* and none that has ended keeps one: over the routes of Accounts, where   *)
(* nothing panics inside a transaction, the pool never shrinks.            *)
THEOREM PoolNeverShrinks == PooledSpec => [](Pool!NoHoldAndWait /\ Pool!Leaked = {})
<1>1. ASSUME IInv, PoolIInv PROVE Pool!NoHoldAndWait
  <2> SUFFICES ASSUME NEW c \in Conns, NEW r \in Requests, owner[c] = r
               PROVE  ~ Pool!Waiting(r) /\ \A d \in Conns \ {c} : owner[d] # r
    BY DEF Pool!NoHoldAndWait, Pool!Owns
  <2>1. Holds(r)
    BY DEF Holds, Holders
  <2>2. PoolPc[r] \in {"lookup", "tx"}
    BY <1>1, <2>1 DEF PoolIInv, OwnersInFlight, InFlight, PoolPc
  <2> QED
    BY <1>1, <2>2 DEF Pool!Waiting, PoolIInv, OwnersInFlight
<1>2. ASSUME IInv, PoolIInv PROVE Pool!Leaked = {}
  <2> SUFFICES ASSUME NEW c \in Conns, owner[c] # Nobody, Pool!Ended(owner[c])
               PROVE  FALSE
    BY DEF Pool!Leaked
  <2>1. owner[c] \in Requests /\ Holds(owner[c])
    BY <1>2 DEF PoolIInv, OwnerType, Holds, Holders
  <2>2. PoolPc[owner[c]] \in {"lookup", "tx"}
    BY <1>2, <2>1 DEF PoolIInv, OwnersInFlight, InFlight, PoolPc
  <2> QED
    BY <2>2 DEF Pool!Ended
<1> QED
  BY <1>1, <1>2, PooledInvariant, PTL

(* Who has and who waits for a connection is as TxPool says, for every     *)
(* number of requests and every size of the pool.                          *)
THEOREM ImplementsTxPool == PooledSpec => ImplementsPool
<1>1. PooledInit => Pool!Init
  BY PoolInitial
<1>2. IInv /\ PoolIInv /\ [PooledNext]_pooledVars => [Pool!Next]_(Pool!vars)
  BY PoolStep
<1> QED
  BY <1>1, <1>2, PooledInvariant, PTL DEF PooledSpec, ImplementsPool, Pool!Spec

=============================================================================
