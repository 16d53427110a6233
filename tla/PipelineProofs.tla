--------------------------- MODULE PipelineProofs ---------------------------
(***************************************************************************)
(* Proofs about ServerLifecycle and Pipeline, for any requests and         *)
(* statuses.  Of the server: its type, that handlers are drained before    *)
(* the pool is closed, that a clean end leaves no request behind, and that *)
(* a shutdown always has a step to take and only so many of them.  Of the  *)
(* middlewares: they add nothing to what the server does, and the counters *)
(* of Metrics add up.                                                      *)
(*                                                                         *)
(* Requests need not be finite in number; those that have come are.        *)
(***************************************************************************)
EXTENDS Pipeline, FiniteSetTheorems, TLAPS

-----------------------------------------------------------------------------
(***************************************************************************)
(* The server.                                                             *)
(***************************************************************************)

(* Where the watcher stands once Shutdown has returned.                    *)
AfterShutdown == {"reportsError", "completing", "closing", "returned"}

(* A Shutdown that was not cut short leaves no handler running.            *)
ShutdownDrains ==
    watcher \in AfterShutdown /\ ~ timedOut => Running = {}

(* Which report of the watcher, or which failure, made main return.        *)
ReportsMatch ==
    /\ main \in {"opening", "starting"} <=> watcher = "none"
    /\ main \in {"failing", "failed"} => broken \/ watcher \in AfterShutdown
    /\ main \in {"stopping", "stopped"} => watcher \in {"closing", "returned"} /\ ~ broken
    /\ watcher \in {"closing", "returned"} => main \in {"stopping", "stopped"} /\ ~ timedOut
    /\ watcher = "completing" /\ timedOut => main \in {"failing", "failed"}
    /\ broken => main \in {"failing", "failed"}
    /\ timedOut => watcher \in AfterShutdown

(* Who closed the pool; main stops cleanly only if there was one.          *)
PoolClosers ==
    /\ pool = "closed" => main \in {"failed", "stopped"} \/ watcher = "returned"
    /\ main = "stopped" => pool # "none"

(* Requests fail only for want of a pool, and are cut only by the end.     *)
FailuresExplained ==
    /\ main = "opening" => \A r \in Requests : req[r] = "idle"
    /\ pool # "none" /\ ~ timedOut /\ ~ broken => \A r \in Requests : req[r] # "failed"
    /\ Alive => \A r \in Requests : req[r] # "cut"

IInv ==
    /\ TypeOK
    /\ ShutdownDrains
    /\ ReportsMatch
    /\ PoolClosers
    /\ FailuresExplained
    /\ CleanMeansDrained

(* A closed pool means that the deadline has passed, or that the listener  *)
(* broke.                                                                  *)
LEMMA DrainsFirst == IInv => DrainBeforeClose
BY DEF IInv, DrainBeforeClose, ShutdownDrains, ReportsMatch, PoolClosers, AfterShutdown

-----------------------------------------------------------------------------
(* The strengthening holds at the start,                                   *)
LEMMA InitIInv == Init => IInv
BY DEF Init, IInv, TypeOK, ShutdownDrains, ReportsMatch, PoolClosers, FailuresExplained,
       CleanMeansDrained, AfterShutdown, Alive

(* Steps of main and the watcher that leave requests, the pool and the end *)
(* of the process alone.                                                   *)
LEMMA QuietIInv ==
  ASSUME IInv, StartWatcher \/ Serve \/ ServeFails \/ ServeClosed \/ Notify \/ Shutdown
               \/ Drained \/ DeadlinePasses \/ ReportError \/ ReportNil
  PROVE  IInv'
<1> USE DEF StartWatcher, Serve, ServeFails, ServeClosed, Notify, Shutdown,
            Drained, DeadlinePasses, ReportError, ReportNil
<1>0. Running' = Running /\ UNCHANGED <<pool, req, exit>>
  BY DEF Running
<1>1. TypeOK'
  <2>1. /\ pool' \in {"none", "open", "closed"}
        /\ req' \in [Requests -> {"idle", "running", "answered", "failed", "cut"}]
        /\ exit' \in {"alive", "stopped", "failed", "killed", "crashed"}
    BY <1>0 DEF IInv, TypeOK
  <2>2. main' \in {"opening", "starting", "binding", "serving", "awaiting",
                   "failing", "failed", "stopping", "stopped"}
    BY DEF IInv, TypeOK
  <2>3. watcher' \in {"none", "started", "listening", "draining", "reportsError",
                      "completing", "closing", "returned"}
    BY DEF IInv, TypeOK
  <2>4. signalled' \in BOOLEAN /\ timedOut' \in BOOLEAN /\ broken' \in BOOLEAN
    BY DEF IInv, TypeOK
  <2> QED
    BY <2>1, <2>2, <2>3, <2>4 DEF TypeOK
<1>2. ShutdownDrains'
  BY <1>0 DEF IInv, ShutdownDrains, AfterShutdown, ReportsMatch
<1>3. ReportsMatch'
  BY DEF IInv, TypeOK, ReportsMatch, AfterShutdown, ShuttingDown
<1>4. PoolClosers'
  BY <1>0 DEF IInv, TypeOK, PoolClosers, ReportsMatch, ShuttingDown
<1>5. FailuresExplained'
  BY <1>0 DEF IInv, FailuresExplained, ReportsMatch, Alive, ShuttingDown
<1>6. CleanMeansDrained'
  BY <1>0 DEF IInv, CleanMeansDrained
<1> QED
  BY <1>1, <1>2, <1>3, <1>4, <1>5, <1>6 DEF IInv

(* Main opens the pool, or fails to.                                       *)
LEMMA OpenIInv == ASSUME IInv, Open PROVE IInv'
<1>1. Running' = Running
  BY DEF Open, Running
<1> QED
  BY <1>1 DEF Open, IInv, TypeOK, ShutdownDrains, ReportsMatch, PoolClosers,
     FailuresExplained, CleanMeansDrained, AfterShutdown, Alive

(* The process ends: no handler runs any more, and only the end changes.   *)
LEMMA EndIInv ==
  ASSUME IInv, Alive, NEW how \in {"stopped", "failed", "killed", "crashed"}, End(how),
         UNCHANGED <<main, watcher, pool, timedOut, broken>>, signalled' \in BOOLEAN,
         how = "stopped" => main = "stopped"
  PROVE  IInv'
<1>1. req' \in [Requests -> {"idle", "running", "answered", "failed", "cut"}]
  BY DEF IInv, TypeOK, End
<1>2. \A r \in Requests : req'[r] = IF req[r] = "running" THEN "cut" ELSE req[r]
  BY DEF End, Running
<1>3. Running' = {}
  BY <1>2 DEF Running
<1>4. TypeOK'
  BY <1>1 DEF IInv, TypeOK, End
<1>5. ShutdownDrains' /\ ReportsMatch' /\ PoolClosers'
  BY <1>3 DEF IInv, ShutdownDrains, ReportsMatch, PoolClosers
<1>6. FailuresExplained'
  BY <1>2 DEF IInv, FailuresExplained, End, Alive
<1>7. CleanMeansDrained'
  <2>1. SUFFICES ASSUME how = "stopped", NEW r \in Requests
                 PROVE  req'[r] \in {"idle", "answered"}
    BY DEF CleanMeansDrained, End
  <2>2. pool # "none" /\ ~ timedOut /\ ~ broken /\ watcher \in AfterShutdown
    BY <2>1 DEF IInv, PoolClosers, ReportsMatch, AfterShutdown
  <2>3. Running = {}
    BY <2>2 DEF IInv, ShutdownDrains
  <2>4. req[r] \in {"idle", "answered"}
    BY <2>2, <2>3 DEF IInv, TypeOK, FailuresExplained, Running
  <2> QED
    BY <2>4, <1>2
<1> QED
  BY <1>4, <1>5, <1>6, <1>7 DEF IInv

(* Main closes the pool; without one the process crashes.                  *)
LEMMA MainClosesIInv == ASSUME IInv, MainCloses PROVE IInv'
<1>1. CASE pool = "none"
  <2>1. End("crashed") /\ Alive /\ UNCHANGED <<main, watcher, pool, timedOut, broken, signalled>>
    BY <1>1 DEF MainCloses
  <2> QED
    BY <2>1, EndIInv DEF IInv, TypeOK
<1>2. CASE pool # "none"
  <2>1. Running' = Running
    BY <1>2 DEF MainCloses, Running
  <2> QED
    BY <1>2, <2>1 DEF MainCloses, IInv, TypeOK, ShutdownDrains, ReportsMatch, PoolClosers,
       FailuresExplained, CleanMeansDrained, AfterShutdown, Alive
<1> QED
  BY <1>1, <1>2

(* The watcher closes the pool, in the same way.                           *)
LEMMA WatcherClosesIInv == ASSUME IInv, WatcherCloses PROVE IInv'
<1>1. CASE pool = "none"
  <2>1. End("crashed") /\ Alive /\ UNCHANGED <<main, watcher, pool, timedOut, broken, signalled>>
    BY <1>1 DEF WatcherCloses
  <2> QED
    BY <2>1, EndIInv DEF IInv, TypeOK
<1>2. CASE pool # "none"
  <2>1. Running' = Running
    BY <1>2 DEF WatcherCloses, Running
  <2> QED
    BY <1>2, <2>1 DEF WatcherCloses, IInv, TypeOK, ShutdownDrains, ReportsMatch, PoolClosers,
       FailuresExplained, CleanMeansDrained, AfterShutdown, Alive
<1> QED
  BY <1>1, <1>2

(* Main returns and takes the handlers with it.                            *)
LEMMA MainReturnsIInv == ASSUME IInv, MainReturns PROVE IInv'
<1>1. main \in {"stopped", "failed"} /\ End(main) /\ Alive
      /\ UNCHANGED <<main, watcher, pool, timedOut, broken, signalled>>
  BY DEF MainReturns
<1> QED
  BY <1>1, EndIInv DEF IInv, TypeOK

(* A signal kills the process or waits for the watcher.                    *)
LEMMA SignalIInv == ASSUME IInv, Signal PROVE IInv'
<1>1. CASE watcher \in {"none", "started"}
  <2>1. End("killed") /\ Alive /\ UNCHANGED <<main, watcher, pool, timedOut, broken>>
        /\ signalled' \in BOOLEAN
    BY <1>1 DEF Signal
  <2> QED
    BY <2>1, EndIInv
<1>2. CASE watcher \notin {"none", "started"}
  <2>1. Running' = Running
    BY <1>2 DEF Signal, Running
  <2> QED
    BY <1>2, <2>1 DEF Signal, IInv, TypeOK, ShutdownDrains, ReportsMatch, PoolClosers,
       FailuresExplained, CleanMeansDrained, AfterShutdown, Alive
<1> QED
  BY <1>1, <1>2

(* A handler starts only while nobody shuts down.                          *)
LEMMA AcceptIInv == ASSUME IInv, NEW r \in Requests, Accept(r) PROVE IInv'
BY DEF Accept, IInv, TypeOK, ShutdownDrains, ReportsMatch, PoolClosers, FailuresExplained,
       CleanMeansDrained, AfterShutdown, Alive, ShuttingDown

(* A handler that fails has met no pool, or a closed one, and the latter   *)
(* only after the deadline or a broken listener.                           *)
LEMMA AnswerIInv == ASSUME IInv, NEW r \in Requests, Answer(r) PROVE IInv'
<1>1. Running' \subseteq Running /\ r \in Running
  BY DEF Answer, Running, IInv, TypeOK
<1>2. ShutdownDrains'
  BY <1>1 DEF Answer, IInv, ShutdownDrains
<1>3. FailuresExplained'
  BY <1>1, DrainsFirst DEF Answer, IInv, TypeOK, FailuresExplained, DrainBeforeClose, Alive
<1> QED
  BY <1>2, <1>3 DEF Answer, IInv, TypeOK, ReportsMatch, PoolClosers, CleanMeansDrained, Alive

(* and every step keeps it.                                                *)
LEMMA NextIInv == IInv /\ [Next]_vars => IInv'
<1> SUFFICES ASSUME IInv, [Next]_vars PROVE IInv'
  OBVIOUS
<1>1. CASE UNCHANGED vars
  BY <1>1 DEF vars, IInv, TypeOK, ShutdownDrains, ReportsMatch, PoolClosers,
     FailuresExplained, CleanMeansDrained, AfterShutdown, Alive, Running
<1>2. CASE Next
  BY <1>2, QuietIInv, OpenIInv, MainClosesIInv, WatcherClosesIInv, MainReturnsIInv, SignalIInv,
     AcceptIInv, AnswerIInv DEF Next, MainStep, WatcherStep
<1> QED
  BY <1>1, <1>2

(* The strengthening holds in every reachable state of the process.        *)
THEOREM InductiveInvariant == Spec => []IInv
BY InitIInv, NextIInv, PTL DEF Spec

(* Every variable keeps its type.                                          *)
THEOREM TypeCorrect == Spec => []TypeOK
<1>1. IInv => TypeOK
  BY DEF IInv
<1> QED
  BY <1>1, InductiveInvariant, PTL

(* No handler meets a closed pool before the five seconds of Shutdown are  *)
(* over, unless the listener broke.                                        *)
THEOREM PoolOutlivesHandlers == Spec => []DrainBeforeClose
BY DrainsFirst, InductiveInvariant, PTL

(* "stopped server" is the end of a process that has answered everybody.   *)
THEOREM CleanEndsAreDrained == Spec => []CleanMeansDrained
<1>1. IInv => CleanMeansDrained
  BY DEF IInv
<1> QED
  BY <1>1, InductiveInvariant, PTL

-----------------------------------------------------------------------------
(***************************************************************************)
(* Why a shutdown comes to an end.  That main and the watcher take the     *)
(* steps they can is the fairness of the model; that there is one to take, *)
(* that it stays there until one is taken, and that there are only so many *)
(* of them is proved here.                                                 *)
(***************************************************************************)

(* Main can take a step, and so can the watcher.                           *)
MainCan ==
    main # "awaiting" /\ (main = "serving" => ShuttingDown)

WatcherCan ==
    \/ watcher \in {"started", "closing"}
    \/ watcher = "listening" /\ signalled
    \/ watcher = "draining" /\ main # "serving"
    \/ watcher \in {"reportsError", "completing"} /\ main = "awaiting"

(* How many steps each of them has left at most.                           *)
MainLeft ==
    [opening |-> 7, starting |-> 6, binding |-> 5, serving |-> 4, awaiting |-> 3,
     failing |-> 2, stopping |-> 2, failed |-> 1, stopped |-> 1]

WatcherLeft ==
    [none |-> 7, started |-> 6, listening |-> 5, draining |-> 4, reportsError |-> 3,
     completing |-> 2, closing |-> 1, returned |-> 0]

StepsLeft == IF Alive THEN MainLeft[main] + WatcherLeft[watcher] ELSE 0

(* Numbers, all of them.                                                   *)
LEMMA LeftIsNat ==
    /\ \A m \in {"opening", "starting", "binding", "serving", "awaiting",
                   "failing", "failed", "stopping", "stopped"} :
          MainLeft[m] \in Nat /\ MainLeft[m] > 0
    /\ \A w \in {"none", "started", "listening", "draining", "reportsError",
                   "completing", "closing", "returned"} : WatcherLeft[w] \in Nat
BY DEF MainLeft, WatcherLeft

(* Which of them are less than which.                                      *)
LEMMA LeftFalls ==
    /\ MainLeft["starting"] < MainLeft["opening"]
    /\ MainLeft["binding"] < MainLeft["starting"]
    /\ MainLeft["serving"] < MainLeft["binding"]
    /\ MainLeft["awaiting"] < MainLeft["serving"]
    /\ MainLeft["awaiting"] < MainLeft["binding"]
    /\ MainLeft["failing"] < MainLeft["awaiting"]
    /\ MainLeft["failing"] < MainLeft["serving"]
    /\ MainLeft["failing"] < MainLeft["binding"]
    /\ MainLeft["stopping"] < MainLeft["awaiting"]
    /\ MainLeft["failed"] < MainLeft["failing"]
    /\ MainLeft["stopped"] < MainLeft["stopping"]
    /\ WatcherLeft["started"] < WatcherLeft["none"]
    /\ WatcherLeft["listening"] < WatcherLeft["started"]
    /\ WatcherLeft["draining"] < WatcherLeft["listening"]
    /\ WatcherLeft["reportsError"] < WatcherLeft["draining"]
    /\ WatcherLeft["completing"] < WatcherLeft["draining"]
    /\ WatcherLeft["completing"] < WatcherLeft["reportsError"]
    /\ WatcherLeft["closing"] < WatcherLeft["completing"]
    /\ WatcherLeft["returned"] < WatcherLeft["closing"]
BY DEF MainLeft, WatcherLeft

(* What a step does to the steps that are left.                            *)
Advances ==
    /\ StepsLeft' <= StepsLeft
    /\ MainStep \/ WatcherStep => StepsLeft' < StepsLeft
    /\ StepsLeft' = StepsLeft => (MainCan => MainCan') /\ (WatcherCan => WatcherCan')

(* A step of main or of the watcher takes one of the two further, and      *)
(* neither back, or it ends the process.                                   *)
LEMMA GoroutinesAdvance ==
    ASSUME IInv, MainStep \/ WatcherStep
    PROVE  /\ exit = "alive"
           /\ \/ exit' # "alive"
              \/ MainLeft[main'] < MainLeft[main] /\ watcher' = watcher
              \/ main' = main /\ WatcherLeft[watcher'] < WatcherLeft[watcher]
              \/ /\ MainLeft[main'] < MainLeft[main]
                 /\ WatcherLeft[watcher'] < WatcherLeft[watcher]
<1>1. CASE Open \/ Serve \/ ServeClosed
  BY <1>1, LeftFalls DEF Open, Serve, ServeClosed, Alive
<1>2. CASE StartWatcher
  <2>1. watcher = "none"
    BY <1>2 DEF StartWatcher, IInv, ReportsMatch
  <2> QED  BY <1>2, <2>1, LeftFalls DEF StartWatcher, Alive
<1>3. CASE MainCloses
  BY <1>3, LeftFalls DEF MainCloses, End, Alive
<1>4. CASE MainReturns
  BY <1>4 DEF MainReturns, End, Alive
<1>5. CASE Notify \/ Shutdown \/ Drained \/ DeadlinePasses
  BY <1>5, LeftFalls DEF Notify, Shutdown, Drained, DeadlinePasses, Alive
<1>6. CASE ReportError \/ ReportNil
  BY <1>6, LeftFalls DEF ReportError, ReportNil, Alive
<1>7. CASE WatcherCloses
  BY <1>7, LeftFalls DEF WatcherCloses, End, Alive
<1> QED
  BY <1>1, <1>2, <1>3, <1>4, <1>5, <1>6, <1>7 DEF MainStep, WatcherStep

(* Any other step leaves both where they stand, or ends the process, or    *)
(* is that of a listener that breaks.                                      *)
LEMMA OthersKeep ==
    ASSUME IInv, [Next]_vars, ~ (MainStep \/ WatcherStep)
    PROVE  \/ exit' = exit /\ UNCHANGED <<main, watcher>> /\ (signalled => signalled')
           \/ exit = "alive" /\ exit' # "alive"
           \/ ServeFails
<1>1. CASE Signal
  <2>1. CASE watcher \in {"none", "started"}
    BY <1>1, <2>1 DEF Signal, End, Alive
  <2>2. CASE watcher \notin {"none", "started"}
    BY <1>1, <2>2 DEF Signal
  <2> QED  BY <2>1, <2>2
<1>2. CASE \E r \in Requests : Accept(r) \/ Answer(r)
  BY <1>2 DEF Accept, Answer
<1>3. CASE UNCHANGED vars
  BY <1>3 DEF vars
<1> QED  BY <1>1, <1>2, <1>3 DEF Next

(* No step adds to what is left, and while nothing is taken from it who    *)
(* can take a step still can.                                              *)
LEMMA StepAdvances == IInv /\ [Next]_vars => Advances
<1> SUFFICES ASSUME IInv, [Next]_vars PROVE Advances
  OBVIOUS
<1>1. /\ MainLeft[main] \in Nat /\ MainLeft[main] > 0 /\ WatcherLeft[watcher] \in Nat
      /\ MainLeft[main'] \in Nat /\ MainLeft[main'] > 0 /\ WatcherLeft[watcher'] \in Nat
  <2>1. IInv'
    BY NextIInv
  <2> QED  BY <2>1, LeftIsNat DEF IInv, TypeOK
<1>2. StepsLeft \in Nat /\ StepsLeft' \in Nat
  BY <1>1 DEF StepsLeft
<1>3. CASE MainStep \/ WatcherStep
  <2>1. StepsLeft' < StepsLeft
    BY <1>1, <1>3, GoroutinesAdvance DEF StepsLeft, Alive
  <2> QED  BY <1>2, <2>1 DEF Advances
<1>4. CASE ~ (MainStep \/ WatcherStep)
  <2>1. CASE exit' = exit /\ UNCHANGED <<main, watcher>> /\ (signalled => signalled')
    <3>1. StepsLeft' = StepsLeft
      BY <2>1 DEF StepsLeft, Alive
    <3>2. (MainCan => MainCan') /\ (WatcherCan => WatcherCan')
      BY <2>1 DEF MainCan, WatcherCan, ShuttingDown
    <3> QED  BY <1>2, <1>4, <3>1, <3>2 DEF Advances
  <2>2. CASE exit = "alive" /\ exit' # "alive"
    <3>1. StepsLeft' < StepsLeft
      BY <1>1, <2>2 DEF StepsLeft, Alive
    <3> QED  BY <1>2, <3>1 DEF Advances
  <2>3. CASE ServeFails
    <3>1. MainLeft[main'] < MainLeft[main] /\ watcher' = watcher /\ exit = "alive" /\ exit' = exit
      BY <2>3, LeftFalls DEF ServeFails, Alive
    <3>2. StepsLeft' < StepsLeft
      BY <1>1, <3>1 DEF StepsLeft, Alive
    <3> QED  BY <1>2, <3>2 DEF Advances
  <2> QED  BY <1>4, <2>1, <2>2, <2>3, OthersKeep
<1> QED  BY <1>3, <1>4

(* A process that has got its signal and still runs is never stuck: main   *)
(* or the watcher has a step to take, whatever the handlers do, even       *)
(* though the watcher may wait for ever in its second send.                *)
THEOREM ShutdownNeverStuck == Spec => [](signalled /\ Alive => MainCan \/ WatcherCan)
<1>1. IInv => (signalled /\ Alive => MainCan \/ WatcherCan)
  BY DEF IInv, TypeOK, ReportsMatch, MainCan, WatcherCan, ShuttingDown, AfterShutdown
<1> QED
  BY <1>1, InductiveInvariant, PTL

(* Main and the watcher take at most fourteen steps between them, and      *)
(* nothing else gives back one or takes from either the step it can take:  *)
(* with the fairness of the model this ends every shutdown.                *)
THEOREM ShutdownAdvances == Spec => [][Advances]_vars
BY InductiveInvariant, StepAdvances, PTL DEF Spec

-----------------------------------------------------------------------------
(***************************************************************************)
(* The middlewares.                                                        *)
(***************************************************************************)

(* Between the first addition of Metrics and the end.                      *)
Measured == At({"chain", "inside", "back", "responded", "counted", "unwinding", "recovered"})

(* After the second, and after the third with status s.                    *)
Responded == At({"responded", "counted"})
CountedAs(s) == {r \in At({"counted"}) : sent[r] = s}

(* Each counter is the number of requests that have passed its addition.   *)
CountersExact ==
    /\ IsFiniteSet(Measured)
    /\ received = Cardinality(Measured)
    /\ responses = Cardinality(Responded)
    /\ \A s \in Statuses : byStatus[s] = Cardinality(CountedAs(s))

(* Nothing is sent on the way in, one status on the way out, and what      *)
(* Metrics has noted by then is what was sent.                             *)
AnswersNoted ==
    \A r \in Requests :
        /\ way[r] \in {"outside", "entered", "chain", "inside", "unwinding"} => sent[r] = Silent
        /\ way[r] \in {"back", "responded", "counted"} => sent[r] = noted[r] /\ noted[r] # Silent
        /\ way[r] = "recovered" => sent[r] = 500

(* The server and the chain agree about who has come and who has left.     *)
WaysMatch ==
    \A r \in Requests :
        /\ way[r] = "outside" <=> req[r] = "idle"
        /\ req[r] \in {"answered", "failed"} => way[r] \in {"counted", "recovered"}

PipeIInv ==
    /\ PipeTypeOK
    /\ CountersExact
    /\ AnswersNoted
    /\ WaysMatch

-----------------------------------------------------------------------------
(* Every step of the chain is one of the server, or none.                  *)
LEMMA PipeStepsServe == PipeNext => [Next]_vars
BY DEF PipeNext, ServerStep, Enter, Receive, Pass, Deny, Respond, Panic, Recover,
       CountResponse, CountStatus, Leave, Next

(* What the chain does around them, the server's properties hold for its   *)
(* process.                                                                *)
THEOREM PipelineRunsServer == PipeSpec => Spec
<1>1. PipeInit => Init
  BY DEF PipeInit
<1>2. [PipeNext]_pipeVars => [Next]_vars
  BY PipeStepsServe DEF pipeVars
<1> QED
  BY <1>1, <1>2, PTL DEF PipeSpec, Spec

-----------------------------------------------------------------------------
(* At the start nothing is counted and nobody is answered.                 *)
LEMMA InitPipe == PipeInit => PipeIInv
<1> SUFFICES ASSUME PipeInit PROVE PipeIInv
  OBVIOUS
<1>1. TypeOK
  BY DEF PipeInit, Init, TypeOK
<1>2. PipeTypeOK /\ AnswersNoted /\ WaysMatch
  BY <1>1, StatusesAssumption DEF PipeInit, Init, PipeTypeOK, AnswersNoted, WaysMatch
<1>3. Measured = {} /\ Responded = {} /\ \A s \in Statuses : CountedAs(s) = {}
  BY DEF PipeInit, Measured, Responded, CountedAs, At
<1>4. CountersExact
  BY <1>3, FS_EmptySet DEF PipeInit, CountersExact
<1> QED
  BY <1>2, <1>4 DEF PipeIInv

(* A step that moves one request, and no boundary of Metrics, counts       *)
(* nothing.                                                                *)
LEMMA SameCounts ==
  ASSUME PipeIInv, UNCHANGED counters,
         Measured' = Measured, Responded' = Responded,
         \A s \in Statuses : CountedAs(s)' = CountedAs(s)
  PROVE  CountersExact'
BY DEF PipeIInv, CountersExact, counters

(* The steps of the server between requests, and its end: requests under   *)
(* way are cut, which the chain never notices.                             *)
LEMMA ServerStepPipe ==
  ASSUME PipeIInv, TypeOK', ServerStep
  PROVE  PipeIInv'
<1>1. UNCHANGED <<way, sent, noted, counters, received, responses, byStatus>>
  BY DEF ServerStep, chainVars, counters
<1>2. \A r \in Requests : req'[r] = req[r] \/ (req[r] = "running" /\ req'[r] = "cut")
  BY DEF ServerStep, MainStep, WatcherStep, Open, StartWatcher, Serve, ServeFails, ServeClosed,
         MainCloses, MainReturns, Signal, Notify, Shutdown, Drained, DeadlinePasses,
         ReportError, ReportNil, WatcherCloses, End, Running
<1>3. PipeTypeOK' /\ AnswersNoted'
  BY <1>1 DEF PipeIInv, PipeTypeOK, AnswersNoted
<1>4. WaysMatch'
  BY <1>1, <1>2 DEF PipeIInv, WaysMatch
<1>5. CountersExact'
  BY <1>1, SameCounts DEF Measured, Responded, CountedAs, At
<1> QED
  BY <1>3, <1>4, <1>5 DEF PipeIInv

(* The ends of a request's stay.                                           *)
LEMMA DoorsPipe ==
  ASSUME PipeIInv, TypeOK', NEW r \in Requests, Enter(r) \/ Leave(r)
  PROVE  PipeIInv'
<1>1. CASE Enter(r)
  <2>1. /\ req[r] = "idle" /\ req' = [req EXCEPT ![r] = "running"]
        /\ way' = [way EXCEPT ![r] = "entered"]
        /\ UNCHANGED <<sent, noted, counters, received, responses, byStatus>>
    BY <1>1 DEF Enter, Accept, Goto, counters
  <2>2. way[r] = "outside"
    BY <2>1 DEF PipeIInv, WaysMatch
  <2>3. PipeTypeOK' /\ AnswersNoted'
    BY <2>1, <2>2 DEF PipeIInv, PipeTypeOK, AnswersNoted
  <2>4. WaysMatch'
    BY <2>1, <2>2 DEF PipeIInv, WaysMatch, PipeTypeOK, TypeOK
  <2>5. Measured' = Measured /\ Responded' = Responded
        /\ \A s \in Statuses : CountedAs(s)' = CountedAs(s)
    BY <2>1, <2>2 DEF Measured, Responded, CountedAs, At, PipeIInv, PipeTypeOK
  <2> QED
    BY <2>1, <2>3, <2>4, <2>5, SameCounts DEF PipeIInv
<1>2. CASE Leave(r)
  <2>1. /\ way[r] \in {"counted", "recovered"}
        /\ \A q \in Requests : q # r => req'[q] = req[q]
        /\ req[r] = "running" /\ req'[r] \in {"answered", "failed"}
        /\ UNCHANGED <<way, sent, noted, counters, received, responses, byStatus>>
    BY <1>2 DEF Leave, Answer, chainVars, counters, PipeIInv, PipeTypeOK, TypeOK
  <2>2. PipeTypeOK' /\ AnswersNoted'
    BY <2>1 DEF PipeIInv, PipeTypeOK, AnswersNoted
  <2>3. WaysMatch'
    BY <2>1 DEF PipeIInv, WaysMatch
  <2>4. CountersExact'
    BY <2>1, SameCounts DEF Measured, Responded, CountedAs, At
  <2> QED
    BY <2>2, <2>3, <2>4 DEF PipeIInv
<1> QED
  BY <1>1, <1>2

(* The steps between the additions of Metrics.                             *)
LEMMA ChainPipe ==
  ASSUME PipeIInv, NEW r \in Requests, NEW s \in Statuses,
         Pass(r) \/ Deny(r, s) \/ Respond(r, s) \/ Panic(r) \/ Recover(r)
  PROVE  PipeIInv'
<1>1. /\ UNCHANGED <<req, received, responses, byStatus, counters>> /\ TypeOK' = TypeOK
      /\ way[r] \in {"chain", "inside", "unwinding"}
      /\ way'[r] \in {"inside", "back", "unwinding", "recovered"}
      /\ \A q \in Requests : q # r => /\ way'[q] = way[q] /\ sent'[q] = sent[q]
                                      /\ noted'[q] = noted[q]
  BY DEF Pass, Deny, Respond, Panic, Recover, Goto, Send, Note, counters, vars, TypeOK,
         PipeIInv, PipeTypeOK
<1>2. sent[r] = Silent /\ noted[r] \in Statuses
  BY <1>1 DEF PipeIInv, AnswersNoted, PipeTypeOK
<1>3. PipeTypeOK'
  BY <1>1, <1>2, StatusesAssumption
     DEF Pass, Deny, Respond, Panic, Recover, Goto, Send, Note, PipeIInv, PipeTypeOK
<1>4. \/ way'[r] \in {"inside", "unwinding"} /\ sent'[r] = Silent
      \/ way'[r] = "back" /\ sent'[r] = s /\ noted'[r] = s
      \/ way'[r] = "recovered" /\ sent'[r] = 500
  BY <1>2 DEF Pass, Deny, Respond, Panic, Recover, Goto, Send, Note, PipeIInv, PipeTypeOK
<1>5. AnswersNoted'
  BY <1>1, <1>4, StatusesAssumption DEF PipeIInv, AnswersNoted
<1>6. WaysMatch'
  BY <1>1 DEF PipeIInv, WaysMatch
<1>7. Measured' = Measured /\ Responded' = Responded
      /\ \A t \in Statuses : CountedAs(t)' = CountedAs(t)
  BY <1>1 DEF Measured, Responded, CountedAs, At
<1> QED
  BY <1>1, <1>3, <1>5, <1>6, <1>7, SameCounts DEF PipeIInv

(* The first addition.                                                     *)
LEMMA ReceivePipe ==
  ASSUME PipeIInv, NEW r \in Requests, Receive(r)
  PROVE  PipeIInv'
<1>1. /\ UNCHANGED <<req, sent, responses, byStatus>> /\ TypeOK' = TypeOK
      /\ way[r] = "entered" /\ way' = [way EXCEPT ![r] = "chain"]
      /\ noted' = [noted EXCEPT ![r] = 200] /\ received' = received + 1
  BY DEF Receive, Goto, vars, TypeOK
<1>2. PipeTypeOK' /\ AnswersNoted' /\ WaysMatch'
  BY <1>1, StatusesAssumption DEF PipeIInv, PipeTypeOK, AnswersNoted, WaysMatch
<1>3. Measured' = Measured \union {r} /\ r \notin Measured
  BY <1>1 DEF Measured, At, PipeIInv, PipeTypeOK
<1>4. Responded' = Responded /\ \A s \in Statuses : CountedAs(s)' = CountedAs(s)
  BY <1>1 DEF Responded, CountedAs, At, PipeIInv, PipeTypeOK
<1>5. CountersExact'
  BY <1>1, <1>3, <1>4, FS_AddElement DEF PipeIInv, CountersExact
<1> QED
  BY <1>2, <1>5 DEF PipeIInv

(* The second.                                                             *)
LEMMA CountResponsePipe ==
  ASSUME PipeIInv, NEW r \in Requests, CountResponse(r)
  PROVE  PipeIInv'
<1>1. /\ UNCHANGED <<req, sent, noted, received, byStatus>> /\ TypeOK' = TypeOK
      /\ way[r] = "back" /\ way' = [way EXCEPT ![r] = "responded"]
      /\ responses' = responses + 1
  BY DEF CountResponse, Goto, vars, TypeOK
<1>2. PipeTypeOK' /\ AnswersNoted' /\ WaysMatch'
  BY <1>1 DEF PipeIInv, PipeTypeOK, AnswersNoted, WaysMatch
<1>3. Responded' = Responded \union {r} /\ r \notin Responded
  BY <1>1 DEF Responded, At, PipeIInv, PipeTypeOK
<1>4. Measured' = Measured /\ \A s \in Statuses : CountedAs(s)' = CountedAs(s)
  BY <1>1 DEF Measured, CountedAs, At, PipeIInv, PipeTypeOK
<1>5. IsFiniteSet(Responded)
  <2>1. Responded \in SUBSET Measured
    BY DEF Responded, Measured, At
  <2> QED
    BY <2>1, FS_Subset DEF PipeIInv, CountersExact
<1>6. CountersExact'
  BY <1>1, <1>3, <1>4, <1>5, FS_AddElement DEF PipeIInv, CountersExact
<1> QED
  BY <1>2, <1>6 DEF PipeIInv

(* The third.                                                              *)
LEMMA CountStatusPipe ==
  ASSUME PipeIInv, NEW r \in Requests, CountStatus(r)
  PROVE  PipeIInv'
<1>1. /\ UNCHANGED <<req, sent, noted, received, responses>> /\ TypeOK' = TypeOK
      /\ way[r] = "responded" /\ way' = [way EXCEPT ![r] = "counted"]
      /\ byStatus' = [byStatus EXCEPT ![noted[r]] = @ + 1]
  BY DEF CountStatus, Goto, vars, TypeOK
<1>2. sent[r] = noted[r] /\ noted[r] \in Statuses
  BY <1>1 DEF PipeIInv, AnswersNoted, PipeTypeOK
<1>3. PipeTypeOK' /\ AnswersNoted' /\ WaysMatch'
  BY <1>1, <1>2 DEF PipeIInv, PipeTypeOK, AnswersNoted, WaysMatch
<1>4. Measured' = Measured /\ Responded' = Responded
  BY <1>1 DEF Measured, Responded, At, PipeIInv, PipeTypeOK
<1>5. \A s \in Statuses :
        byStatus'[s] = Cardinality(CountedAs(s)')
  <2> TAKE s \in Statuses
  <2>1. CASE s = noted[r]
    <3>1. CountedAs(s)' = CountedAs(s) \union {r} /\ r \notin CountedAs(s)
      BY <1>1, <1>2, <2>1 DEF CountedAs, At, PipeIInv, PipeTypeOK
    <3>2. CountedAs(s) \in SUBSET Measured
      BY DEF CountedAs, Measured, At
    <3>3. IsFiniteSet(CountedAs(s))
      BY <3>2, FS_Subset DEF PipeIInv, CountersExact
    <3>4. byStatus'[s] = byStatus[s] + 1
      BY <1>1, <2>1 DEF PipeIInv, PipeTypeOK
    <3> QED
      BY <3>1, <3>3, <3>4, FS_AddElement DEF PipeIInv, CountersExact
  <2>2. CASE s # noted[r]
    <3>1. CountedAs(s)' = CountedAs(s)
      BY <1>1, <1>2, <2>2 DEF CountedAs, At, PipeIInv, PipeTypeOK
    <3>2. byStatus'[s] = byStatus[s]
      BY <1>1, <2>2 DEF PipeIInv, PipeTypeOK
    <3> QED
      BY <3>1, <3>2 DEF PipeIInv, CountersExact
  <2> QED
    BY <2>1, <2>2
<1>6. CountersExact'
  BY <1>1, <1>4, <1>5 DEF PipeIInv, CountersExact
<1> QED
  BY <1>3, <1>6 DEF PipeIInv

(* Every step of the pipeline keeps counters, answers and ways in order.   *)
LEMMA StepPipe == PipeIInv /\ TypeOK' /\ [PipeNext]_pipeVars => PipeIInv'
<1> SUFFICES ASSUME PipeIInv, TypeOK', [PipeNext]_pipeVars PROVE PipeIInv'
  OBVIOUS
<1>1. CASE UNCHANGED pipeVars
  <2>1. UNCHANGED <<req, way, sent, noted, received, responses, byStatus, counters>>
    BY <1>1 DEF pipeVars, vars, chainVars, counters
  <2>2. PipeTypeOK' /\ AnswersNoted' /\ WaysMatch'
    BY <2>1 DEF PipeIInv, PipeTypeOK, AnswersNoted, WaysMatch
  <2>3. CountersExact'
    BY <2>1, SameCounts DEF Measured, Responded, CountedAs, At
  <2> QED
    BY <2>2, <2>3 DEF PipeIInv
<1>2. CASE PipeNext
  BY <1>2, ServerStepPipe, DoorsPipe, ChainPipe, ReceivePipe, CountResponsePipe,
     CountStatusPipe, StatusesAssumption DEF PipeNext
<1> QED
  BY <1>1, <1>2

(* Under the middlewares, too, handlers are drained before the pool is     *)
(* closed and a clean end has answered everybody.                          *)
THEOREM PipelineDrains == PipeSpec => [](DrainBeforeClose /\ CleanMeansDrained)
BY PipelineRunsServer, PoolOutlivesHandlers, CleanEndsAreDrained, PTL

(* Types, counters and answers are as they should be in every state.       *)
THEOREM PipelineInvariant == PipeSpec => []PipeIInv
BY InitPipe, StepPipe, PipelineRunsServer, TypeCorrect, PTL DEF PipeSpec

-----------------------------------------------------------------------------
(* Every variable of the pipeline and of the server keeps its type.        *)
THEOREM PipelineTypeCorrect == PipeSpec => []PipeTypeOK
<1>1. PipeIInv => PipeTypeOK
  BY DEF PipeIInv
<1> QED
  BY <1>1, PipelineInvariant, PTL

(* The sizes of two sets apart from each other add up.                     *)
LEMMA DisjointUnion ==
  ASSUME NEW S, NEW T, IsFiniteSet(S), IsFiniteSet(T), S \intersect T = {}
  PROVE  /\ IsFiniteSet(S \union T)
         /\ Cardinality(S \union T) = Cardinality(S) + Cardinality(T)
<1>1. Cardinality(S \intersect T) = 0
  BY FS_EmptySet
<1>2. /\ IsFiniteSet(S \union T)
      /\ Cardinality(S \union T) = Cardinality(S) + Cardinality(T) - Cardinality(S \intersect T)
  BY FS_Union
<1>3. Cardinality(S) \in Nat /\ Cardinality(T) \in Nat
  BY FS_CardinalityType
<1> QED
  BY <1>1, <1>2, <1>3

(* Everybody received is answered, under way or has panicked.              *)
LEMMA Balance == PipeIInv => CountersBalance
<1> SUFFICES ASSUME PipeIInv PROVE CountersBalance
  OBVIOUS
<1> DEFINE InChain == At({"chain", "inside", "back"})
           Panicked == At({"unwinding", "recovered"})
<1>1. /\ Measured = (Responded \union InChain) \union Panicked
      /\ Responded \intersect InChain = {}
      /\ (Responded \union InChain) \intersect Panicked = {}
      /\ Responded \subseteq Measured /\ InChain \subseteq Measured /\ Panicked \subseteq Measured
  BY DEF Measured, Responded, At
<1>2. IsFiniteSet(Responded) /\ IsFiniteSet(InChain) /\ IsFiniteSet(Panicked)
  BY <1>1, FS_Subset DEF PipeIInv, CountersExact
<1> HIDE DEF InChain, Panicked
<1>3. /\ IsFiniteSet(Responded \union InChain)
      /\ Cardinality(Responded \union InChain) = Cardinality(Responded) + Cardinality(InChain)
  BY <1>1, <1>2, DisjointUnion
<1>4. Cardinality(Measured) = Cardinality(Responded \union InChain) + Cardinality(Panicked)
  BY <1>1, <1>2, <1>3, DisjointUnion
<1>5. received = responses + Cardinality(InChain) + Cardinality(Panicked)
  BY <1>2, <1>3, <1>4, FS_CardinalityType DEF PipeIInv, CountersExact
<1> QED
  BY <1>5 DEF CountersBalance, InChain, Panicked

(* Requests received exceed responses sent by those under way and by       *)
(* those that panicked, in every state and for any number of requests.     *)
THEOREM CountersAddUp == PipeSpec => []CountersBalance
BY Balance, PipelineInvariant, PTL

(* The counter of a status is the number of requests answered with it and  *)
(* counted.                                                                *)
THEOREM StatusesAreTrue == PipeSpec => []StatusesTrue
<1>1. PipeIInv => StatusesTrue
  BY DEF PipeIInv, CountersExact, StatusesTrue, CountedAs
<1> QED
  BY <1>1, PipelineInvariant, PTL

(* Nobody is left without an answer, and a panic is answered 500.          *)
THEOREM EverybodyIsAnswered == PipeSpec => []NobodyLeavesSilent
<1>1. ASSUME PipeIInv, NEW r \in Requests
      PROVE  /\ req[r] \in {"answered", "failed"} => sent[r] # Silent
             /\ way[r] = "recovered" => sent[r] = 500
  <2>1. 500 # Silent
    BY StatusesAssumption
  <2> QED
    BY <1>1, <2>1 DEF PipeIInv, AnswersNoted, WaysMatch
<1>2. PipeIInv => NobodyLeavesSilent
  BY <1>1 DEF NobodyLeavesSilent
<1> QED
  BY <1>2, PipelineInvariant, PTL

(* At a clean end everybody who came has been counted or has panicked.     *)
LEMMA CleanCounts == PipeIInv /\ CleanMeansDrained => CleanMeansCounted
<1> SUFFICES ASSUME PipeIInv, CleanMeansDrained, exit = "stopped"
             PROVE  /\ received = Cardinality({r \in Requests : req[r] # "idle"})
                    /\ responses = Cardinality(At({"counted"}))
  BY DEF CleanMeansCounted
<1>1. \A r \in Requests : req[r] # "idle" <=> way[r] \in {"counted", "recovered"}
  BY DEF PipeIInv, WaysMatch, CleanMeansDrained
<1>2. \A r \in Requests : way[r] \in {"outside", "counted", "recovered"}
  BY <1>1 DEF PipeIInv, WaysMatch
<1>3. Measured = {r \in Requests : req[r] # "idle"} /\ Responded = At({"counted"})
  BY <1>1, <1>2 DEF Measured, Responded, At
<1> QED
  BY <1>3 DEF PipeIInv, CountersExact

(* A clean end has counted everybody who came, and every answer but those  *)
(* to panics.                                                              *)
THEOREM CleanEndsAreCounted == PipeSpec => []CleanMeansCounted
BY CleanCounts, PipelineInvariant, PipelineRunsServer, CleanEndsAreDrained, PTL

=============================================================================
