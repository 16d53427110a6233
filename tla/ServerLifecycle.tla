--------------------------- MODULE ServerLifecycle ---------------------------
(***************************************************************************)
(* How the process of bookwise starts, serves and stops                    *)
(* (src/cmd/api/main.go, src/internal/api).                                *)
(*                                                                         *)
(* Three kinds of goroutines: main opens the pool, starts the watcher and  *)
(* serves; the watcher waits for a signal, shuts the HTTP server down,     *)
(* which takes five seconds at most, and reports to main over an           *)
(* unbuffered channel, `shutdownError`; each request has a handler.  Main  *)
(* and the watcher both close the pool as they return, and when main       *)
(* returns the process ends and takes every other goroutine with it.       *)
(*                                                                         *)
(* Definitions with an underscore in their name are faulty variants of the *)
(* one that follows them: each makes some property below fail, none is     *)
(* part of the model.                                                      *)
(***************************************************************************)

CONSTANT
    Requests    \* HTTP requests, each on a connection of its own

VARIABLES
    main,       \* where the main goroutine stands
    watcher,    \* where the goroutine that waits for signals stands
    pool,       \* app.db
    req,        \* req[r]: what has become of request r
    signalled,  \* SIGINT or SIGTERM has been sent to the process
    timedOut,   \* the five seconds of Shutdown were over before the requests
    broken,     \* ListenAndServe has failed by itself
    exit        \* how the process has ended, "alive" before that

vars == <<main, watcher, pool, req, signalled, timedOut, broken, exit>>

Alive == exit = "alive"

Running == {r \in Requests : req[r] = "running"}

(* Shutdown has been called: the listener is closed.                       *)
ShuttingDown == watcher \in {"draining", "reportsError", "completing", "closing", "returned"}

-----------------------------------------------------------------------------

Init ==
    /\ main = "opening"
    /\ watcher = "none"
    /\ pool = "none"
    /\ req = [r \in Requests |-> "idle"]
    /\ signalled = FALSE
    /\ timedOut = FALSE
    /\ broken = FALSE
    /\ exit = "alive"

(* The process ends, and the handlers that still run with it.              *)
End(how) ==
    /\ exit' = how
    /\ req' = [r \in Requests |-> IF r \in Running THEN "cut" ELSE req[r]]

(* Without the ping a pool that has never reached its database passes.     *)
Open_NoPing ==
    /\ Alive /\ main = "opening"
    /\ pool' \in {"untried", "none"}
    /\ main' = "starting"
    /\ UNCHANGED <<watcher, req, signalled, timedOut, broken, exit>>

(* NewApp: PrintFatal logs that the pool cannot be opened, and returns;    *)
(* app.db is then nil.                                                     *)
Open ==
    /\ Alive /\ main = "opening"
    /\ pool' \in {"open", "none"}
    /\ main' = "starting"
    /\ UNCHANGED <<watcher, req, signalled, timedOut, broken, exit>>

StartWatcher ==
    /\ Alive /\ main = "starting"
    /\ watcher' = "started"
    /\ main' = "binding"
    /\ UNCHANGED <<pool, req, signalled, timedOut, broken, exit>>

(* ListenAndServe: binds and serves, unless Shutdown came before it.       *)
Serve ==
    /\ Alive /\ main = "binding"
    /\ main' = IF ShuttingDown THEN "awaiting" ELSE "serving"
    /\ UNCHANGED <<watcher, pool, req, signalled, timedOut, broken, exit>>

(* The port is taken, or the listener fails for good: Server returns.  The *)
(* port can be found taken after a Shutdown that came since ListenAndServe *)
(* last looked; an error of Accept counts as ErrServerClosed by then.      *)
ServeFails ==
    /\ Alive
    /\ main = "binding" \/ (main = "serving" /\ ~ ShuttingDown)
    /\ main' = "failing"
    /\ broken' = TRUE
    /\ UNCHANGED <<watcher, pool, req, signalled, timedOut, exit>>

(* Shutdown has closed the listener: ErrServerClosed, then <-shutdownError. *)
ServeClosed ==
    /\ Alive /\ main = "serving" /\ ShuttingDown
    /\ main' = "awaiting"
    /\ UNCHANGED <<watcher, pool, req, signalled, timedOut, broken, exit>>

(* `defer app.db.Close()` in Server; on a nil pool it panics.              *)
MainCloses ==
    /\ Alive /\ main \in {"failing", "stopping"}
    /\ IF pool = "none"
       THEN End("crashed") /\ UNCHANGED <<main, pool>>
       ELSE /\ pool' = "closed"
            /\ main' = IF main = "failing" THEN "failed" ELSE "stopped"
            /\ UNCHANGED <<req, exit>>
    /\ UNCHANGED <<watcher, signalled, timedOut, broken>>

(* main() returns, after PrintFatal if Server has returned an error.       *)
MainReturns ==
    /\ Alive /\ main \in {"failed", "stopped"}
    /\ End(main)
    /\ UNCHANGED <<main, watcher, pool, signalled, timedOut, broken>>

(* A signal.  Before signal.Notify it kills the process; afterwards the    *)
(* watcher takes one, and nobody takes another.                            *)
Signal ==
    /\ Alive
    /\ signalled' = TRUE
    /\ IF watcher \in {"none", "started"} THEN End("killed") ELSE UNCHANGED <<req, exit>>
    /\ UNCHANGED <<main, watcher, pool, timedOut, broken>>

Notify ==
    /\ Alive /\ watcher = "started"
    /\ watcher' = "listening"
    /\ UNCHANGED <<main, pool, req, signalled, timedOut, broken, exit>>

(* The signal is received and srv.Shutdown closes the listener.            *)
Shutdown_ClosesPool ==
    /\ Alive /\ watcher = "listening" /\ signalled
    /\ watcher' = "draining"
    /\ pool' = IF pool = "open" THEN "closed" ELSE pool
    /\ UNCHANGED <<main, req, signalled, timedOut, broken, exit>>

Shutdown ==
    /\ Alive /\ watcher = "listening" /\ signalled
    /\ watcher' = "draining"
    /\ UNCHANGED <<main, pool, req, signalled, timedOut, broken, exit>>

(* Shutdown waits until ListenAndServe has let go of the listener and no   *)
(* handler runs; it returns the error of closing the listener, if any.     *)
Drained ==
    /\ Alive /\ watcher = "draining" /\ main # "serving" /\ Running = {}
    /\ watcher' \in {"completing", "reportsError"}
    /\ UNCHANGED <<main, pool, req, signalled, timedOut, broken, exit>>

(* Its context is over: an error.                                          *)
DeadlinePasses_Unreported ==
    /\ Alive /\ watcher = "draining" /\ main # "serving"
    /\ timedOut' = TRUE
    /\ watcher' = "completing"
    /\ UNCHANGED <<main, pool, req, signalled, broken, exit>>

DeadlinePasses_Never == FALSE

DeadlinePasses ==
    /\ Alive /\ watcher = "draining" /\ main # "serving"
    /\ timedOut' = TRUE
    /\ watcher' = "reportsError"
    /\ UNCHANGED <<main, pool, req, signalled, broken, exit>>

(* shutdownError <- err, which main receives; the watcher then goes on to  *)
(* its second send, for which there is no receiver any more.               *)
ReportError ==
    /\ Alive /\ watcher = "reportsError" /\ main = "awaiting"
    /\ watcher' = "completing"
    /\ main' = "failing"
    /\ UNCHANGED <<pool, req, signalled, timedOut, broken, exit>>

(* shutdownError <- nil.  Nothing was ever added to app.wg, so Wait has    *)
(* returned at once.                                                       *)
ReportNil ==
    /\ Alive /\ watcher = "completing" /\ main = "awaiting"
    /\ watcher' = "closing"
    /\ main' = "stopping"
    /\ UNCHANGED <<pool, req, signalled, timedOut, broken, exit>>

(* The watcher's own `defer app.db.Close()`.                               *)
WatcherCloses ==
    /\ Alive /\ watcher = "closing"
    /\ IF pool = "none"
       THEN End("crashed") /\ UNCHANGED <<watcher, pool>>
       ELSE pool' = "closed" /\ watcher' = "returned" /\ UNCHANGED <<req, exit>>
    /\ UNCHANGED <<main, signalled, timedOut, broken>>

(* A connection is accepted and its handler runs.                          *)
Accept(r) ==
    /\ Alive /\ main = "serving" /\ ~ ShuttingDown
    /\ req[r] = "idle"
    /\ req' = [req EXCEPT ![r] = "running"]
    /\ UNCHANGED <<main, watcher, pool, signalled, timedOut, broken, exit>>

(* The handler ends.  Without an open pool it fails, unless it does not    *)
(* need the database any more: an error from a closed pool, a panic that   *)
(* RecoverPanic answers from a nil one.                                    *)
Answer(r) ==
    /\ Alive /\ req[r] = "running"
    /\ \/ req' = [req EXCEPT ![r] = "answered"]
       \/ pool # "open" /\ req' = [req EXCEPT ![r] = "failed"]
    /\ UNCHANGED <<main, watcher, pool, signalled, timedOut, broken, exit>>

MainStep == Open \/ StartWatcher \/ Serve \/ ServeClosed \/ MainCloses \/ MainReturns

WatcherStep ==
    \/ Notify \/ Shutdown \/ Drained \/ DeadlinePasses
    \/ ReportError \/ ReportNil \/ WatcherCloses

Next ==
    \/ MainStep
    \/ WatcherStep
    \/ ServeFails
    \/ Signal
    \/ \E r \in Requests : Accept(r) \/ Answer(r)

(* Main and the watcher run when they can, and the timer of Shutdown's     *)
(* context fires.  Nothing is assumed of handlers: one may wait for ever   *)
(* in db.Begin, as TxPool shows.                                           *)
Fairness == WF_vars(MainStep) /\ WF_vars(WatcherStep)

Spec == Init /\ [][Next]_vars
FairSpec == Spec /\ Fairness

-----------------------------------------------------------------------------
(***************************************************************************)
(* Properties.                                                             *)
(***************************************************************************)

(* The type of every variable.                                             *)
TypeOK ==
    /\ main \in {"opening", "starting", "binding", "serving", "awaiting",
                 "failing", "failed", "stopping", "stopped"}
    /\ watcher \in {"none", "started", "listening", "draining", "reportsError",
                    "completing", "closing", "returned"}
    /\ pool \in {"none", "open", "closed"}
    /\ req \in [Requests -> {"idle", "running", "answered", "failed", "cut"}]
    /\ signalled \in BOOLEAN /\ timedOut \in BOOLEAN /\ broken \in BOOLEAN
    /\ exit \in {"alive", "stopped", "failed", "killed", "crashed"}

(* Both goroutines close the pool, in either order; a handler finds it     *)
(* closed only when it has outlived the five seconds of Shutdown, or when  *)
(* the listener broke.                                                     *)
DrainBeforeClose ==
    pool = "closed" /\ Running # {} => timedOut \/ broken

(* When the process ends as "stopped server", every request it has         *)
(* accepted was answered, with the database at hand: an error of Shutdown  *)
(* reaches main before the nil that the watcher sends next.                *)
CleanMeansDrained ==
    exit = "stopped" => \A r \in Requests : req[r] \in {"idle", "answered"}

(* After a signal the process ends, though a handler may never return and  *)
(* the watcher may be stuck in its second send.                            *)
SignalEndsProcess == signalled ~> ~ Alive

(* What the source says of the start: NewApp calls PrintFatal when openDB  *)
(* fails, and logs "database connection pool established"                  *)
(* (src/internal/api/app.go:29, :32) before the server takes requests.     *)
ServesWithDatabase == main = "serving" => pool # "none"

=============================================================================
