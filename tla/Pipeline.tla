------------------------------ MODULE Pipeline ------------------------------
(***************************************************************************)
(* What the middlewares do with each request while the server of           *)
(* ServerLifecycle runs (router.go: RecoverPanic, then Metrics, then       *)
(* RateLimit, EnableCORS and Authenticate around the routes), and the      *)
(* counters that Metrics keeps for the whole process.                      *)
(*                                                                         *)
(* Metrics counts a request before it passes it on and its answer after    *)
(* the rest of the chain has returned, by two additions that other         *)
(* requests come between.  A panic unwinds through Metrics: the request    *)
(* has been received and its answer, which RecoverPanic writes past        *)
(* Metrics' response writer, is never counted.  One that is common: after  *)
(* a registration or an activation that succeeded ConverterByTag panics.   *)
(*                                                                         *)
(* Definitions with an underscore in their name are faulty variants of the *)
(* one that follows them: each makes some property below fail, none is     *)
(* part of the model.                                                      *)
(***************************************************************************)
EXTENDS ServerLifecycle, Naturals, FiniteSets

CONSTANTS
    Statuses,   \* HTTP statuses, 200 and 500 among them
    Silent      \* no status has been written

ASSUME StatusesAssumption ==
    /\ {200, 500} \subseteq Statuses
    /\ Silent \notin Statuses

VARIABLES
    way,        \* way[r]: how far request r has come, in the chain and out of it
    sent,       \* sent[r]: the status that net/http has sent, or Silent
    noted,      \* noted[r]: statusCode of the metricsResponseWriter of r, or Silent
    received,   \* total_requests_received
    responses,  \* total_responses_sent
    byStatus    \* total_responses_sent_by_status

counters == <<received, responses, byStatus>>
chainVars == <<way, sent, noted, counters>>
pipeVars == <<vars, chainVars>>

Goto(r, place) == way' = [way EXCEPT ![r] = place]

(* net/http sends the first status it is given and ignores any other.      *)
Send(r, s) == sent' = [sent EXCEPT ![r] = IF @ = Silent THEN s ELSE @]

-----------------------------------------------------------------------------

PipeInit ==
    /\ Init
    /\ way = [r \in Requests |-> "outside"]
    /\ sent = [r \in Requests |-> Silent]
    /\ noted = [r \in Requests |-> Silent]
    /\ received = 0
    /\ responses = 0
    /\ byStatus = [s \in Statuses |-> 0]

(* net/http starts the goroutine; RecoverPanic sets its defer.             *)
Enter(r) ==
    /\ Accept(r)
    /\ Goto(r, "entered")
    /\ UNCHANGED <<sent, noted, counters>>

(* Metrics, on the way in; a metricsResponseWriter starts with a 200.      *)
Receive_NoStatus(r) ==
    /\ Alive /\ way[r] = "entered"
    /\ received' = received + 1
    /\ Goto(r, "chain")
    /\ UNCHANGED <<vars, sent, noted, responses, byStatus>>

Receive(r) ==
    /\ Alive /\ way[r] = "entered"
    /\ received' = received + 1
    /\ noted' = [noted EXCEPT ![r] = 200]
    /\ Goto(r, "chain")
    /\ UNCHANGED <<vars, sent, responses, byStatus>>

(* A status written through the metricsResponseWriter: the first one is    *)
(* noted.  A handler that never calls WriteHeader leaves the 200 that the  *)
(* writer starts with, which is what net/http then sends.                  *)
Note_Not(r, s) == UNCHANGED noted

Note(r, s) == noted' = [noted EXCEPT ![r] = IF sent[r] = Silent THEN s ELSE @]

(* RateLimit refuses the request: 429, or 500 for an address it cannot     *)
(* split.                                                                  *)
Deny(r, s) ==
    /\ Alive /\ way[r] = "chain" /\ s # 200
    /\ Send(r, s) /\ Note(r, s)
    /\ Goto(r, "back")
    /\ UNCHANGED <<vars, counters>>

(* RateLimit lets it pass; EnableCORS, for which nothing configures a      *)
(* trusted origin, only adds to the header.                                *)
Pass(r) ==
    /\ Alive /\ way[r] = "chain"
    /\ Goto(r, "inside")
    /\ UNCHANGED <<vars, sent, noted, counters>>

(* Authenticate, RequireActivatedUser, the router for want of a route or a *)
(* method, or a handler answers, and all return.                           *)
Respond(r, s) ==
    /\ Alive /\ way[r] = "inside"
    /\ Send(r, s) /\ Note(r, s)
    /\ Goto(r, "back")
    /\ UNCHANGED <<vars, counters>>

(* A handler panics before it has written anything: ConverterByTag after   *)
(* a success, the update of a book without user, a pool that is nil.       *)
Panic_Counted(r) ==
    /\ Alive /\ way[r] = "inside"
    /\ Goto(r, "unwinding")
    /\ responses' = responses + 1
    /\ UNCHANGED <<vars, sent, noted, received, byStatus>>

Panic(r) ==
    /\ Alive /\ way[r] = "inside"
    /\ Goto(r, "unwinding")
    /\ UNCHANGED <<vars, sent, noted, counters>>

(* The deferred function of RecoverPanic answers with the writer that it   *)
(* was given itself.                                                       *)
Recover_Logs(r) ==
    /\ Alive /\ way[r] = "unwinding"
    /\ Goto(r, "recovered")
    /\ UNCHANGED <<vars, sent, noted, counters>>

Recover(r) ==
    /\ Alive /\ way[r] = "unwinding"
    /\ Send(r, 500)
    /\ Goto(r, "recovered")
    /\ UNCHANGED <<vars, noted, counters>>

(* Metrics, on the way out.                                                *)
CountResponse(r) ==
    /\ Alive /\ way[r] = "back"
    /\ responses' = responses + 1
    /\ Goto(r, "responded")
    /\ UNCHANGED <<vars, sent, noted, received, byStatus>>

CountStatus(r) ==
    /\ Alive /\ way[r] = "responded"
    /\ byStatus' = [byStatus EXCEPT ![noted[r]] = @ + 1]
    /\ Goto(r, "counted")
    /\ UNCHANGED <<vars, sent, noted, received, responses>>

(* RecoverPanic returns to net/http, which counts the connection as idle;  *)
(* a request that failed for want of the database has been told 500.       *)
Leave_WhenSent(r) ==
    /\ sent[r] # Silent
    /\ Answer(r)
    /\ req'[r] = "failed" => sent[r] = 500
    /\ UNCHANGED chainVars

Leave(r) ==
    /\ way[r] \in {"counted", "recovered"}
    /\ Answer(r)
    /\ req'[r] = "failed" => sent[r] = 500
    /\ UNCHANGED chainVars

(* Main, the watcher, the listener and the signals, between requests.      *)
ServerStep ==
    /\ MainStep \/ WatcherStep \/ ServeFails \/ Signal
    /\ UNCHANGED chainVars

PipeNext ==
    \/ ServerStep
    \/ \E r \in Requests :
          \/ Enter(r) \/ Receive(r) \/ Pass(r)
          \/ \E s \in Statuses : Deny(r, s) \/ Respond(r, s)
          \/ Panic(r) \/ Recover(r)
          \/ CountResponse(r) \/ CountStatus(r)
          \/ Leave(r)

(* As in ServerLifecycle, nothing is assumed of requests.                  *)
PipeSpec == PipeInit /\ [][PipeNext]_pipeVars
PipeFairSpec == PipeSpec /\ Fairness

-----------------------------------------------------------------------------
(***************************************************************************)
(* Properties.                                                             *)
(***************************************************************************)

(* The type of every variable, those of ServerLifecycle included; no       *)
(* request is inside Metrics without a status to be counted under.         *)
PipeTypeOK ==
    /\ TypeOK
    /\ way \in [Requests -> {"outside", "entered", "chain", "inside", "back", "responded",
                             "counted", "unwinding", "recovered"}]
    /\ sent \in [Requests -> Statuses \union {Silent}]
    /\ noted \in [Requests -> Statuses \union {Silent}]
    /\ \A r \in Requests : way[r] \notin {"outside", "entered"} => noted[r] # Silent
    /\ received \in Nat /\ responses \in Nat
    /\ byStatus \in [Statuses -> Nat]

At(places) == {r \in Requests : way[r] \in places}

(* The counters differ by the requests under way and by those that         *)
(* panicked, whose answers nobody ever counts.                             *)
CountersBalance ==
    received = responses + Cardinality(At({"chain", "inside", "back"}))
                         + Cardinality(At({"unwinding", "recovered"}))

(* What is counted under a status is what clients were sent: the number    *)
(* of requests that have passed the last addition with that answer.        *)
StatusesTrue ==
    \A s \in Statuses :
        byStatus[s] = Cardinality({r \in At({"counted"}) : sent[r] = s})

(* No request is over without an answer, and one is answered 500 when its  *)
(* handler panicked.                                                       *)
NobodyLeavesSilent ==
    \A r \in Requests :
        /\ req[r] \in {"answered", "failed"} => sent[r] # Silent
        /\ way[r] = "recovered" => sent[r] = 500

(* A shutdown that ends clean has waited for the counting too: every       *)
(* answer but those to panics is in the counters.                          *)
CleanMeansCounted ==
    exit = "stopped" =>
        /\ received = Cardinality({r \in Requests : req[r] # "idle"})
        /\ responses = Cardinality(At({"counted"}))

=============================================================================
