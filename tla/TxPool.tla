------------------------------- MODULE TxPool -------------------------------
(***************************************************************************)
(* The connection pool that all handlers share, and how they take          *)
(* connections from it: a lookup (getByQuery, paginatedQuery) holds one    *)
(* for a statement, RunInTx holds one from Begin to Commit or Rollback.    *)
(*                                                                         *)
(* A lookup gives up after the three seconds of its context, also while it *)
(* waits for a connection.  RunInTx calls db.Begin, which has no context   *)
(* and waits for a free connection as long as it takes, and it has no      *)
(* defer: when its function panics the connection is never given back,     *)
(* although RecoverPanic answers the request.                              *)
(*                                                                         *)
(* What the statements do is left to Accounts and Books.  Definitions with *)
(* an underscore in their name are faulty variants of the one that follows *)
(* them: each makes some property below fail, none is part of the model.   *)
(***************************************************************************)
EXTENDS Naturals

CONSTANTS
    Requests,   \* HTTP requests, each served by a goroutine of its own
    Conns,      \* the connections that SetMaxOpenConns allows
    Nobody      \* the owner of a connection that is free

ASSUME NobodyIsNobody == Nobody \notin Requests

VARIABLES
    owner,      \* owner[c]: the request that holds connection c, or Nobody
    pc,         \* where a request's goroutine stands
    plan        \* what a request still needs the database for

vars == <<owner, pc, plan>>

(***************************************************************************)
(* Every handler makes its lookups first, one after the other, and then at *)
(* most one transaction.  Authenticate makes one lookup more when the      *)
(* request has a token; the routes under /books do not go on without one.  *)
(* Input that is refused for what it is needs nothing more.                *)
(***************************************************************************)
Plan == [lookups : 0 .. 2, tx : {"none", "returns", "panics"}]

Nothing == [lookups |-> 0, tx |-> "none"]

OpenRoutes ==
    [register |-> [lookups |-> 0, tx |-> "returns"],
     activate |-> [lookups |-> 1, tx |-> "returns"],
     login    |-> [lookups |-> 1, tx |-> "none"],
     refused  |-> Nothing]

(* A PUT whose body has no user makes bookRepository.Update dereference    *)
(* book.User, which is nil, inside the transaction.                        *)
BookRoutes ==
    [find           |-> [lookups |-> 1, tx |-> "none"],
     findAll        |-> [lookups |-> 1, tx |-> "none"],
     save           |-> [lookups |-> 0, tx |-> "returns"],
     update         |-> [lookups |-> 0, tx |-> "returns"],
     update_no_user |-> [lookups |-> 0, tx |-> "panics"],
     delete         |-> [lookups |-> 0, tx |-> "returns"]]

Authenticated_Twice(p) == [p EXCEPT !.lookups = @ + 2]

Authenticated(p) == [p EXCEPT !.lookups = @ + 1]

Plans ==
    {OpenRoutes[op] : op \in DOMAIN OpenRoutes}
        \union {Authenticated(OpenRoutes[op]) : op \in DOMAIN OpenRoutes}
        \union {Authenticated(BookRoutes[op]) : op \in DOMAIN BookRoutes}

Waiting(r)  == pc[r] \in {"wantsLookup", "wantsTx"}
Using(r)    == pc[r] \in {"lookup", "tx"}
Ended(r)    == pc[r] \in {"answered", "panicked", "lost"}
InFlight(r) == Waiting(r) \/ Using(r)

Owns(r, c) == owner[c] = r

(* Connections whose owner will never give them back.                      *)
Leaked == {c \in Conns : owner[c] # Nobody /\ Ended(owner[c])}
Exhausted == Leaked = Conns

-----------------------------------------------------------------------------

Goto(r, label) == pc' = [pc EXCEPT ![r] = label]

Take(r) == \E c \in Conns : owner[c] = Nobody /\ owner' = [owner EXCEPT ![c] = r]

GiveBack(r) == owner' = [c \in Conns |-> IF owner[c] = r THEN Nobody ELSE owner[c]]

(* The handler answers: whatever it had planned is over.                   *)
Answer(r) == Goto(r, "answered") /\ plan' = [plan EXCEPT ![r] = Nothing]

(* Where a request goes that has no lookup or transaction under way.       *)
NextNeed(p) ==
    IF p.lookups > 0 THEN "wantsLookup" ELSE IF p.tx # "none" THEN "wantsTx" ELSE "answered"

Init ==
    /\ owner = [c \in Conns |-> Nobody]
    /\ pc = [r \in Requests |-> "idle"]
    /\ plan = [r \in Requests |-> Nothing]

Arrive(r) ==
    /\ pc[r] = "idle"
    /\ \E p \in Plans : plan' = [plan EXCEPT ![r] = p] /\ Goto(r, NextNeed(p))
    /\ UNCHANGED owner

(* db.QueryRowContext and db.QueryContext: a connection, then a statement. *)
StartLookup(r) ==
    /\ pc[r] = "wantsLookup"
    /\ Take(r)
    /\ Goto(r, "lookup")
    /\ UNCHANGED plan

(* Scan or rows.Close gives the connection back and the handler goes on.   *)
EndLookup_KeepsRows(r) ==
    /\ pc[r] = "lookup"
    /\ plan' = [plan EXCEPT ![r].lookups = @ - 1]
    /\ Goto(r, NextNeed(plan'[r]))
    /\ UNCHANGED owner

EndLookup(r) ==
    /\ pc[r] = "lookup"
    /\ GiveBack(r)
    /\ plan' = [plan EXCEPT ![r].lookups = @ - 1]
    /\ Goto(r, NextNeed(plan'[r]))

(* The row is not there, the account is not active, the password is wrong, *)
(* the input is refused: the handler answers without what it had planned.  *)
StopAfterLookup(r) ==
    /\ pc[r] = "lookup"
    /\ GiveBack(r)
    /\ Answer(r)

(* The context of a lookup is over, with or without a connection.          *)
LookupTimesOut_NoContext(r) ==
    /\ pc[r] = "lookup"
    /\ GiveBack(r)
    /\ Answer(r)

LookupTimesOut(r) ==
    /\ pc[r] \in {"wantsLookup", "lookup"}
    /\ GiveBack(r)
    /\ Answer(r)

(* db.Begin.                                                               *)
Begin(r) ==
    /\ pc[r] = "wantsTx"
    /\ Take(r)
    /\ Goto(r, "tx")
    /\ UNCHANGED plan

(* The database cannot be reached, which costs no connection.              *)
BeginFails(r) ==
    /\ pc[r] = "wantsTx"
    /\ \E c \in Conns : owner[c] = Nobody
    /\ Answer(r)
    /\ UNCHANGED owner

(* The function returns, its statement is over in three seconds at most,   *)
(* and RunInTx commits or rolls back.                                      *)
EndTx_NoRollback(r) ==
    /\ pc[r] = "tx" /\ plan[r].tx = "returns"
    /\ GiveBack(r) \/ UNCHANGED owner
    /\ Answer(r)

EndTx(r) ==
    /\ pc[r] = "tx" /\ plan[r].tx = "returns"
    /\ GiveBack(r)
    /\ Answer(r)

(* The function panics.  Nothing runs tx.Rollback while the stack unwinds  *)
(* to RecoverPanic, which answers 500.                                     *)
PanicInTx(r) ==
    /\ pc[r] = "tx" /\ plan[r].tx = "panics"
    /\ Goto(r, "panicked")
    /\ UNCHANGED <<owner, plan>>

(* The process dies and is started again, with an empty pool.              *)
Restart ==
    /\ \E r \in Requests : InFlight(r) \/ pc[r] = "panicked"
    /\ owner' = [c \in Conns |-> Nobody]
    /\ pc' = [r \in Requests |-> IF InFlight(r) THEN "lost" ELSE pc[r]]
    /\ plan' = [r \in Requests |-> IF InFlight(r) THEN Nothing ELSE plan[r]]

Progress(r) ==
    \/ StartLookup(r) \/ EndLookup(r) \/ StopAfterLookup(r) \/ LookupTimesOut(r)
    \/ Begin(r) \/ BeginFails(r) \/ EndTx(r) \/ PanicInTx(r)

Next ==
    \/ \E r \in Requests : Arrive(r) \/ Progress(r)
    \/ Restart

(* A goroutine that can go on does so.  A timer fires, a statement and a   *)
(* COMMIT return; a free connection is handed to some waiting goroutine,   *)
(* and as requests end, in the end to each of them.                        *)
Fairness == \A r \in Requests : WF_vars(Progress(r))

Spec == Init /\ [][Next]_vars
FairSpec == Spec /\ Fairness

-----------------------------------------------------------------------------
(***************************************************************************)
(* Properties.                                                             *)
(***************************************************************************)

(* The type of every variable.                                             *)
TypeOK ==
    /\ owner \in [Conns -> Requests \union {Nobody}]
    /\ pc \in [Requests -> {"idle", "wantsLookup", "lookup", "wantsTx", "tx",
                            "answered", "panicked", "lost"}]
    /\ plan \in [Requests -> Plan]

(* No goroutine holds a connection while it waits for another, and none    *)
(* holds two: Authenticate has given its connection back before the        *)
(* handler takes one, so requests cannot wait for each other in a circle,  *)
(* even with a pool of one.                                                *)
NoHoldAndWait ==
    \A c \in Conns : \A r \in Requests :
        Owns(r, c) => /\ ~ Waiting(r)
                      /\ \A d \in Conns \ {c} : ~ Owns(r, d)

(* A connection is lost to the pool only by a panic inside a transaction:  *)
(* failed, refused and timed-out requests give theirs back.                *)
OnlyPanicsLeak ==
    \A c \in Leaked : pc[owner[c]] = "panicked" /\ plan[owner[c]].tx = "panics"

(* As long as one connection is not leaked, every request is answered.     *)
EndsUnlessExhausted ==
    \A r \in Requests : InFlight(r) ~> (Ended(r) \/ Exhausted)

(* A request that only looks up is answered even when the pool is gone:    *)
(* its context ends the wait.                                              *)
LookupsAlwaysEnd ==
    \A r \in Requests : (InFlight(r) /\ plan[r].tx = "none") ~> Ended(r)

(* What the source says of a panic: RecoverPanic answers that the server   *)
(* "could not process your request" (utils/errors/errors.go:129), that is, *)
(* this one; the others are served.                                        *)
EveryRequestEnds ==
    \A r \in Requests : InFlight(r) ~> Ended(r)

=============================================================================
