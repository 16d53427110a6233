---------------------------- MODULE AccountsPool ----------------------------
(***************************************************************************)
(* The requests of Accounts over the connections of TxPool: every read of  *)
(* a row and every transaction needs a connection first, and a request     *)
(* that waits for a row lock or for a reserved key holds its connection    *)
(* while it waits.                                                         *)
(*                                                                         *)
(* Accounts says what the statements do and TxPool who has a connection;   *)
(* here both happen together, and TxPool, which knows nothing of rows, is  *)
(* shown to be implemented.                                                *)
(*                                                                         *)
(* Release_KeepsRows and Release_NoRollback are faulty variants of Release *)
(* and no part of the model.                                               *)
(***************************************************************************)
EXTENDS Accounts

CONSTANTS
    Conns,      \* the connections that SetMaxOpenConns allows
    Nobody      \* the owner of a connection that is free

ASSUME NobodyIsNobody == Nobody \notin Requests

(* A pool has at least one: SetMaxOpenConns(0) stands for no limit.         *)
ASSUME SomeConnection == Conns # {}

VARIABLE
    owner       \* owner[c]: the request that holds connection c, or Nobody

pooledVars == <<owner, vars>>

Holders == {owner[c] : c \in Conns}
Holds(r) == r \in Holders

GiveBack(r) == owner' = [c \in Conns |-> IF owner[c] = r THEN Nobody ELSE owner[c]]

Free == {c \in Conns : owner[c] = Nobody}

-----------------------------------------------------------------------------

PooledInit == Init /\ owner = [c \in Conns |-> Nobody]

(* Requests come, and those that are answered for what they are go,        *)
(* without a connection.                                                   *)
Come ==
    /\ \/ \E r \in Requests, in \in Served : Arrive(r, in)
       \/ \E r \in Requests, in \in Served \union Refused : ArriveWithToken(r, in)
       \/ \E r \in Requests, in \in Refused : Refuse(r, in)
    /\ UNCHANGED owner

(* getByQuery before its statement, RunInTx before its function.           *)
Acquire(r) ==
    /\ pc[r] \in {"auth", "read", "tx"} /\ ~ Holds(r)
    /\ \E c \in Free : owner' = [owner EXCEPT ![c] = r]
    /\ UNCHANGED vars

(* Scan gives a lookup's connection back, Commit and Rollback a            *)
(* transaction's; between a statement and its COMMIT it is kept.           *)
Release_KeepsRows(r) ==
    IF pc[r] = "read" \/ pc'[r] = "commit" THEN UNCHANGED owner ELSE GiveBack(r)

Release_NoRollback(r) == IF pc[r] = "tx" THEN UNCHANGED owner ELSE GiveBack(r)

Release(r) == IF pc'[r] = "commit" THEN UNCHANGED owner ELSE GiveBack(r)

(* A statement or the end of a transaction, on the connection that the     *)
(* request holds.                                                          *)
Run(r) == Holds(r) /\ Progress(r) /\ Release(r)

RunFails(r) == Holds(r) /\ (CommitLost(r) \/ StatementFails(r)) /\ Release(r)

(* The three seconds of a lookup's context are over while it waits.        *)
GiveUp(r) ==
    /\ pc[r] \in {"auth", "read"} /\ ~ Holds(r)
    /\ StatementFails(r)
    /\ UNCHANGED owner

(* db.Begin fails; it never gives up waiting for a connection.             *)
BeginFails(r) ==
    /\ pc[r] = "tx" /\ ~ Holds(r) /\ Free # {}
    /\ StatementFails(r)
    /\ UNCHANGED owner

PooledCrash == Crash /\ owner' = [c \in Conns |-> Nobody]

PooledNext ==
    \/ Come
    \/ \E r \in Requests :
          Acquire(r) \/ Run(r) \/ RunFails(r) \/ GiveUp(r) \/ BeginFails(r)
    \/ PooledCrash

(* A goroutine that can go on does so: the Go scheduler runs every         *)
(* runnable goroutine, database/sql hands a free connection to one that    *)
(* waits, and a statement or a COMMIT returns.  Nothing fails or times     *)
(* out of necessity.                                                       *)
Fairness == \A r \in Requests : WF_pooledVars(Acquire(r) \/ Run(r))

PooledSpec == PooledInit /\ [][PooledNext]_pooledVars
PooledFairSpec == PooledSpec /\ Fairness

-----------------------------------------------------------------------------
(***************************************************************************)
(* Properties.                                                             *)
(***************************************************************************)

(* Every request that reaches its handler comes to an end unless the       *)
(* process dies: waiting for connections, row locks and reserved keys,     *)
(* each while holding the others, never closes a circle and needs no       *)
(* time-out to be resolved.                                                *)
EveryRequestEnds ==
    \A r \in Requests : InFlight(r) ~> (pc[r] \in {"done", "lost"})

(* A request waits for a connection that others hold, or holds one and     *)
(* waits for the COMMIT of another transaction, which has locked the row   *)
(* or reserved the e-mail or the phone.                                    *)
WaitsForConn(r) == pc[r] \in {"auth", "read", "tx"} /\ ~ Holds(r) /\ Free = {}

WaitsForCommit(r) ==
    /\ pc[r] = "tx" /\ Holds(r)
    /\ \/ /\ req[r].op = "register"
          /\ \/ EmailReserved(r, req[r].email)
             \/ ~ EmailTaken(req[r].email) /\ PhoneReserved(r, req[r].phone)
       \/ req[r].op = "activate" /\ Locked(r, target[r])

(* Some request can always go on by itself: among those in flight there is *)
(* one that waits neither for a connection nor for a COMMIT, so that no    *)
(* circle closes over connections, row locks and reserved keys together,   *)
(* even when the pool is as small as one connection.                       *)
NoDeadlock ==
    \A r \in Requests : InFlight(r) =>
        \E q \in Requests : InFlight(q) /\ ~ WaitsForConn(q) /\ ~ WaitsForCommit(q)

(* In the eyes of TxPool a request in flight has a number of lookups and   *)
(* perhaps a transaction still to make.                                    *)
PoolPc == [r \in Requests |->
    CASE pc[r] = "idle"              -> "idle"
      [] pc[r] \in {"auth", "read"}  -> IF Holds(r) THEN "lookup" ELSE "wantsLookup"
      [] pc[r] = "tx"                -> IF Holds(r) THEN "tx" ELSE "wantsTx"
      [] pc[r] = "commit"            -> "tx"
      [] pc[r] = "lost"              -> "lost"
      [] OTHER                       -> "answered"]

(* The plan of a handler, and what is left of it.                          *)
HandlerPlan(op) ==
    CASE op \in {"register", "invalid"} -> [lookups |-> 0, tx |-> "returns"]
      [] op = "activate"                -> [lookups |-> 1, tx |-> "returns"]
      [] op = "login"                   -> [lookups |-> 1, tx |-> "none"]
      [] OTHER                          -> [lookups |-> 0, tx |-> "none"]

PoolPlan == [r \in Requests |->
    CASE pc[r] = "auth"             -> [HandlerPlan(req[r].op) EXCEPT !.lookups = @ + 1]
      [] pc[r] = "read"             -> HandlerPlan(req[r].op)
      [] pc[r] \in {"tx", "commit"} -> [lookups |-> 0, tx |-> "returns"]
      [] OTHER                      -> [lookups |-> 0, tx |-> "none"]]

Pool == INSTANCE TxPool WITH pc <- PoolPc, plan <- PoolPlan

(* Who holds and who waits for a connection is as TxPool says, whatever    *)
(* the statements find in the table and however long they wait for locks.  *)
ImplementsPool == Pool!Spec

=============================================================================
