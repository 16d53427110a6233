------------------------------ MODULE Accounts ------------------------------
(***************************************************************************)
(* The account part of bookwise: registration, activation by code, login   *)
(* and the authentication of a bearer token, over the PostgreSQL table     *)
(* `users` (src/migrations/00001_create_users.sql).                        *)
(*                                                                         *)
(* Every HTTP request is served by a goroutine of its own, and the         *)
(* goroutines share nothing but the table.  An activation reads its row in *)
(* one statement and writes it back in a later transaction, so other       *)
(* requests come in between; a row is guarded by its `version`, which the  *)
(* write compares and increments.  Between a transaction's statement and   *)
(* its COMMIT the new row version is visible to nobody, locks the row      *)
(* against other writers and reserves its keys in the unique indexes.      *)
(*                                                                         *)
(* Definitions with an underscore in their name are faulty variants of the *)
(* one that follows them.  They are not part of the model: put in place of *)
(* the correct definition, each makes some property below fail.            *)
(***************************************************************************)
EXTENDS Naturals

CONSTANTS
    Requests,   \* HTTP requests, each of them served once
    Emails,     \* e-mail addresses, up to the case folding of citext
    Phones,     \* phone numbers
    Passwords,  \* passwords, each standing for its bcrypt hashes too
    Codes,      \* activation codes that GenerateRandomCode may draw
    NoRow       \* stands for "no row" and "nothing written"

(* rand.Intn(900000) + 100000: never 0, the code of a row that is active.   *)
ASSUME CodesPositive == Codes \subseteq Nat \ {0}

VARIABLES
    users,      \* users[id]: the committed row of that id, or NoRow
    pc,         \* where a request's goroutine stands
    req,        \* what a request asks for
    snap,       \* the row an activation has read, in its goroutine's memory
    target,     \* the id of the row a request's transaction writes
    pend,       \* what the open transaction of a request has written
    status,     \* what the service has told the handler, as an HTTP status, or 0
    issued      \* the activation code drawn for the row of that id (history)

vars == <<users, pc, req, snap, target, pend, status, issued>>

(***************************************************************************)
(* Requests and rows.  The sequence behind users.id gives each INSERT an   *)
(* id of its own, so the request that inserts a row serves as its id.      *)
(***************************************************************************)
Row == [email : Emails, phone : Phones, password : Passwords,
        cod : Codes \union {0}, activated : BOOLEAN, version : Nat \ {0}]

ASSUME NoRowIsNoRow == NoRow \notin Row

RegisterRequest == [op : {"register"}, email : Emails, phone : Phones, password : Passwords]
ActivateRequest == [op : {"activate"}, email : Emails, cod : Codes \union {0}]
LoginRequest    == [op : {"login"}, email : Emails, password : Passwords]

(* A registration with a field that fails the validator, which runs inside *)
(* the transaction.                                                        *)
InvalidRequest  == [op : {"invalid"}]

(* A route for active users, called with a token for that e-mail.          *)
AccessRequest   == [op : {"access"}, email : Emails]

Served ==
    RegisterRequest \union ActivateRequest \union LoginRequest
        \union InvalidRequest \union AccessRequest

(* Requests that are answered for what they are, whatever the table holds: *)
(* the handler refuses a body that is not the expected JSON (400), an      *)
(* activation or a login that fails its validator (422) and a password     *)
(* that bcrypt cannot hash (500), and before it the middleware refuses a   *)
(* token that is expired, unreadable or missing (401).                     *)
Refused == [op : {"refused"}]

InputRefused == {400, 422, 500}
TokenRefused == 401

NoRequest == [op |-> "none"]

Present == {id \in Requests : users[id] # NoRow}

(* The WHERE clauses of GetByEmail and GetByCodAndEmail.                   *)
WithEmail(e) == {id \in Present : users[id].email = e}
WithCodAndEmail_AnyCode(c, e) == WithEmail(e)
WithCodAndEmail(c, e) == {id \in WithEmail(e) : users[id].cod = c}

(* A row lock: another transaction has written the row and is still open.  *)
Locked(r, id) == \E q \in Requests \ {r} : pend[q] # NoRow /\ target[q] = id

(* The unique indexes users_email_key and users_phone_key, with the keys   *)
(* of open transactions: an INSERT waits until those commit or roll back.  *)
EmailTaken(e) == \E id \in Present : users[id].email = e
PhoneTaken_NotUnique(p) == FALSE
PhoneTaken(p) == \E id \in Present : users[id].phone = p
EmailReserved(r, e) == \E q \in Requests \ {r} : pend[q] # NoRow /\ pend[q].email = e
PhoneReserved(r, p) == \E q \in Requests \ {r} : pend[q] # NoRow /\ pend[q].phone = p

-----------------------------------------------------------------------------

Goto(r, label) == pc' = [pc EXCEPT ![r] = label]
Answer(r, s) == Goto(r, "done") /\ status' = [status EXCEPT ![r] = s]

Init ==
    /\ users  = [id \in Requests |-> NoRow]
    /\ pc     = [r \in Requests |-> "idle"]
    /\ req    = [r \in Requests |-> NoRequest]
    /\ snap   = [r \in Requests |-> NoRow]
    /\ target = [r \in Requests |-> r]
    /\ pend   = [r \in Requests |-> NoRow]
    /\ status = [r \in Requests |-> 0]
    /\ issued = [r \in Requests |-> 0]

(* Where the handler of a request begins: Save opens its transaction, the  *)
(* others look their user up.                                              *)
FirstStep(in) == IF in.op \in {"register", "invalid"} THEN "tx" ELSE "read"

(* A request without a token goes straight to its handler.                 *)
Arrive(r, in) ==
    /\ pc[r] = "idle"
    /\ in.op # "access"
    /\ req' = [req EXCEPT ![r] = in]
    /\ Goto(r, FirstStep(in))
    /\ UNCHANGED <<users, snap, target, pend, status, issued>>

(* One with a bearer token that verifies has its user looked up first, on  *)
(* every route.  The token may name anybody: nothing is assumed of where   *)
(* it comes from.                                                          *)
ArriveWithToken(r, in) ==
    /\ pc[r] = "idle"
    /\ req' = [req EXCEPT ![r] = in]
    /\ Goto(r, "auth")
    /\ UNCHANGED <<users, snap, target, pend, status, issued>>

Refuse(r, in) ==
    /\ pc[r] = "idle"
    /\ req' = [req EXCEPT ![r] = in]
    /\ \E s \in InputRefused \union {TokenRefused} : Answer(r, s)
    /\ UNCHANGED <<users, snap, target, pend, issued>>

(* Authenticate on a route that is open: the token names the user of some  *)
(* row, and the handler goes on, or refuses its input.                     *)
Authenticate(r) ==
    /\ pc[r] = "auth" /\ req[r].op # "access"
    /\ Present # {}
    /\ \/ req[r].op = "refused" /\ \E s \in InputRefused : Answer(r, s)
       \/ req[r].op # "refused" /\ Goto(r, FirstStep(req[r])) /\ UNCHANGED status
    /\ UNCHANGED <<users, req, snap, target, pend, issued>>

(* The token names nobody in the table, and the handler is never called.   *)
AuthenticateUnknown(r) ==
    /\ pc[r] = "auth" /\ req[r].op # "access"
    /\ Answer(r, 404)
    /\ UNCHANGED <<users, req, snap, target, pend, issued>>

(* userService.Save: the validator refuses, and nothing is inserted.       *)
SaveInvalid(r) ==
    /\ pc[r] = "tx" /\ req[r].op = "invalid"
    /\ Answer(r, 422)
    /\ UNCHANGED <<users, req, snap, target, pend, issued>>

(* userService.Save inside RunInTx: draw a code, INSERT.  PostgreSQL       *)
(* checks users_email_key before users_phone_key, and waits for an open    *)
(* transaction that holds the same key.                                    *)
InsertRow_ModelVersion(r, c) ==
    [email |-> req[r].email, phone |-> req[r].phone, password |-> req[r].password,
     cod |-> c, activated |-> FALSE, version |-> 0]

InsertRow(r, c) ==
    [email |-> req[r].email, phone |-> req[r].phone, password |-> req[r].password,
     cod |-> c, activated |-> FALSE, version |-> 1]

Insert(r) ==
    /\ pc[r] = "tx" /\ req[r].op = "register"
    /\ ~ EmailReserved(r, req[r].email) /\ ~ EmailTaken(req[r].email)
    /\ ~ PhoneReserved(r, req[r].phone) /\ ~ PhoneTaken(req[r].phone)
    /\ \E c \in Codes :
          /\ pend' = [pend EXCEPT ![r] = InsertRow(r, c)]
          /\ issued' = [issued EXCEPT ![r] = c]
    /\ Goto(r, "commit")
    /\ UNCHANGED <<users, req, snap, target, status>>

(* ErrDuplicateEmail and ErrDuplicatePhone are answered 422.               *)
InsertDuplicate(r) ==
    /\ pc[r] = "tx" /\ req[r].op = "register"
    /\ ~ EmailReserved(r, req[r].email)
    /\ \/ EmailTaken(req[r].email)
       \/ ~ PhoneReserved(r, req[r].phone) /\ PhoneTaken(req[r].phone)
    /\ Answer(r, 422)
    /\ UNCHANGED <<users, req, snap, target, pend, issued>>

(* userService.ActivateUser, its read: the row with that code and e-mail.  *)
ActivateRead(r) ==
    /\ pc[r] = "read" /\ req[r].op = "activate"
    /\ \E id \in WithCodAndEmail(req[r].cod, req[r].email) :
          /\ snap' = [snap EXCEPT ![r] = users[id]]
          /\ target' = [target EXCEPT ![r] = id]
    /\ Goto(r, "tx")
    /\ UNCHANGED <<users, req, pend, status, issued>>

ActivateNotFound(r) ==
    /\ pc[r] = "read" /\ req[r].op = "activate"
    /\ WithCodAndEmail(req[r].cod, req[r].email) = {}
    /\ Answer(r, 404)
    /\ UNCHANGED <<users, req, snap, target, pend, issued>>

(* userService.ActivateUser, its write: the whole row as it was read, with *)
(* Activated and Cod changed, if the version is still the one that was     *)
(* read.  The UPDATE waits for the row lock and looks at the version after. *)
UpdatedRow_Toggle(r) ==
    [snap[r] EXCEPT !.activated = ~ @, !.cod = 0, !.version = users[target[r]].version + 1]

UpdatedRow(r) ==
    [snap[r] EXCEPT !.activated = TRUE, !.cod = 0, !.version = users[target[r]].version + 1]

Update_NoVersion(r) ==
    /\ pc[r] = "tx" /\ req[r].op = "activate"
    /\ ~ Locked(r, target[r])
    /\ pend' = [pend EXCEPT ![r] = UpdatedRow(r)]
    /\ Goto(r, "commit")
    /\ UNCHANGED <<users, req, snap, target, status, issued>>

Update(r) ==
    /\ pc[r] = "tx" /\ req[r].op = "activate"
    /\ ~ Locked(r, target[r])
    /\ users[target[r]].version = snap[r].version
    /\ pend' = [pend EXCEPT ![r] = UpdatedRow(r)]
    /\ Goto(r, "commit")
    /\ UNCHANGED <<users, req, snap, target, status, issued>>

(* No row matches id and version any more: ErrEditConflict, answered 409.  *)
UpdateConflict_NoWait(r) ==
    /\ pc[r] = "tx" /\ req[r].op = "activate"
    /\ Locked(r, target[r]) \/ users[target[r]].version # snap[r].version
    /\ Answer(r, 409)
    /\ UNCHANGED <<users, req, snap, target, pend, issued>>

UpdateConflict(r) ==
    /\ pc[r] = "tx" /\ req[r].op = "activate"
    /\ ~ Locked(r, target[r])
    /\ users[target[r]].version # snap[r].version
    /\ Answer(r, 409)
    /\ UNCHANGED <<users, req, snap, target, pend, issued>>

(* tx.Commit succeeds and so does the call of the service.                 *)
Commit(r) ==
    /\ pc[r] = "commit"
    /\ users' = [users EXCEPT ![target[r]] = pend[r]]
    /\ pend' = [pend EXCEPT ![r] = NoRow]
    /\ Answer(r, IF req[r].op = "register" THEN 201 ELSE 200)
    /\ UNCHANGED <<req, snap, target, issued>>

(* The connection breaks at COMMIT: the goroutine sees an error, whether   *)
(* the database has committed or rolled back.                              *)
CommitLost_Ignored(r) ==
    /\ pc[r] = "commit"
    /\ users' \in {users, [users EXCEPT ![target[r]] = pend[r]]}
    /\ pend' = [pend EXCEPT ![r] = NoRow]
    /\ Answer(r, IF req[r].op = "register" THEN 201 ELSE 200)
    /\ UNCHANGED <<req, snap, target, issued>>

CommitLost(r) ==
    /\ pc[r] = "commit"
    /\ users' \in {users, [users EXCEPT ![target[r]] = pend[r]]}
    /\ pend' = [pend EXCEPT ![r] = NoRow]
    /\ Answer(r, 500)
    /\ UNCHANGED <<req, snap, target, issued>>

(* A statement fails, or the BEGIN before it: the database is away, or the *)
(* three seconds of the statement's context are over, maybe while it       *)
(* waited for a lock.  Nothing is written and the transaction is rolled    *)
(* back.                                                                   *)
StatementFails(r) ==
    /\ pc[r] \in {"auth", "read", "tx"}
    /\ Answer(r, 500)
    /\ UNCHANGED <<users, req, snap, target, pend, issued>>

(* AuthService.Login.  An unknown e-mail and a wrong password both become  *)
(* ErrInvalidCredentials, which HandlerErrorResponse has no case for.      *)
LoginStatus_Pending(r) ==
    LET found == WithEmail(req[r].email)
    IN  IF \A id \in found : users[id].password # req[r].password THEN 500 ELSE 201

LoginStatus(r) ==
    LET found == WithEmail(req[r].email)
    IN  IF found = {} THEN 500
        ELSE IF \E id \in found : ~ users[id].activated THEN 403
        ELSE IF \E id \in found : users[id].password # req[r].password THEN 500
        ELSE 201

Login(r) ==
    /\ pc[r] = "read" /\ req[r].op = "login"
    /\ Answer(r, LoginStatus(r))
    /\ UNCHANGED <<users, req, snap, target, pend, issued>>

(* On a route for active users, Authenticate looks up the user that the    *)
(* token names and RequireActivatedUser checks it; 200 stands for "the     *)
(* handler runs".                                                          *)
AccessStatus(r) ==
    LET found == WithEmail(req[r].email)
    IN  IF found = {} THEN 404
        ELSE IF \E id \in found : ~ users[id].activated THEN 403
        ELSE 200

Access(r) ==
    /\ pc[r] = "auth" /\ req[r].op = "access"
    /\ Answer(r, AccessStatus(r))
    /\ UNCHANGED <<users, req, snap, target, pend, issued>>

(* What reaches the client.  After a registration or an activation that    *)
(* has succeeded the handler calls ConverterByTag, where convert sets the  *)
(* pointer that reflect.ValueOf(dst) holds; such a value is not settable,  *)
(* Set panics, and RecoverPanic answers 500.                               *)
Reply(r) ==
    IF req[r].op \in {"register", "activate"} /\ status[r] \in {200, 201} THEN 500 ELSE status[r]

(* The process dies: open transactions are rolled back by the database and *)
(* the requests in flight are never answered.  A crash that comes when the *)
(* database has committed already leaves what CommitLost leaves.           *)
InFlight(r) == pc[r] \in {"auth", "read", "tx", "commit"}

Crash ==
    /\ \E r \in Requests : InFlight(r)
    /\ pc' = [r \in Requests |-> IF InFlight(r) THEN "lost" ELSE pc[r]]
    /\ pend' = [r \in Requests |-> NoRow]
    /\ UNCHANGED <<users, req, snap, target, status, issued>>

(* What a request's goroutine does by itself, without a failure.           *)
Progress(r) ==
    \/ Authenticate(r) \/ AuthenticateUnknown(r)
    \/ Insert(r) \/ InsertDuplicate(r) \/ SaveInvalid(r)
    \/ ActivateRead(r) \/ ActivateNotFound(r)
    \/ Update(r) \/ UpdateConflict(r)
    \/ Commit(r)
    \/ Login(r) \/ Access(r)

Next ==
    \/ \E r \in Requests, in \in Served : Arrive(r, in)
    \/ \E r \in Requests, in \in Served \union Refused : ArriveWithToken(r, in)
    \/ \E r \in Requests, in \in Refused : Refuse(r, in)
    \/ \E r \in Requests : Progress(r)
    \/ \E r \in Requests : CommitLost(r) \/ StatementFails(r)
    \/ Crash

Spec == Init /\ [][Next]_vars

-----------------------------------------------------------------------------
(***************************************************************************)
(* Properties.                                                             *)
(***************************************************************************)

(* The type of every variable.                                             *)
TypeOK ==
    /\ users \in [Requests -> Row \union {NoRow}]
    /\ pc \in [Requests -> {"idle", "auth", "read", "tx", "commit", "done", "lost"}]
    /\ req \in [Requests -> Served \union Refused \union {NoRequest}]
    /\ snap \in [Requests -> Row \union {NoRow}]
    /\ target \in [Requests -> Requests]
    /\ pend \in [Requests -> Row \union {NoRow}]
    /\ status \in [Requests -> {0, 200, 201, 400, 401, 403, 404, 409, 422, 500}]
    /\ issued \in [Requests -> Codes \union {0}]

Answered(r, op, s) == req[r].op = op /\ status[r] = s

(* Two accounts never share an e-mail or a phone, whatever the order in    *)
(* which concurrent registrations insert, commit, fail and time out.       *)
IdentitiesUnique ==
    \A i, j \in Present :
        i # j => users[i].email # users[j].email /\ users[i].phone # users[j].phone

(* A code that was drawn for an account is accepted once: of several       *)
(* requests that carry it (a double click, a retry after a time-out) at    *)
(* most one succeeds.  The read and the write of an activation are two     *)
(* separate steps, so this rests on the version that Update compares.      *)
CodeAcceptedOnce ==
    \A r, q \in Requests :
        /\ Answered(r, "activate", 200) /\ Answered(q, "activate", 200)
        /\ target[r] = target[q] /\ req[r].cod \in Codes /\ req[q].cod \in Codes
        => r = q

(* A 409 tells the client that somebody else changed the account: the row  *)
(* really has moved past the version this request read.                    *)
ConflictMeansRival ==
    \A r \in Requests :
        Answered(r, "activate", 409) => users[target[r]].version > snap[r].version

(* Success is durable: when Save or ActivateUser has returned without an   *)
(* error, the account registered is there with that identity, the account  *)
(* activated is active, whatever other requests and crashes came since.    *)
AckedIsDurable ==
    \A r \in Requests :
        /\ Answered(r, "register", 201) =>
              \E id \in WithEmail(req[r].email) :
                  users[id].phone = req[r].phone /\ users[id].password = req[r].password
        /\ Answered(r, "activate", 200) =>
              \E id \in WithEmail(req[r].email) : users[id].activated

(* An account is active only if somebody sent the code that was drawn for  *)
(* it together with its e-mail; the code 0 that a used-up row holds does   *)
(* not activate anybody.                                                   *)
ActivatedByIssuedCode ==
    \A id \in Present :
        users[id].activated =>
            \E r \in Requests :
                /\ req[r].op = "activate"
                /\ req[r].email = users[id].email
                /\ req[r].cod = issued[id]

(* A login that was answered 201 has handed out a token for its e-mail.    *)
TokenIssued(e) ==
    \E q \in Requests : Answered(q, "login", 201) /\ req[q].email = e

(* Whom a login has given a token is let in with it: whenever Authenticate *)
(* looks the user up again, that user is there and is active, whatever the *)
(* other requests, failures and crashes since.  Of a token that names an   *)
(* account which never logged in, the property says nothing.               *)
TokenHoldersAdmitted ==
    [][\A r \in Requests : Access(r) /\ TokenIssued(req[r].email) => status'[r] = 200]_vars

(* The rows, without codes, versions and ids, behave as AccountLifecycle   *)
(* says: every step of every handler is a registration, an activation or   *)
(* invisible.                                                              *)
AccountOf(row) == [email |-> row.email, phone |-> row.phone,
                   password |-> row.password, activated |-> row.activated]

AccountsOf == {AccountOf(users[id]) : id \in Present}

Lifecycle == INSTANCE AccountLifecycle WITH accounts <- AccountsOf

ImplementsLifecycle == Lifecycle!Spec

(* What the source says of success: CreateUserHandler responds with        *)
(* http.StatusCreated and ActivateUserHandler with http.StatusOK           *)
(* (handlers/user.go:102, :65); 500 says that the server "could not        *)
(* process your request" (utils/errors/errors.go:129).                     *)
SuccessIsAnswered ==
    \A r \in Requests : status[r] \in {200, 201} => Reply(r) = status[r]

(* What the source says of wrong credentials: InvalidCredentialsResponse   *)
(* (utils/errors/errors.go:117) answers 401 with the very message of       *)
(* ErrInvalidCredentials (errors.go:25), which Login returns when the      *)
(* account is active and the password is not its own.                      *)
WrongCredentials(r) ==
    \E id \in WithEmail(req[r].email) :
        users[id].activated /\ users[id].password # req[r].password

WrongCredentialsAre401 ==
    [][\A r \in Requests : Login(r) /\ WrongCredentials(r) => status'[r] = 401]_vars

=============================================================================
