------------------------------- MODULE Books -------------------------------
(***************************************************************************)
(* The books of bookwise: saving, finding, updating and deleting a row of  *)
(* the table `books` (src/migrations/00002_create_books.sql), each by a    *)
(* request of an authenticated, active user.                               *)
(*                                                                         *)
(* As in Accounts, a transaction's row is visible to nobody before COMMIT  *)
(* and holds its key in the unique index unique_title_per_user meanwhile.  *)
(* Definitions with an underscore in their name are faulty variants of the *)
(* one that follows them: each makes some property below fail, none is     *)
(* part of the model.                                                      *)
(***************************************************************************)
EXTENDS Naturals

CONSTANTS
    Requests,   \* HTTP requests, each of them served once
    Users,      \* ids of the rows of `users`
    Titles,     \* titles of books
    Contents,   \* author and description, of which no property speaks apart
    NoUser,     \* a body without "user"
    Ghost,      \* a user id that is no row of `users`
    NoBook      \* stands for "no row" and "nothing written"

ASSUME NoSuchUsers == NoUser \notin Users /\ Ghost \notin Users /\ NoUser # Ghost

VARIABLES
    books,      \* books[id]: the committed row of that id, or NoBook
    pc,         \* where a request's goroutine stands
    req,        \* what a request asks for, and for which user
    pend,       \* what the open transaction of a request has written
    status      \* HTTP status answered, 0 before that

vars == <<books, pc, req, pend, status>>

(***************************************************************************)
(* The sequence behind books.id gives each INSERT an id of its own, so the *)
(* request that inserts a row serves as its id.  No statement sets         *)
(* `deleted`, so every row has it false.                                   *)
(***************************************************************************)
Row == [owner : Users, title : Titles, content : Contents, version : Nat \ {0}]

ASSUME NoBookIsNoBook == NoBook \notin Row

(* Bodies that pass ValidateBook; pages is not 0, but may be negative.     *)
(* What no statement reads is left out: the requester of an update (its    *)
(* owner comes from the body) or of a delete, the pages of an update.      *)
SaveRequest   == [op : {"save"}, user : Users, owner : Users \union {Ghost, NoUser},
                  title : Titles, content : Contents, pagesPositive : BOOLEAN]
UpdateRequest == [op : {"update"}, id : Requests, owner : Users \union {Ghost, NoUser},
                  title : Titles, content : Contents]
FindRequest   == [op : {"find"}, user : Users, id : Requests]
DeleteRequest == [op : {"delete"}, id : Requests]

WellFormed == SaveRequest \union UpdateRequest \union FindRequest \union DeleteRequest

NoRequest == [op |-> "none"]

(* Refused before the table is touched: not JSON or an id that is not a    *)
(* number (400), a field that fails its validator (422).                   *)
RefusedStatus == {400, 422}

Present == {id \in Requests : books[id] # NoBook}

(* The user that a body stands for: Save puts the requester in when there  *)
(* is none, Update does not.                                               *)
SaveOwner(r) == IF req[r].owner = NoUser THEN req[r].user ELSE req[r].owner

(* BookDTO has no version, so ToModel leaves the one of the model at 0.    *)
SentVersion == 0

(* The unique index unique_title_per_user, with the keys of open           *)
(* transactions: an INSERT waits until those commit or roll back.          *)
TitleTaken_NotUnique(o, t) == FALSE

TitleTaken(o, t) == \E id \in Present : books[id].owner = o /\ books[id].title = t

TitleReserved(r, o, t) ==
    \E q \in Requests \ {r} : pend[q] # NoBook /\ pend[q].owner = o /\ pend[q].title = t

-----------------------------------------------------------------------------

Goto(r, label) == pc' = [pc EXCEPT ![r] = label]
Answer(r, s) == Goto(r, "done") /\ status' = [status EXCEPT ![r] = s]

Init ==
    /\ books  = [id \in Requests |-> NoBook]
    /\ pc     = [r \in Requests |-> "idle"]
    /\ req    = [r \in Requests |-> NoRequest]
    /\ pend   = [r \in Requests |-> NoBook]
    /\ status = [r \in Requests |-> 0]

Arrive(r, in) ==
    /\ pc[r] = "idle"
    /\ req' = [req EXCEPT ![r] = in]
    /\ Goto(r, IF in.op = "find" THEN "read" ELSE "tx")
    /\ UNCHANGED <<books, pend, status>>

Refuse(r, s) ==
    /\ pc[r] = "idle"
    /\ Answer(r, s)
    /\ UNCHANGED <<books, req, pend>>

(* bookRepository.Insert.  PostgreSQL tests the CHECK on pages before the  *)
(* unique index, and the foreign key last.                                 *)
InTx(r, op) == pc[r] = "tx" /\ req[r].op = op

InsertedRow_ModelVersion(r) ==
    [owner |-> SaveOwner(r), title |-> req[r].title,
     content |-> req[r].content, version |-> SentVersion]

InsertedRow(r) ==
    [owner |-> SaveOwner(r), title |-> req[r].title,
     content |-> req[r].content, version |-> 1]

Insert(r) ==
    /\ InTx(r, "save")
    /\ req[r].pagesPositive /\ SaveOwner(r) \in Users
    /\ ~ TitleReserved(r, SaveOwner(r), req[r].title)
    /\ ~ TitleTaken(SaveOwner(r), req[r].title)
    /\ pend' = [pend EXCEPT ![r] = InsertedRow(r)]
    /\ Goto(r, "commit")
    /\ UNCHANGED <<books, req, status>>

(* ErrBookPages and ErrBookTitle are answered 422; the violation of the    *)
(* foreign key has no case in parseBookConstraintError.                    *)
InsertRejected_NoWait(r) ==
    /\ InTx(r, "save") /\ req[r].pagesPositive
    /\ \/ TitleTaken(SaveOwner(r), req[r].title)
       \/ TitleReserved(r, SaveOwner(r), req[r].title)
    /\ Answer(r, 422)
    /\ UNCHANGED <<books, req, pend>>

InsertRejected(r) ==
    /\ InTx(r, "save")
    /\ \/ ~ req[r].pagesPositive /\ Answer(r, 422)
       \/ /\ req[r].pagesPositive
          /\ ~ TitleReserved(r, SaveOwner(r), req[r].title)
          /\ TitleTaken(SaveOwner(r), req[r].title)
          /\ Answer(r, 422)
       \/ req[r].pagesPositive /\ SaveOwner(r) = Ghost /\ Answer(r, 500)
    /\ UNCHANGED <<books, req, pend>>

(* bookRepository.Update: the rows its WHERE clause selects get the new    *)
(* title and content, and no row is ErrEditConflict, answered 409.  Every  *)
(* row has a version of 1 or more, so it is always 409.                    *)
Selected(r) ==
    {id \in Present \intersect {req[r].id} :
        books[id].version = SentVersion /\ books[id].owner = req[r].owner}

UpdatedRow(r) ==
    [books[req[r].id] EXCEPT !.title = req[r].title, !.content = req[r].content,
                             !.version = @ + 1]

Update(r) ==
    /\ InTx(r, "update") /\ req[r].owner # NoUser
    /\ IF Selected(r) = {}
       THEN Answer(r, 409) /\ UNCHANGED pend
       ELSE /\ pend' = [pend EXCEPT ![r] = UpdatedRow(r)]
            /\ Goto(r, "commit")
            /\ UNCHANGED status
    /\ UNCHANGED <<books, req>>

(* A body without user: the query is not even built, book.User is nil.     *)
(* RecoverPanic answers 500; TxPool says what becomes of the transaction.  *)
UpdatePanics(r) ==
    /\ InTx(r, "update") /\ req[r].owner = NoUser
    /\ Answer(r, 500)
    /\ UNCHANGED <<books, req, pend>>

(* bookRepository.Delete passes its arguments as one slice, which          *)
(* database/sql refuses to convert (and two parameters take two): the      *)
(* statement never runs.                                                   *)
Delete(r) ==
    /\ InTx(r, "delete")
    /\ Answer(r, 500)
    /\ UNCHANGED <<books, req, pend>>

(* tx.Commit succeeds and the handler answers.                             *)
Written(r) == IF req[r].op = "save" THEN r ELSE req[r].id

Commit(r) ==
    /\ pc[r] = "commit"
    /\ books' = [books EXCEPT ![Written(r)] = pend[r]]
    /\ pend' = [pend EXCEPT ![r] = NoBook]
    /\ Answer(r, IF req[r].op = "save" THEN 201 ELSE 200)
    /\ UNCHANGED req

(* The connection breaks at COMMIT, and nobody knows whether it took place. *)
CommitLost_Ignored(r) ==
    /\ pc[r] = "commit"
    /\ books' \in {books, [books EXCEPT ![Written(r)] = pend[r]]}
    /\ pend' = [pend EXCEPT ![r] = NoBook]
    /\ Answer(r, IF req[r].op = "save" THEN 201 ELSE 200)
    /\ UNCHANGED req

CommitLost(r) ==
    /\ pc[r] = "commit"
    /\ books' \in {books, [books EXCEPT ![Written(r)] = pend[r]]}
    /\ pend' = [pend EXCEPT ![r] = NoBook]
    /\ Answer(r, 500)
    /\ UNCHANGED req

(* A statement fails or its three seconds are over: rolled back, 500.      *)
StatementFails(r) ==
    /\ pc[r] \in {"read", "tx"}
    /\ Answer(r, 500)
    /\ UNCHANGED <<books, req, pend>>

(* bookRepository.GetByID: the row of that id, if the requester owns it.   *)
Find(r) ==
    /\ pc[r] = "read"
    /\ Answer(r, IF req[r].id \in Present /\ books[req[r].id].owner = req[r].user
                 THEN 200 ELSE 404)
    /\ UNCHANGED <<books, req, pend>>

(* The process dies; the database rolls open transactions back.            *)
InFlight(r) == pc[r] \in {"read", "tx", "commit"}

Crash ==
    /\ \E r \in Requests : InFlight(r)
    /\ pc' = [r \in Requests |-> IF InFlight(r) THEN "lost" ELSE pc[r]]
    /\ pend' = [r \in Requests |-> NoBook]
    /\ UNCHANGED <<books, req, status>>

Next ==
    \/ \E r \in Requests, in \in WellFormed : Arrive(r, in)
    \/ \E r \in Requests, s \in RefusedStatus : Refuse(r, s)
    \/ \E r \in Requests :
          \/ Insert(r) \/ InsertRejected(r)
          \/ Update(r) \/ UpdatePanics(r) \/ Delete(r)
          \/ Commit(r) \/ CommitLost(r) \/ StatementFails(r)
          \/ Find(r)
    \/ Crash

Spec == Init /\ [][Next]_vars

-----------------------------------------------------------------------------
(***************************************************************************)
(* Properties.                                                             *)
(***************************************************************************)

(* The type of every variable.                                             *)
TypeOK ==
    /\ books \in [Requests -> Row \union {NoBook}]
    /\ pc \in [Requests -> {"idle", "read", "tx", "commit", "done", "lost"}]
    /\ req \in [Requests -> WellFormed \union {NoRequest}]
    /\ pend \in [Requests -> Row \union {NoBook}]
    /\ status \in [Requests -> {0, 200, 201, 400, 404, 409, 422, 500}]

Answered(r, op, s) == req[r].op = op /\ status[r] = s

(* A user never has two books of one title, whatever the order in which    *)
(* concurrent saves (of the user, or of others who name the user) insert,  *)
(* commit, fail and crash.                                                 *)
TitleUniquePerOwner ==
    \A i, j \in Present :
        books[i].owner = books[j].owner /\ books[i].title = books[j].title => i = j

(* A save that was answered 201 is durable: after every later save,        *)
(* update, delete and crash of anybody the book is still there, with the   *)
(* user it was sent for, and as it was sent unless it was edited since.    *)
AckedBookStays ==
    \A r \in Requests :
        Answered(r, "save", 201) =>
            /\ r \in Present
            /\ books[r].owner = SaveOwner(r)
            /\ books[r].version = 1 =>
                  books[r].title = req[r].title /\ books[r].content = req[r].content

(* Who is told that the title exists already has such a book at that       *)
(* moment, saved by another request and committed: a save that is rolled   *)
(* back in the end never makes another one fail.                           *)
DuplicateMeansBook ==
    [][\A r \in Requests :
          req[r].op = "save" /\ req[r].pagesPositive /\ status'[r] # status[r]
             /\ status'[r] = 422
          => TitleTaken(SaveOwner(r), req[r].title)]_vars

(* A user who was told 201 for a book of his own finds it from then on.    *)
ReadYourSaves ==
    [][\A r, q \in Requests :
          /\ Find(r) /\ req[r].id = q
          /\ Answered(q, "save", 201) /\ req[q].owner \in {NoUser, req[r].user}
          /\ req[q].user = req[r].user
          => status'[r] = 200]_vars

(* What the source says of a 409: EditConflictResponse                     *)
(* (utils/errors/errors.go:152), "unable to update the record due to an    *)
(* edit conflict, please try again": the book was edited by somebody.      *)
ConflictMeansEdit ==
    \A r \in Requests :
        Answered(r, "update", 409) /\ req[r].id \in Present =>
            \/ books[req[r].id].owner # req[r].owner
            \/ books[req[r].id].version > 1

=============================================================================
