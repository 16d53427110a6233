---------------------------- MODULE BooksProofs ----------------------------
(***************************************************************************)
(* Proofs about Books: its type and its safety properties, for every       *)
(* number of requests, users, titles and contents.                         *)
(*                                                                         *)
(* The argument rests on what the model found out about the code: an       *)
(* update never selects a row, so a committed row stays what its INSERT    *)
(* made of the request with its id.                                        *)
(***************************************************************************)
EXTENDS Books, TLAPS

SameKey(a, b) == a.owner = b.owner /\ a.title = b.title

(* What is written and not committed is the row of a save before COMMIT.   *)
PendingSaves ==
    \A r \in Requests :
        /\ pc[r] = "commit" =>
              req[r].op = "save" /\ SaveOwner(r) \in Users /\ pend[r] = InsertedRow(r)
        /\ pend[r] # NoBook => pc[r] = "commit"
        /\ pc[r] = "idle" => req[r] = NoRequest
        /\ pc[r] # "done" => status[r] = 0

(* A row with id r is what the save r has asked for.                       *)
RowsAsSent ==
    \A r \in Requests : books[r] # NoBook =>
        /\ pc[r] = "done" /\ req[r].op = "save"
        /\ SaveOwner(r) \in Users /\ books[r] = InsertedRow(r)

(* The key of an uncommitted row is in no other row, committed or not.     *)
KeysFree ==
    \A r \in Requests : pc[r] = "commit" =>
        /\ \A id \in Present : ~ SameKey(books[id], pend[r])
        /\ \A q \in Requests \ {r} : pc[q] = "commit" => ~ SameKey(pend[q], pend[r])

(* Behind every 201 there is a row.                                        *)
SavesAcked ==
    \A r \in Requests : Answered(r, "save", 201) => books[r] # NoBook

IInv ==
    /\ TypeOK
    /\ PendingSaves
    /\ RowsAsSent
    /\ KeysFree
    /\ SavesAcked
    /\ TitleUniquePerOwner

-----------------------------------------------------------------------------
(* A save whose owner exists makes a row.                                  *)
LEMMA InsertedIsRow ==
  ASSUME NEW r \in Requests, req[r] \in SaveRequest, SaveOwner(r) \in Users
  PROVE  InsertedRow(r) \in Row
BY DEF InsertedRow, Row, SaveRequest

LEMMA SavesAreSaves ==
  ASSUME TypeOK, NEW r \in Requests, req[r].op = "save"
  PROVE  req[r] \in SaveRequest
BY DEF TypeOK, WellFormed, UpdateRequest, FindRequest, DeleteRequest, NoRequest

LEMMA InitIInv == Init => IInv
<1> SUFFICES ASSUME Init PROVE IInv
  OBVIOUS
<1>1. TypeOK
  BY DEF Init, TypeOK
<1>2. PendingSaves /\ RowsAsSent /\ KeysFree
  BY DEF Init, PendingSaves, RowsAsSent, KeysFree
<1>3. SavesAcked /\ TitleUniquePerOwner
  BY DEF Init, SavesAcked, TitleUniquePerOwner, Answered, Present
<1> QED
  BY <1>1, <1>2, <1>3 DEF IInv

LEMMA ArriveIInv ==
  ASSUME IInv, NEW r \in Requests, NEW in \in WellFormed, Arrive(r, in)
  PROVE  IInv'
<1> USE DEF IInv
<1>1. TypeOK'
  BY DEF TypeOK, Arrive, Goto
<1>2. /\ \A q \in Requests : q # r => pc'[q] = pc[q] /\ req'[q] = req[q]
      /\ pc[r] = "idle" /\ pc'[r] \in {"tx", "read"}
      /\ UNCHANGED <<books, pend, status>>
  BY DEF Arrive, Goto, TypeOK
<1>3. \A q \in Requests : q # r =>
          SaveOwner(q)' = SaveOwner(q) /\ InsertedRow(q)' = InsertedRow(q)
  BY <1>2 DEF SaveOwner, InsertedRow
<1>4. books[r] = NoBook /\ status[r] = 0 /\ pend[r] = NoBook
  BY <1>2 DEF PendingSaves, RowsAsSent
<1>5. PendingSaves' /\ RowsAsSent'
  BY <1>2, <1>3, <1>4 DEF PendingSaves, RowsAsSent
<1>6. KeysFree'
  BY <1>2 DEF KeysFree, Present
<1>7. SavesAcked' /\ TitleUniquePerOwner'
  BY <1>2, <1>4 DEF SavesAcked, TitleUniquePerOwner, Answered, Present
<1> QED
  BY <1>1, <1>5, <1>6, <1>7

(* An answer other than 201 by a request that has nothing uncommitted.     *)
LEMMA AnswerIInv ==
  ASSUME IInv, NEW r \in Requests, NEW s \in {200, 400, 404, 409, 422, 500},
         pc[r] \in {"idle", "read", "tx"}, Answer(r, s), UNCHANGED <<books, req, pend>>
  PROVE  IInv'
<1> USE DEF IInv
<1>1. TypeOK'
  BY DEF TypeOK, Answer, Goto
<1>2. /\ \A q \in Requests : q # r => pc'[q] = pc[q] /\ status'[q] = status[q]
      /\ pc'[r] = "done" /\ status'[r] = s
  BY DEF Answer, Goto, TypeOK
<1>3. \A q \in Requests : SaveOwner(q)' = SaveOwner(q) /\ InsertedRow(q)' = InsertedRow(q)
  BY DEF SaveOwner, InsertedRow
<1>4. PendingSaves' /\ RowsAsSent'
  BY <1>2, <1>3 DEF PendingSaves, RowsAsSent
<1>5. KeysFree'
  BY <1>2 DEF KeysFree, Present
<1>6. SavesAcked' /\ TitleUniquePerOwner'
  BY <1>2 DEF SavesAcked, TitleUniquePerOwner, Answered, Present
<1> QED
  BY <1>1, <1>4, <1>5, <1>6

LEMMA InsertIInv ==
  ASSUME IInv, NEW r \in Requests, Insert(r)
  PROVE  IInv'
<1> USE DEF IInv
<1>1. /\ pc[r] = "tx" /\ req[r].op = "save" /\ SaveOwner(r) \in Users
      /\ pc'[r] = "commit" /\ pend'[r] = InsertedRow(r)
      /\ \A q \in Requests : q # r => pc'[q] = pc[q] /\ pend'[q] = pend[q]
      /\ UNCHANGED <<books, req, status>>
  BY DEF Insert, InTx, Goto, TypeOK
<1>2. InsertedRow(r) \in Row
  BY <1>1, SavesAreSaves, InsertedIsRow
<1>3. InsertedRow(r).owner = SaveOwner(r) /\ InsertedRow(r).title = req[r].title
  BY DEF InsertedRow
<1>4. TypeOK'
  BY <1>2 DEF TypeOK, Insert, Goto
<1>5. \A q \in Requests : SaveOwner(q)' = SaveOwner(q) /\ InsertedRow(q)' = InsertedRow(q)
  BY <1>1 DEF SaveOwner, InsertedRow
<1>6. PendingSaves' /\ RowsAsSent'
  BY <1>1, <1>5 DEF PendingSaves, RowsAsSent
<1>7. KeysFree'
  <2>1. \A id \in Present : ~ SameKey(books[id], InsertedRow(r))
    BY <1>3 DEF Insert, TitleTaken, SameKey
  <2>2. \A q \in Requests \ {r} : pc[q] = "commit" => ~ SameKey(pend[q], InsertedRow(r))
    <3> SUFFICES ASSUME NEW q \in Requests \ {r}, pc[q] = "commit"
                 PROVE  ~ SameKey(pend[q], InsertedRow(r))
      OBVIOUS
    <3>1. pend[q] \in Row
      BY SavesAreSaves, InsertedIsRow DEF PendingSaves
    <3> QED
      BY <1>3, <3>1, NoBookIsNoBook DEF Insert, TitleReserved, SameKey
  <2>3. \A q \in Requests \ {r} : SameKey(pend[q], InsertedRow(r)) = SameKey(InsertedRow(r), pend[q])
    BY DEF SameKey
  <2> QED
    BY <1>1, <2>1, <2>2, <2>3 DEF KeysFree, Present
<1>8. SavesAcked' /\ TitleUniquePerOwner'
  BY <1>1 DEF SavesAcked, TitleUniquePerOwner, Answered, Present
<1> QED
  BY <1>4, <1>6, <1>7, <1>8

(* A row has a version of 1 or more, so no update ever selects one.        *)
LEMMA NothingSelected ==
  ASSUME IInv, NEW r \in Requests
  PROVE  Selected(r) = {}
BY DEF IInv, TypeOK, Selected, Present, Row, SentVersion

(* The handlers that only answer.                                          *)
LEMMA RejectIInv ==
  ASSUME IInv, NEW r \in Requests,
         \/ InsertRejected(r) \/ Update(r) \/ UpdatePanics(r) \/ Delete(r)
         \/ StatementFails(r) \/ Find(r)
  PROVE  IInv'
<1>1. PICK s \in {200, 404, 409, 422, 500} : Answer(r, s)
  BY NothingSelected DEF InsertRejected, Update, UpdatePanics, Delete, StatementFails, Find
<1>2. pc[r] \in {"idle", "read", "tx"} /\ UNCHANGED <<books, req, pend>>
  BY NothingSelected DEF InsertRejected, Update, UpdatePanics, Delete, StatementFails, Find, InTx
<1> QED
  BY <1>1, <1>2, AnswerIInv

LEMMA RefuseIInv ==
  ASSUME IInv, NEW r \in Requests, NEW s \in RefusedStatus, Refuse(r, s)
  PROVE  IInv'
BY AnswerIInv DEF Refuse, RefusedStatus

(* The row appears, or, when the COMMIT is lost, perhaps not; success is   *)
(* answered only in the first case.                                        *)
LEMMA CommitIInv ==
  ASSUME IInv, NEW r \in Requests, Commit(r) \/ CommitLost(r)
  PROVE  IInv'
<1> USE DEF IInv
<1>1. /\ pc[r] = "commit" /\ req[r].op = "save" /\ SaveOwner(r) \in Users
      /\ pend[r] = InsertedRow(r) /\ Written(r) = r
  BY DEF Commit, CommitLost, PendingSaves, Written
<1>2. InsertedRow(r) \in Row
  BY <1>1, SavesAreSaves, InsertedIsRow
<1>3. PICK s \in {201, 500} :
         /\ Answer(r, s)
         /\ \/ books' = [books EXCEPT ![r] = InsertedRow(r)]
            \/ s = 500 /\ books' = books
  BY <1>1 DEF Commit, CommitLost
<1>4. pend' = [pend EXCEPT ![r] = NoBook] /\ req' = req
  BY DEF Commit, CommitLost
<1>5. TypeOK'
  BY <1>2, <1>3, <1>4 DEF TypeOK, Answer, Goto
<1>6. /\ \A q \in Requests : q # r =>
            /\ pc'[q] = pc[q] /\ status'[q] = status[q] /\ pend'[q] = pend[q]
            /\ books'[q] = books[q]
      /\ pc'[r] = "done" /\ status'[r] = s /\ pend'[r] = NoBook
      /\ books'[r] \in {InsertedRow(r), books[r]}
      /\ s = 201 => books'[r] = InsertedRow(r)
  BY <1>3, <1>4 DEF Answer, Goto, TypeOK
<1>7. \A q \in Requests : SaveOwner(q)' = SaveOwner(q) /\ InsertedRow(q)' = InsertedRow(q)
  BY <1>4 DEF SaveOwner, InsertedRow
<1>8. PendingSaves'
  BY <1>4, <1>6, <1>7 DEF PendingSaves
<1>9. RowsAsSent'
  BY <1>1, <1>4, <1>6, <1>7 DEF RowsAsSent
<1>10. books[r] = NoBook
  BY <1>1 DEF RowsAsSent
<1>11. \A id \in Present' : id \in Present \/ (id = r /\ books'[id] = pend[r])
  BY <1>1, <1>6 DEF Present
<1>12. \A id \in Present' : id # r => id \in Present /\ books'[id] = books[id]
  BY <1>6 DEF Present
<1>13. KeysFree'
  <2> SUFFICES ASSUME NEW p \in Requests, pc'[p] = "commit"
               PROVE  /\ \A id \in Present' : ~ SameKey(books'[id], pend'[p])
                      /\ \A q \in Requests \ {p} :
                            pc'[q] = "commit" => ~ SameKey(pend'[q], pend'[p])
    BY DEF KeysFree
  <2>1. p # r /\ pc[p] = "commit" /\ pend'[p] = pend[p]
    BY <1>6
  <2>2. ~ SameKey(pend[r], pend[p])
    BY <1>1, <2>1 DEF KeysFree
  <2> QED
    BY <1>6, <1>10, <1>11, <1>12, <2>1, <2>2 DEF KeysFree, Present
<1>14. TitleUniquePerOwner'
  <2>1. \A id \in Present : ~ SameKey(books[id], pend[r])
    BY <1>1 DEF KeysFree
  <2> SUFFICES ASSUME NEW i \in Present', NEW j \in Present',
                      books'[i].owner = books'[j].owner, books'[i].title = books'[j].title
               PROVE  i = j
    BY DEF TitleUniquePerOwner
  <2>2. CASE i # r /\ j # r
    BY <1>12, <2>2 DEF TitleUniquePerOwner
  <2>3. CASE i = r /\ j # r
    BY <1>10, <1>11, <1>12, <2>1, <2>3 DEF SameKey, Present
  <2>4. CASE i # r /\ j = r
    BY <1>10, <1>11, <1>12, <2>1, <2>4 DEF SameKey, Present
  <2> QED
    BY <2>2, <2>3, <2>4
<1>15. SavesAcked'
  BY <1>2, <1>4, <1>6, NoBookIsNoBook DEF SavesAcked, Answered
<1> QED
  BY <1>5, <1>8, <1>9, <1>13, <1>14, <1>15

LEMMA CrashIInv ==
  ASSUME IInv, Crash
  PROVE  IInv'
<1> USE DEF IInv
<1>1. TypeOK'
  BY DEF TypeOK, Crash
<1>2. /\ UNCHANGED <<books, req, status>>
      /\ \A r \in Requests :
            /\ pc'[r] = IF InFlight(r) THEN "lost" ELSE pc[r]
            /\ pend'[r] = NoBook
  BY DEF Crash
<1>3. \A r \in Requests :
          SaveOwner(r)' = SaveOwner(r) /\ InsertedRow(r)' = InsertedRow(r)
  BY <1>2 DEF SaveOwner, InsertedRow
<1>4. PendingSaves' /\ RowsAsSent'
  BY <1>2, <1>3 DEF PendingSaves, RowsAsSent, InFlight
<1>5. KeysFree'
  BY <1>2 DEF KeysFree, InFlight
<1>6. SavesAcked' /\ TitleUniquePerOwner'
  BY <1>2 DEF SavesAcked, TitleUniquePerOwner, Answered, Present
<1> QED
  BY <1>1, <1>4, <1>5, <1>6

LEMMA StepIInv == IInv /\ [Next]_vars => IInv'
<1> SUFFICES ASSUME IInv, [Next]_vars PROVE IInv'
  OBVIOUS
<1>1. CASE UNCHANGED vars
  <2>1. \A r \in Requests :
           SaveOwner(r)' = SaveOwner(r) /\ InsertedRow(r)' = InsertedRow(r)
    BY <1>1 DEF vars, SaveOwner, InsertedRow
  <2>2. TypeOK' /\ PendingSaves' /\ RowsAsSent'
    BY <1>1, <2>1 DEF vars, IInv, TypeOK, PendingSaves, RowsAsSent
  <2>3. KeysFree' /\ SavesAcked' /\ TitleUniquePerOwner'
    BY <1>1 DEF vars, IInv, KeysFree, SavesAcked, TitleUniquePerOwner, Answered, Present
  <2> QED
    BY <2>2, <2>3 DEF IInv
<1>2. CASE Next
  BY <1>2, ArriveIInv, RefuseIInv, InsertIInv, RejectIInv, CommitIInv, CrashIInv DEF Next
<1> QED
  BY <1>1, <1>2

(* The strengthening of the safety properties holds in every state.        *)
THEOREM InductiveInvariant == Spec => []IInv
BY InitIInv, StepIInv, PTL DEF Spec

-----------------------------------------------------------------------------
(* Every variable of Books keeps its type.                                 *)
THEOREM TypeCorrect == Spec => []TypeOK
<1>1. IInv => TypeOK
  BY DEF IInv
<1> QED
  BY <1>1, InductiveInvariant, PTL

(* No user ever has two books of one title.                                *)
THEOREM TitlesAreUnique == Spec => []TitleUniquePerOwner
<1>1. IInv => TitleUniquePerOwner
  BY DEF IInv
<1> QED
  BY <1>1, InductiveInvariant, PTL

LEMMA AckedRow ==
  ASSUME IInv, NEW r \in Requests, Answered(r, "save", 201)
  PROVE  r \in Present /\ books[r] = InsertedRow(r) /\ books[r].owner = SaveOwner(r)
<1>1. books[r] # NoBook
  BY DEF IInv, SavesAcked
<1>2. books[r] = InsertedRow(r)
  BY <1>1 DEF IInv, RowsAsSent
<1>3. InsertedRow(r).owner = SaveOwner(r)
  BY DEF InsertedRow
<1> QED
  BY <1>1, <1>2, <1>3 DEF Present

LEMMA AckedRows == IInv => AckedBookStays
<1> SUFFICES ASSUME IInv, NEW r \in Requests, Answered(r, "save", 201)
             PROVE  /\ r \in Present
                    /\ books[r].owner = SaveOwner(r)
                    /\ books[r].title = req[r].title /\ books[r].content = req[r].content
  BY DEF AckedBookStays
<1>1. InsertedRow(r).title = req[r].title /\ InsertedRow(r).content = req[r].content
  BY DEF InsertedRow
<1> QED
  BY <1>1, AckedRow

(* A book whose save was answered 201 is there for good, as it was sent.   *)
THEOREM AckedBooksStay == Spec => []AckedBookStays
BY AckedRows, InductiveInvariant, PTL

(* Whoever is told that a title exists has a committed book of that title. *)
LEMMA DuplicateStep ==
  ASSUME IInv, [Next]_vars, NEW r \in Requests,
         req[r].op = "save", req[r].pagesPositive, status'[r] # status[r], status'[r] = 422
  PROVE  TitleTaken(SaveOwner(r), req[r].title)
<1> USE DEF IInv
<1>1. \A q \in Requests : \A s : Answer(q, s) => q = r /\ s = 422
  BY DEF Answer, TypeOK
<1>2. CASE InsertRejected(r)
  BY <1>1, <1>2 DEF InsertRejected
<1>3. ASSUME NEW s \in RefusedStatus, Refuse(r, s) PROVE FALSE
  BY <1>3 DEF Refuse, PendingSaves, NoRequest
<1>4. CASE Find(r) \/ Update(r) \/ UpdatePanics(r) \/ Delete(r) \/ StatementFails(r)
  BY <1>1, <1>4, NothingSelected DEF Find, Update, UpdatePanics, Delete, StatementFails
<1>5. CASE Commit(r) \/ CommitLost(r)
  BY <1>1, <1>5 DEF Commit, CommitLost
<1> QED
  BY <1>1, <1>2, <1>3, <1>4, <1>5
     DEF Next, vars, Arrive, Refuse, Insert, InsertRejected, Update, UpdatePanics, Delete,
         Commit, CommitLost, StatementFails, Find, Crash

(* 422 for a title means that the owner has a book of that title by then.  *)
THEOREM DuplicatesAreBooks == Spec => DuplicateMeansBook
<1>1. IInv /\ [Next]_vars =>
        [\A r \in Requests :
           req[r].op = "save" /\ req[r].pagesPositive /\ status'[r] # status[r]
             /\ status'[r] = 422
           => TitleTaken(SaveOwner(r), req[r].title)]_vars
  BY DuplicateStep
<1> QED
  BY <1>1, InductiveInvariant, PTL DEF Spec, DuplicateMeansBook

(* Who looks for an acknowledged book of his own finds it.                 *)
LEMMA FindStep ==
  ASSUME IInv, NEW r \in Requests, NEW q \in Requests,
         Find(r), req[r].id = q, Answered(q, "save", 201),
         req[q].owner \in {NoUser, req[r].user}, req[q].user = req[r].user
  PROVE  status'[r] = 200
<1>1. q \in Present /\ books[q].owner = SaveOwner(q)
  BY AckedRow
<1>2. SaveOwner(q) = req[r].user
  BY DEF SaveOwner
<1> QED
  BY <1>1, <1>2 DEF Find, Answer, IInv, TypeOK

(* A save that was acknowledged is found by its owner from then on.        *)
THEOREM SavesAreRead == Spec => ReadYourSaves
<1>1. IInv /\ [Next]_vars =>
        [\A r, q \in Requests :
          /\ Find(r) /\ req[r].id = q
          /\ Answered(q, "save", 201) /\ req[q].owner \in {NoUser, req[r].user}
          /\ req[q].user = req[r].user
          => status'[r] = 200]_vars
  BY FindStep
<1> QED
  BY <1>1, InductiveInvariant, PTL DEF Spec, ReadYourSaves

=============================================================================
