--------------------------- MODULE AccountsProofs ---------------------------
(***************************************************************************)
(* Proofs about Accounts: its type, the inductive invariant behind its     *)
(* safety properties, that it implements AccountLifecycle, and what its    *)
(* codes and tokens are worth, for every number of requests and every set  *)
(* of e-mails, phones, passwords and codes.                                *)
(***************************************************************************)
EXTENDS Accounts, TLAPS

SameIdentity(a, b) ==
    a.email = b.email /\ a.phone = b.phone /\ a.password = b.password

PendingInsert(r) == pc[r] = "commit" /\ req[r].op = "register"
PendingUpdate(r) == pc[r] = "commit" /\ req[r].op = "activate"

(* An activation that has read its row and has not ended yet.              *)
Activating(r) == pc[r] \in {"tx", "commit"} /\ req[r].op = "activate"

(* What is written and not committed belongs to a request before COMMIT.   *)
PendOnCommit ==
    \A r \in Requests :
        /\ pc[r] = "commit" => pend[r] \in Row /\ req[r].op \in {"register", "activate"}
        /\ pend[r] # NoRow => pc[r] = "commit"
        /\ pc[r] = "idle" => status[r] = 0 /\ req[r] = NoRequest
        /\ pc[r] # "done" => status[r] = 0

(* A row with id r was inserted by request r, a registration that ended.   *)
OwnRows ==
    \A r \in Requests :
        /\ users[r] # NoRow => pc[r] = "done" /\ req[r].op = "register"
        /\ req[r].op # "activate" => target[r] = r

(* An uncommitted INSERT carries the identity asked for, and no other row, *)
(* committed or not, has its e-mail or its phone.                          *)
InsertsFresh ==
    \A r \in Requests : PendingInsert(r) =>
        /\ SameIdentity(pend[r], req[r]) /\ ~ pend[r].activated
        /\ \A id \in Present :
              users[id].email # pend[r].email /\ users[id].phone # pend[r].phone
        /\ \A q \in Requests \ {r} : PendingInsert(q) =>
              pend[q].email # pend[r].email /\ pend[q].phone # pend[r].phone

(* An activation aims at an existing row with the e-mail asked for, and a  *)
(* row with the version it has read is the row it has read.                *)
SnapshotsHonest ==
    \A r \in Requests : Activating(r) =>
        /\ target[r] \in Present /\ snap[r] \in Row
        /\ SameIdentity(snap[r], users[target[r]])
        /\ snap[r].email = req[r].email /\ snap[r].cod = req[r].cod
        /\ snap[r].version \leq users[target[r]].version
        /\ snap[r].version = users[target[r]].version => snap[r] = users[target[r]]

(* An uncommitted UPDATE holds its row's lock, so the version it compared  *)
(* is still the current one.                                               *)
UpdatesLock ==
    \A r \in Requests : PendingUpdate(r) =>
        /\ users[target[r]].version = snap[r].version
        /\ SameIdentity(pend[r], snap[r])
        /\ pend[r].cod = 0 /\ pend[r].activated /\ pend[r].version = snap[r].version + 1
        /\ \A q \in Requests \ {r} : PendingUpdate(q) => target[q] # target[r]

(* Rows behind the results that the service has given (`status`).          *)
AnswersTrue ==
    \A r \in Requests :
        /\ Answered(r, "register", 201) =>
              users[r] # NoRow /\ SameIdentity(users[r], req[r])
        /\ Answered(r, "activate", 200) =>
              /\ target[r] \in Present
              /\ users[target[r]].email = req[r].email
              /\ users[target[r]].activated /\ users[target[r]].cod = 0
        /\ Answered(r, "activate", 409) =>
              /\ target[r] \in Present /\ snap[r] \in Row
              /\ users[target[r]].version > snap[r].version

IInv ==
    /\ TypeOK
    /\ PendOnCommit
    /\ OwnRows
    /\ InsertsFresh
    /\ SnapshotsHonest
    /\ UpdatesLock
    /\ AnswersTrue
    /\ IdentitiesUnique
    /\ CodeAcceptedOnce

-----------------------------------------------------------------------------
(* The parts of the invariant hold at the start.                           *)
LEMMA InitIInv == Init => IInv
<1> SUFFICES ASSUME Init PROVE IInv
  OBVIOUS
<1>1. TypeOK
  BY DEF Init, TypeOK
<1>2. PendOnCommit /\ OwnRows /\ InsertsFresh
  BY DEF Init, PendOnCommit, OwnRows, InsertsFresh, PendingInsert, NoRequest
<1>3. SnapshotsHonest /\ UpdatesLock /\ AnswersTrue
  BY DEF Init, SnapshotsHonest, UpdatesLock, AnswersTrue, Activating, PendingUpdate, Answered
<1>4. IdentitiesUnique /\ CodeAcceptedOnce
  BY DEF Init, IdentitiesUnique, CodeAcceptedOnce, Present, Answered
<1> QED
  BY <1>1, <1>2, <1>3, <1>4 DEF IInv

(* Beginning to serve a request touches no row.                            *)
LEMMA ArriveIInv ==
  ASSUME IInv, NEW r \in Requests, NEW in \in Served \union Refused,
         (in \in Served /\ Arrive(r, in)) \/ ArriveWithToken(r, in)
  PROVE  IInv'
<1> USE DEF IInv
<1>1. TypeOK'
  BY DEF TypeOK, Arrive, ArriveWithToken, FirstStep, Goto
<1>2. in.op \in {"register", "activate", "login", "invalid", "access", "refused"}
  BY DEF Served, RegisterRequest, ActivateRequest, LoginRequest, InvalidRequest, AccessRequest,
         Refused
<1>3. /\ \A q \in Requests : q # r => pc'[q] = pc[q] /\ req'[q] = req[q]
      /\ pc'[r] \in {"tx", "read", "auth"} /\ req'[r] = in
      /\ in.op = "activate" => pc'[r] # "tx"
      /\ UNCHANGED <<users, snap, target, pend, status, issued>>
  BY <1>2 DEF Arrive, ArriveWithToken, FirstStep, Goto, TypeOK
<1>4. status[r] = 0 /\ pc[r] = "idle" /\ req[r] = NoRequest
  BY DEF Arrive, ArriveWithToken, PendOnCommit
<1>5. PendOnCommit' /\ OwnRows'
  BY <1>3, <1>4 DEF PendOnCommit, OwnRows, NoRequest
<1>6. InsertsFresh'
  BY <1>3 DEF InsertsFresh, PendingInsert, Present
<1>7. SnapshotsHonest' /\ UpdatesLock'
  BY <1>3 DEF SnapshotsHonest, UpdatesLock, Activating, PendingUpdate, Present
<1>8. AnswersTrue'
  BY <1>3, <1>4 DEF AnswersTrue, Answered, Present
<1>9. IdentitiesUnique' /\ CodeAcceptedOnce'
  BY <1>3, <1>4 DEF IdentitiesUnique, CodeAcceptedOnce, Answered, Present
<1> QED
  BY <1>1, <1>5, <1>6, <1>7, <1>8, <1>9

(* Answering a request whose goroutine holds nothing uncommitted keeps the *)
(* invariant, unless the answer is one that AnswersTrue speaks about.      *)
LEMMA AnswerIInv ==
  ASSUME IInv, NEW r \in Requests, NEW s \in {400, 401, 403, 404, 422, 500},
         pc[r] \in {"auth", "read", "tx"}, Answer(r, s),
         UNCHANGED <<users, req, snap, target, pend, issued>>
  PROVE  IInv'
<1> USE DEF IInv
<1>1. TypeOK'
  BY DEF TypeOK, Answer, Goto
<1>2. /\ \A q \in Requests : q # r => pc'[q] = pc[q] /\ status'[q] = status[q]
      /\ pc'[r] = "done" /\ status'[r] = s
      /\ UNCHANGED <<users, req, snap, target, pend, issued>>
  BY DEF Answer, Goto, TypeOK
<1>3. PendOnCommit' /\ OwnRows'
  BY <1>2 DEF PendOnCommit, OwnRows
<1>4. InsertsFresh'
  BY <1>2 DEF InsertsFresh, PendingInsert, Present
<1>5. SnapshotsHonest' /\ UpdatesLock'
  BY <1>2 DEF SnapshotsHonest, UpdatesLock, Activating, PendingUpdate, Present
<1>6. AnswersTrue' /\ CodeAcceptedOnce'
  BY <1>2 DEF AnswersTrue, CodeAcceptedOnce, Answered, Present
<1>7. IdentitiesUnique'
  BY <1>2 DEF IdentitiesUnique, Present
<1> QED
  BY <1>1, <1>3, <1>4, <1>5, <1>6, <1>7

LEMMA RefuseIInv ==
  ASSUME IInv, NEW r \in Requests, NEW in \in Refused, Refuse(r, in)
  PROVE  IInv'
<1> USE DEF IInv
<1>1. PICK s \in {400, 401, 422, 500} : Answer(r, s)
  BY DEF Refuse, InputRefused, TokenRefused
<1>2. TypeOK'
  BY <1>1 DEF TypeOK, Refuse, Answer, Goto
<1>3. /\ \A q \in Requests : q # r =>
            pc'[q] = pc[q] /\ status'[q] = status[q] /\ req'[q] = req[q]
      /\ pc[r] = "idle" /\ pc'[r] = "done" /\ req'[r].op = "refused"
      /\ UNCHANGED <<users, snap, target, pend, issued>>
  BY <1>1 DEF Refuse, Refused, Answer, Goto, TypeOK
<1>4. PendOnCommit' /\ OwnRows'
  BY <1>3 DEF PendOnCommit, OwnRows, NoRequest
<1>5. InsertsFresh'
  BY <1>3 DEF InsertsFresh, PendingInsert, Present
<1>6. SnapshotsHonest' /\ UpdatesLock'
  BY <1>3 DEF SnapshotsHonest, UpdatesLock, Activating, PendingUpdate, Present
<1>7. AnswersTrue' /\ CodeAcceptedOnce'
  BY <1>3 DEF AnswersTrue, CodeAcceptedOnce, Answered, Present
<1>8. IdentitiesUnique'
  BY <1>3 DEF IdentitiesUnique, Present
<1> QED
  BY <1>2, <1>4, <1>5, <1>6, <1>7, <1>8

LEMMA LoginStatuses ==
  \A r : LoginStatus(r) = 201 \/ LoginStatus(r) \in {403, 500}
BY DEF LoginStatus

LEMMA AccessStatuses ==
  \A r : AccessStatus(r) = 200 \/ AccessStatus(r) \in {403, 404}
BY DEF AccessStatus

(* A login or an access may answer 201 or 200 too, but it is neither a     *)
(* registration nor an activation.                                         *)
LEMMA LookupIInv ==
  ASSUME IInv, NEW r \in Requests, Login(r) \/ Access(r)
  PROVE  IInv'
<1> USE DEF IInv
<1>1. PICK s \in {200, 201, 403, 404, 500} : Answer(r, s)
  BY LoginStatuses, AccessStatuses DEF Login, Access
<1>2. TypeOK'
  BY <1>1 DEF TypeOK, Login, Access, Answer, Goto
<1>3. /\ \A q \in Requests : q # r => pc'[q] = pc[q] /\ status'[q] = status[q]
      /\ pc[r] \in {"auth", "read"} /\ pc'[r] = "done" /\ req[r].op \in {"login", "access"}
      /\ UNCHANGED <<users, req, snap, target, pend, issued>>
  BY <1>1 DEF Login, Access, Answer, Goto, TypeOK
<1>4. PendOnCommit' /\ OwnRows'
  BY <1>3 DEF PendOnCommit, OwnRows
<1>5. InsertsFresh'
  BY <1>3 DEF InsertsFresh, PendingInsert, Present
<1>6. SnapshotsHonest' /\ UpdatesLock'
  BY <1>3 DEF SnapshotsHonest, UpdatesLock, Activating, PendingUpdate, Present
<1>7. AnswersTrue' /\ CodeAcceptedOnce'
  BY <1>3 DEF AnswersTrue, CodeAcceptedOnce, Answered, Present
<1>8. IdentitiesUnique'
  BY <1>3 DEF IdentitiesUnique, Present
<1> QED
  BY <1>2, <1>4, <1>5, <1>6, <1>7, <1>8

(* The handlers that only answer: a duplicate, an invalid registration, no *)
(* such row, no such user, a failure.                                      *)
LEMMA RejectIInv ==
  ASSUME IInv, NEW r \in Requests,
         \/ InsertDuplicate(r) \/ SaveInvalid(r) \/ ActivateNotFound(r)
         \/ AuthenticateUnknown(r) \/ StatementFails(r)
  PROVE  IInv'
BY AnswerIInv DEF InsertDuplicate, SaveInvalid, ActivateNotFound, AuthenticateUnknown, StatementFails

(* After the lookup of its token a request stands where it would stand if  *)
(* it had come without one.                                                *)
LEMMA AuthenticateIInv ==
  ASSUME IInv, NEW r \in Requests, Authenticate(r)
  PROVE  IInv'
<1>1. CASE req[r].op = "refused"
  <2>1. PICK s \in {400, 422, 500} : Answer(r, s)
    BY <1>1 DEF Authenticate, InputRefused
  <2> QED
    BY <2>1, AnswerIInv DEF Authenticate
<1>2. CASE req[r].op # "refused"
  <2> USE DEF IInv
  <2>1. /\ \A q \in Requests : q # r => pc'[q] = pc[q]
        /\ pc[r] = "auth" /\ pc'[r] \in {"tx", "read"}
        /\ req[r].op = "activate" => pc'[r] = "read"
        /\ UNCHANGED <<users, req, snap, target, pend, status, issued>>
    BY <1>2 DEF Authenticate, FirstStep, Goto, TypeOK
  <2>2. TypeOK'
    BY <1>2 DEF TypeOK, Authenticate, FirstStep, Goto
  <2>3. PendOnCommit' /\ OwnRows'
    BY <2>1 DEF PendOnCommit, OwnRows
  <2>4. InsertsFresh'
    BY <2>1 DEF InsertsFresh, PendingInsert, Present
  <2>5. SnapshotsHonest' /\ UpdatesLock'
    BY <2>1 DEF SnapshotsHonest, UpdatesLock, Activating, PendingUpdate, Present
  <2>6. AnswersTrue' /\ CodeAcceptedOnce' /\ IdentitiesUnique'
    BY <2>1 DEF AnswersTrue, CodeAcceptedOnce, IdentitiesUnique, Answered, Present
  <2> QED
    BY <2>2, <2>3, <2>4, <2>5, <2>6
<1> QED
  BY <1>1, <1>2

(* The unique indexes are what keeps an INSERT apart from every other row. *)
LEMMA InsertIInv ==
  ASSUME IInv, NEW r \in Requests, Insert(r)
  PROVE  IInv'
<1> USE DEF IInv
<1>1. PICK c \in Codes : pend' = [pend EXCEPT ![r] = InsertRow(r, c)]
                        /\ issued' = [issued EXCEPT ![r] = c]
  BY DEF Insert
<1>2. /\ pc[r] = "tx" /\ req[r].op = "register" /\ pc'[r] = "commit"
      /\ \A q \in Requests : q # r => pc'[q] = pc[q] /\ pend'[q] = pend[q]
      /\ pend'[r] = InsertRow(r, c)
      /\ UNCHANGED <<users, req, snap, target, status>>
  BY <1>1 DEF Insert, Goto, TypeOK
<1>3. req[r] \in RegisterRequest
  BY <1>2 DEF TypeOK, Served, ActivateRequest, LoginRequest, InvalidRequest, AccessRequest,
     Refused, NoRequest
<1>4. InsertRow(r, c) \in Row /\ SameIdentity(InsertRow(r, c), req[r])
      /\ ~ InsertRow(r, c).activated
  BY <1>3 DEF InsertRow, Row, RegisterRequest, SameIdentity
<1>5. TypeOK'
  BY <1>1, <1>4 DEF TypeOK, Insert, Goto
<1>6. PendOnCommit' /\ OwnRows'
  BY <1>2, <1>4 DEF PendOnCommit, OwnRows
<1>7. InsertsFresh'
  <2>1. \A id \in Present :
           users[id].email # req[r].email /\ users[id].phone # req[r].phone
    BY DEF Insert, EmailTaken, PhoneTaken
  <2>2. \A q \in Requests \ {r} : PendingInsert(q) =>
           pend[q].email # req[r].email /\ pend[q].phone # req[r].phone
    BY NoRowIsNoRow DEF Insert, EmailReserved, PhoneReserved, PendingInsert, PendOnCommit
  <2> QED
    BY <1>2, <1>4, <2>1, <2>2 DEF InsertsFresh, PendingInsert, Present, SameIdentity
<1>8. SnapshotsHonest' /\ UpdatesLock'
  BY <1>2 DEF SnapshotsHonest, UpdatesLock, Activating, PendingUpdate, Present
<1>9. AnswersTrue' /\ CodeAcceptedOnce'
  BY <1>2 DEF AnswersTrue, CodeAcceptedOnce, Answered, Present
<1>10. IdentitiesUnique'
  BY <1>2 DEF IdentitiesUnique, Present
<1> QED
  BY <1>5, <1>6, <1>7, <1>8, <1>9, <1>10

LEMMA ActivateReadIInv ==
  ASSUME IInv, NEW r \in Requests, ActivateRead(r)
  PROVE  IInv'
<1> USE DEF IInv
<1>1. PICK id \in WithCodAndEmail(req[r].cod, req[r].email) :
         snap' = [snap EXCEPT ![r] = users[id]] /\ target' = [target EXCEPT ![r] = id]
  BY DEF ActivateRead
<1>2. /\ id \in Present /\ id \in Requests /\ users[id] \in Row
      /\ users[id].email = req[r].email /\ users[id].cod = req[r].cod
  BY <1>1 DEF WithCodAndEmail, WithEmail, Present, TypeOK
<1>3. /\ pc[r] = "read" /\ req[r].op = "activate" /\ pc'[r] = "tx"
      /\ \A q \in Requests : q # r =>
            pc'[q] = pc[q] /\ snap'[q] = snap[q] /\ target'[q] = target[q]
      /\ snap'[r] = users[id] /\ target'[r] = id
      /\ UNCHANGED <<users, req, pend, status, issued>>
  BY <1>1, <1>2 DEF ActivateRead, Goto, TypeOK
<1>4. TypeOK'
  BY <1>1, <1>2 DEF TypeOK, ActivateRead, Goto
<1>5. PendOnCommit' /\ OwnRows'
  BY <1>3 DEF PendOnCommit, OwnRows
<1>6. InsertsFresh'
  BY <1>3 DEF InsertsFresh, PendingInsert, Present
<1>7. SnapshotsHonest'
  BY <1>2, <1>3 DEF SnapshotsHonest, Activating, Present, SameIdentity, Row
<1>8. UpdatesLock'
  BY <1>3 DEF UpdatesLock, PendingUpdate
<1>9. AnswersTrue' /\ CodeAcceptedOnce'
  BY <1>3 DEF AnswersTrue, CodeAcceptedOnce, Answered, Present, PendOnCommit
<1>10. IdentitiesUnique'
  BY <1>3 DEF IdentitiesUnique, Present
<1> QED
  BY <1>4, <1>5, <1>6, <1>7, <1>8, <1>9, <1>10

LEMMA UpdateIInv ==
  ASSUME IInv, NEW r \in Requests, Update(r)
  PROVE  IInv'
<1> USE DEF IInv
<1>1. /\ pc[r] = "tx" /\ req[r].op = "activate" /\ pc'[r] = "commit"
      /\ \A q \in Requests : q # r => pc'[q] = pc[q] /\ pend'[q] = pend[q]
      /\ pend'[r] = UpdatedRow(r)
      /\ users[target[r]].version = snap[r].version
      /\ UNCHANGED <<users, req, snap, target, status, issued>>
  BY DEF Update, Goto, TypeOK
<1>2. Activating(r) /\ snap[r] \in Row
  BY <1>1 DEF Activating, SnapshotsHonest
<1>3. /\ UpdatedRow(r) \in Row /\ SameIdentity(UpdatedRow(r), snap[r])
      /\ UpdatedRow(r).cod = 0 /\ UpdatedRow(r).activated
      /\ UpdatedRow(r).version = snap[r].version + 1
  <2>1. snap[r].version + 1 \in Nat \ {0}
    BY <1>2 DEF Row
  <2>2. UpdatedRow(r) = [snap[r] EXCEPT !.activated = TRUE, !.cod = 0,
                                        !.version = snap[r].version + 1]
    BY <1>1 DEF UpdatedRow
  <2>3. UpdatedRow(r) \in Row
    BY <1>2, <2>1, <2>2 DEF Row
  <2> HIDE DEF IInv
  <2>4. SameIdentity(UpdatedRow(r), snap[r]) /\ UpdatedRow(r).cod = 0
        /\ UpdatedRow(r).version = snap[r].version + 1
    BY <1>2, <2>2 DEF Row, SameIdentity
  <2>5. UpdatedRow(r).activated
    BY <1>2, <2>2, Zenon DEF Row
  <2> QED
    BY <2>3, <2>4, <2>5
<1>4. TypeOK'
  BY <1>3 DEF TypeOK, Update, Goto
<1>5. PendOnCommit' /\ OwnRows'
  BY <1>1, <1>3 DEF PendOnCommit, OwnRows
<1>6. InsertsFresh'
  BY <1>1 DEF InsertsFresh, PendingInsert, Present
<1>7. SnapshotsHonest'
  BY <1>1 DEF SnapshotsHonest, Activating, Present
<1>8. UpdatesLock'
  <2>1. \A q \in Requests \ {r} : PendingUpdate(q) => target[q] # target[r]
    BY NoRowIsNoRow DEF Update, Locked, PendingUpdate, PendOnCommit
  <2> QED
    BY <1>1, <1>3, <2>1 DEF UpdatesLock, PendingUpdate
<1>9. AnswersTrue' /\ CodeAcceptedOnce'
  BY <1>1 DEF AnswersTrue, CodeAcceptedOnce, Answered, Present
<1>10. IdentitiesUnique'
  BY <1>1 DEF IdentitiesUnique, Present
<1> QED
  BY <1>4, <1>5, <1>6, <1>7, <1>8, <1>9, <1>10

(* A version that differs from the one read can only be a later one.       *)
LEMMA UpdateConflictIInv ==
  ASSUME IInv, NEW r \in Requests, UpdateConflict(r)
  PROVE  IInv'
<1> USE DEF IInv
<1>1. /\ pc[r] = "tx" /\ req[r].op = "activate" /\ pc'[r] = "done" /\ status'[r] = 409
      /\ \A q \in Requests : q # r => pc'[q] = pc[q] /\ status'[q] = status[q]
      /\ users[target[r]].version # snap[r].version
      /\ UNCHANGED <<users, req, snap, target, pend, issued>>
  BY DEF UpdateConflict, Answer, Goto, TypeOK
<1>2. TypeOK'
  BY DEF TypeOK, UpdateConflict, Answer, Goto
<1>3. target[r] \in Present /\ snap[r] \in Row /\ users[target[r]] \in Row
      /\ snap[r].version \leq users[target[r]].version
  BY <1>1 DEF SnapshotsHonest, Activating, TypeOK, Present
<1>4. users[target[r]].version > snap[r].version
  BY <1>1, <1>3 DEF Row
<1>5. PendOnCommit' /\ OwnRows'
  BY <1>1 DEF PendOnCommit, OwnRows
<1>6. InsertsFresh'
  BY <1>1 DEF InsertsFresh, PendingInsert, Present
<1>7. SnapshotsHonest' /\ UpdatesLock'
  BY <1>1 DEF SnapshotsHonest, UpdatesLock, Activating, PendingUpdate, Present
<1>8. AnswersTrue' /\ CodeAcceptedOnce'
  BY <1>1, <1>3, <1>4 DEF AnswersTrue, CodeAcceptedOnce, Answered, Present
<1>9. IdentitiesUnique'
  BY <1>1 DEF IdentitiesUnique, Present
<1> QED
  BY <1>2, <1>5, <1>6, <1>7, <1>8, <1>9

(* The end of a transaction whose COMMIT took effect, whatever is answered *)
(* (201 or 200, or 500 when the connection broke): its row is written.     *)
CommitWith(r, s) ==
    /\ pc[r] = "commit"
    /\ users' = [users EXCEPT ![target[r]] = pend[r]]
    /\ pend' = [pend EXCEPT ![r] = NoRow]
    /\ Answer(r, s)
    /\ UNCHANGED <<req, snap, target, issued>>

LEMMA CommitShape ==
  ASSUME IInv, NEW r \in Requests, NEW s \in {200, 201, 500}, CommitWith(r, s)
  PROVE  /\ TypeOK'
         /\ pc[r] = "commit" /\ pc'[r] = "done" /\ pend'[r] = NoRow /\ status'[r] = s
         /\ \A q \in Requests : q # r =>
               pc'[q] = pc[q] /\ pend'[q] = pend[q] /\ status'[q] = status[q]
         /\ target[r] \in Requests
         /\ users'[target[r]] = pend[r] /\ pend[r] \in Row /\ pend[r] # NoRow
         /\ \A id \in Requests : id # target[r] => users'[id] = users[id]
         /\ UNCHANGED <<req, snap, target, issued>>
<1>1. pend[r] \in Row /\ pend[r] # NoRow /\ target[r] \in Requests
  BY NoRowIsNoRow DEF IInv, TypeOK, PendOnCommit, CommitWith
<1> QED
  BY <1>1 DEF IInv, TypeOK, CommitWith, Answer, Goto

LEMMA CommitInsertIInv ==
  ASSUME IInv, NEW r \in Requests, NEW s \in {201, 500}, CommitWith(r, s),
         req[r].op = "register"
  PROVE  IInv'
<1> USE DEF IInv
<1>1. /\ TypeOK'
      /\ pc[r] = "commit" /\ pc'[r] = "done" /\ pend'[r] = NoRow /\ status'[r] = s
      /\ \A q \in Requests : q # r =>
            pc'[q] = pc[q] /\ pend'[q] = pend[q] /\ status'[q] = status[q]
      /\ target[r] = r /\ users[r] = NoRow
      /\ users'[r] = pend[r] /\ pend[r] \in Row /\ pend[r] # NoRow
      /\ \A id \in Requests : id # r => users'[id] = users[id]
      /\ UNCHANGED <<req, snap, target, issued>>
  BY CommitShape DEF OwnRows
<1>2. /\ Present' = Present \union {r} /\ r \notin Present
      /\ \A id \in Present : users'[id] = users[id]
  BY <1>1 DEF Present
<1>3. /\ SameIdentity(pend[r], req[r])
      /\ \A id \in Present :
            users[id].email # pend[r].email /\ users[id].phone # pend[r].phone
      /\ \A q \in Requests \ {r} : PendingInsert(q) =>
            pend[q].email # pend[r].email /\ pend[q].phone # pend[r].phone
  BY <1>1 DEF InsertsFresh, PendingInsert
<1>4. PendOnCommit' /\ OwnRows'
  BY <1>1 DEF PendOnCommit, OwnRows
<1>5. InsertsFresh'
  BY <1>1, <1>2, <1>3 DEF InsertsFresh, PendingInsert
<1>6. SnapshotsHonest'
  BY <1>1, <1>2 DEF SnapshotsHonest, Activating
<1>7. UpdatesLock'
  <2>1. \A q \in Requests : PendingUpdate(q) => target[q] \in Present
    BY DEF SnapshotsHonest, Activating, PendingUpdate
  <2> QED
    BY <1>1, <1>2, <2>1 DEF UpdatesLock, PendingUpdate
<1>8. AnswersTrue'
  BY <1>1, <1>2, <1>3 DEF AnswersTrue, Answered, SameIdentity
<1>9. IdentitiesUnique'
  BY <1>1, <1>2, <1>3 DEF IdentitiesUnique
<1>10. CodeAcceptedOnce'
  BY <1>1 DEF CodeAcceptedOnce, Answered
<1> QED
  BY <1>1, <1>4, <1>5, <1>6, <1>7, <1>8, <1>9, <1>10

LEMMA CommitUpdateIInv ==
  ASSUME IInv, NEW r \in Requests, NEW s \in {200, 500}, CommitWith(r, s),
         req[r].op = "activate"
  PROVE  IInv'
<1> USE DEF IInv
<1> DEFINE t == target[r]
<1>1. /\ TypeOK'
      /\ pc[r] = "commit" /\ pc'[r] = "done" /\ pend'[r] = NoRow /\ status'[r] = s
      /\ \A q \in Requests : q # r =>
            pc'[q] = pc[q] /\ pend'[q] = pend[q] /\ status'[q] = status[q]
      /\ t \in Requests /\ users'[t] = pend[r] /\ pend[r] \in Row /\ pend[r] # NoRow
      /\ \A id \in Requests : id # t => users'[id] = users[id]
      /\ UNCHANGED <<req, snap, target, issued>>
  BY CommitShape
<1>2. /\ t \in Present /\ users[t] \in Row
      /\ SameIdentity(pend[r], users[t])
      /\ users[t].version = snap[r].version /\ snap[r] = users[t]
      /\ pend[r].cod = 0 /\ pend[r].activated
      /\ pend[r].version = users[t].version + 1
      /\ users[t].email = req[r].email /\ users[t].cod = req[r].cod
  BY <1>1 DEF SnapshotsHonest, UpdatesLock, Activating, PendingUpdate, SameIdentity, Present, TypeOK
<1>3. pend[r].version > users[t].version
  BY <1>2 DEF Row
<1>4. /\ Present' = Present
      /\ \A id \in Present : SameIdentity(users'[id], users[id])
  BY <1>1, <1>2 DEF Present, SameIdentity
<1>5. PendOnCommit' /\ OwnRows'
  BY <1>1, <1>2 DEF PendOnCommit, OwnRows, Present
<1>6. InsertsFresh'
  BY <1>1, <1>4 DEF InsertsFresh, PendingInsert, SameIdentity
<1>7. SnapshotsHonest'
  <2> SUFFICES ASSUME NEW q \in Requests, Activating(q)'
               PROVE  /\ target[q] \in Present' /\ snap[q] \in Row
                      /\ SameIdentity(snap[q], users'[target[q]])
                      /\ snap[q].email = req[q].email /\ snap[q].cod = req[q].cod
                      /\ snap[q].version \leq users'[target[q]].version
                      /\ snap[q].version = users'[target[q]].version
                            => snap[q] = users'[target[q]]
    BY <1>1 DEF SnapshotsHonest, Activating
  <2>1. /\ q # r /\ target[q] \in Present /\ snap[q] \in Row
        /\ SameIdentity(snap[q], users[target[q]])
        /\ snap[q].email = req[q].email /\ snap[q].cod = req[q].cod
        /\ snap[q].version \leq users[target[q]].version
        /\ snap[q].version = users[target[q]].version => snap[q] = users[target[q]]
    BY <1>1 DEF SnapshotsHonest, Activating
  <2>2. CASE target[q] # t
    BY <1>1, <1>4, <2>1, <2>2 DEF TypeOK
  <2>3. CASE target[q] = t
    <3>1. snap[q].version \leq users'[t].version /\ snap[q].version # users'[t].version
      BY <1>1, <1>2, <1>3, <2>1, <2>3 DEF Row
    <3>2. SameIdentity(users'[t], users[t]) /\ t \in Present'
      BY <1>2, <1>4
    <3>3. SameIdentity(snap[q], users[t])
      BY <2>1, <2>3
    <3>4. SameIdentity(snap[q], users'[t])
      BY <3>2, <3>3 DEF SameIdentity
    <3> QED
      BY <2>1, <2>3, <3>1, <3>2, <3>4
  <2> QED
    BY <2>2, <2>3
<1>8. UpdatesLock'
  <2>1. \A q \in Requests \ {r} : PendingUpdate(q) => target[q] # t /\ target[q] \in Requests
    BY <1>1 DEF UpdatesLock, PendingUpdate, TypeOK
  <2> QED
    BY <1>1, <2>1 DEF UpdatesLock, PendingUpdate
<1>9. AnswersTrue'
  <2> SUFFICES ASSUME NEW q \in Requests
               PROVE  /\ Answered(q, "register", 201)' =>
                            users'[q] # NoRow /\ SameIdentity(users'[q], req[q])
                      /\ Answered(q, "activate", 200)' =>
                            /\ target[q] \in Present'
                            /\ users'[target[q]].email = req[q].email
                            /\ users'[target[q]].activated /\ users'[target[q]].cod = 0
                      /\ Answered(q, "activate", 409)' =>
                            /\ target[q] \in Present' /\ snap[q] \in Row
                            /\ users'[target[q]].version > snap[q].version
    BY <1>1 DEF AnswersTrue
  <2>1. CASE q = r
    BY <1>1, <1>2, <2>1 DEF Answered, Present, SameIdentity
  <2>2. CASE q # r
    <3>1. Answered(q, "register", 201)' =>
             users'[q] # NoRow /\ SameIdentity(users'[q], req[q])
      BY <1>1, <1>4, <2>2 DEF AnswersTrue, Answered, Present, SameIdentity
    <3>2. Answered(q, "activate", 200)' =>
             /\ target[q] \in Present'
             /\ users'[target[q]].email = req[q].email
             /\ users'[target[q]].activated /\ users'[target[q]].cod = 0
      BY <1>1, <1>2, <1>4, <2>2 DEF AnswersTrue, Answered, Present, SameIdentity
    <3>3. Answered(q, "activate", 409)' =>
             /\ target[q] \in Present' /\ snap[q] \in Row
             /\ users'[target[q]].version > snap[q].version
      <4> SUFFICES ASSUME Answered(q, "activate", 409)
                   PROVE  /\ target[q] \in Present' /\ snap[q] \in Row
                          /\ users'[target[q]].version > snap[q].version
        BY <1>1, <2>2 DEF Answered
      <4>1. /\ target[q] \in Present /\ snap[q] \in Row
            /\ users[target[q]].version > snap[q].version
        BY DEF AnswersTrue
      <4>2. CASE target[q] = t
        BY <1>1, <1>2, <1>3, <1>4, <4>1, <4>2 DEF Row
      <4>3. CASE target[q] # t
        BY <1>1, <1>4, <4>1, <4>3 DEF Present
      <4> QED
        BY <4>2, <4>3
    <3> QED
      BY <3>1, <3>2, <3>3
  <2> QED
    BY <2>1, <2>2
<1>10. IdentitiesUnique'
  BY <1>4 DEF IdentitiesUnique, SameIdentity
<1>11. CodeAcceptedOnce'
  <2>1. \A q \in Requests : Answered(q, "activate", 200) /\ target[q] = t => req[r].cod = 0
    BY <1>2 DEF AnswersTrue
  <2>2. 0 \notin Codes
    BY CodesPositive
  <2> QED
    BY <1>1, <2>1, <2>2 DEF CodeAcceptedOnce, Answered
<1> QED
  BY <1>1, <1>5, <1>6, <1>7, <1>8, <1>9, <1>10, <1>11

LEMMA CommitIInv ==
  ASSUME IInv, NEW r \in Requests, Commit(r)
  PROVE  IInv'
<1>1. pc[r] = "commit" /\ req[r].op \in {"register", "activate"}
  BY DEF Commit, IInv, PendOnCommit
<1>2. CASE req[r].op = "register"
  <2>1. CommitWith(r, 201)
    BY <1>2 DEF Commit, CommitWith
  <2> QED
    BY <1>2, <2>1, CommitInsertIInv
<1>3. CASE req[r].op = "activate"
  <2>1. CommitWith(r, 200)
    BY <1>3 DEF Commit, CommitWith
  <2> QED
    BY <1>3, <2>1, CommitUpdateIInv
<1> QED
  BY <1>1, <1>2, <1>3

(* A COMMIT that did not take effect only drops what was not committed.    *)
LEMMA CommitLostIInv ==
  ASSUME IInv, NEW r \in Requests, CommitLost(r)
  PROVE  IInv'
<1> USE DEF IInv
<1>1. CASE users' = [users EXCEPT ![target[r]] = pend[r]]
  <2>1. CommitWith(r, 500)
    BY <1>1 DEF CommitLost, CommitWith
  <2>2. req[r].op \in {"register", "activate"}
    BY DEF CommitLost, PendOnCommit
  <2> QED
    BY <2>1, <2>2, CommitInsertIInv, CommitUpdateIInv
<1>2. CASE UNCHANGED users
  <2>1. TypeOK'
    BY <1>2 DEF TypeOK, CommitLost, Answer, Goto
  <2>2. /\ pc[r] = "commit" /\ pc'[r] = "done" /\ pend'[r] = NoRow /\ status'[r] = 500
        /\ \A q \in Requests : q # r =>
              pc'[q] = pc[q] /\ pend'[q] = pend[q] /\ status'[q] = status[q]
        /\ UNCHANGED <<users, req, snap, target, issued>>
    BY <1>2 DEF TypeOK, CommitLost, Answer, Goto
  <2>3. PendOnCommit' /\ OwnRows'
    BY <2>2 DEF PendOnCommit, OwnRows
  <2>4. InsertsFresh'
    BY <2>2 DEF InsertsFresh, PendingInsert, Present
  <2>5. SnapshotsHonest'
    BY <2>2 DEF SnapshotsHonest, Activating, Present
  <2>6. UpdatesLock'
    BY <2>2 DEF UpdatesLock, PendingUpdate
  <2>7. AnswersTrue' /\ CodeAcceptedOnce'
    BY <2>2 DEF AnswersTrue, CodeAcceptedOnce, Answered, Present
  <2>8. IdentitiesUnique'
    BY <2>2 DEF IdentitiesUnique, Present
  <2> QED
    BY <2>1, <2>3, <2>4, <2>5, <2>6, <2>7, <2>8
<1> QED
  BY <1>1, <1>2 DEF CommitLost

LEMMA CrashIInv ==
  ASSUME IInv, Crash
  PROVE  IInv'
<1> USE DEF IInv
<1>1. TypeOK'
  BY DEF TypeOK, Crash, InFlight
<1>2. /\ \A q \in Requests : pc'[q] = (IF InFlight(q) THEN "lost" ELSE pc[q]) /\ pend'[q] = NoRow
      /\ UNCHANGED <<users, req, snap, target, status, issued>>
  BY DEF Crash
<1>3. PendOnCommit' /\ OwnRows'
  BY <1>2 DEF PendOnCommit, OwnRows, InFlight
<1>4. InsertsFresh'
  BY <1>2 DEF InsertsFresh, PendingInsert, InFlight
<1>5. SnapshotsHonest' /\ UpdatesLock'
  BY <1>2 DEF SnapshotsHonest, UpdatesLock, Activating, PendingUpdate, InFlight
<1>6. AnswersTrue' /\ CodeAcceptedOnce'
  BY <1>2 DEF AnswersTrue, CodeAcceptedOnce, Answered, Present
<1>7. IdentitiesUnique'
  BY <1>2 DEF IdentitiesUnique, Present
<1> QED
  BY <1>1, <1>3, <1>4, <1>5, <1>6, <1>7

LEMMA NextIInv == IInv /\ [Next]_vars => IInv'
<1> SUFFICES ASSUME IInv, [Next]_vars PROVE IInv'
  OBVIOUS
<1>1. CASE UNCHANGED vars
  BY <1>1 DEF vars, IInv, TypeOK, PendOnCommit, OwnRows, InsertsFresh, SnapshotsHonest,
              UpdatesLock, AnswersTrue, IdentitiesUnique, CodeAcceptedOnce, PendingInsert,
              PendingUpdate, Activating, Answered, Present
<1>2. ASSUME NEW r \in Requests, NEW in \in Served \union Refused,
             (in \in Served /\ Arrive(r, in)) \/ ArriveWithToken(r, in)
      PROVE  IInv'
  BY <1>2, ArriveIInv
<1>3. ASSUME NEW r \in Requests, NEW in \in Refused, Refuse(r, in) PROVE IInv'
  BY <1>3, RefuseIInv
<1>4. ASSUME NEW r \in Requests, Progress(r) PROVE IInv'
  BY <1>4, AuthenticateIInv, InsertIInv, RejectIInv, ActivateReadIInv, UpdateIInv, UpdateConflictIInv,
     CommitIInv, LookupIInv DEF Progress
<1>5. ASSUME NEW r \in Requests, CommitLost(r) \/ StatementFails(r) PROVE IInv'
  BY <1>5, CommitLostIInv, RejectIInv
<1>6. CASE Crash
  BY <1>6, CrashIInv
<1> QED
  BY <1>1, <1>2, <1>3, <1>4, <1>5, <1>6 DEF Next

(* The inductive invariant holds in every reachable state.                 *)
THEOREM InductiveInvariant == Spec => []IInv
BY InitIInv, NextIInv, PTL DEF Spec

(* Every variable keeps its type.                                          *)
THEOREM TypeCorrect == Spec => []TypeOK
<1>1. IInv => TypeOK
  BY DEF IInv
<1> QED
  BY <1>1, InductiveInvariant, PTL

(* No two accounts ever share an e-mail or a phone, for any number of      *)
(* concurrent registrations and activations.                               *)
THEOREM NoSharedIdentity == Spec => []IdentitiesUnique
<1>1. IInv => IdentitiesUnique
  BY DEF IInv
<1> QED
  BY <1>1, InductiveInvariant, PTL

(* At most one of any number of concurrent activations that carry the      *)
(* account's code succeeds.                                                *)
THEOREM CodeWorksOnce == Spec => []CodeAcceptedOnce
<1>1. IInv => CodeAcceptedOnce
  BY DEF IInv
<1> QED
  BY <1>1, InductiveInvariant, PTL

(* A 409 is only ever given to an activation that really was overtaken.    *)
THEOREM ConflictsAreReal == Spec => []ConflictMeansRival
<1>1. IInv => ConflictMeansRival
  BY DEF IInv, AnswersTrue, ConflictMeansRival
<1> QED
  BY <1>1, InductiveInvariant, PTL

(* What the service has reported as done stays done.                       *)
THEOREM AnswersDurable == Spec => []AckedIsDurable
<1>1. IInv => AckedIsDurable
  <2> SUFFICES ASSUME IInv, NEW r \in Requests
               PROVE  /\ Answered(r, "register", 201) =>
                            \E id \in WithEmail(req[r].email) :
                                /\ users[id].phone = req[r].phone
                                /\ users[id].password = req[r].password
                      /\ Answered(r, "activate", 200) =>
                            \E id \in WithEmail(req[r].email) : users[id].activated
    BY DEF AckedIsDurable
  <2>1. Answered(r, "register", 201) => users[r] # NoRow /\ SameIdentity(users[r], req[r])
    BY DEF IInv, AnswersTrue
  <2>2. Answered(r, "activate", 200) =>
           /\ target[r] \in Present
           /\ users[target[r]].email = req[r].email /\ users[target[r]].activated
    BY DEF IInv, AnswersTrue
  <2> QED
    BY <2>1, <2>2 DEF WithEmail, Present, SameIdentity
<1> QED
  BY <1>1, InductiveInvariant, PTL

-----------------------------------------------------------------------------
(***************************************************************************)
(* Accounts implements AccountLifecycle.  Only a COMMIT that took effect   *)
(* is visible: that of an INSERT is a Register, that of an UPDATE is an    *)
(* Activate, or nothing when the row was active already (code 0).          *)
(***************************************************************************)
LEMMA CommitInsertRegisters ==
  ASSUME IInv, NEW r \in Requests, NEW s \in {201, 500}, CommitWith(r, s),
         req[r].op = "register"
  PROVE  \E a \in Lifecycle!Account : Lifecycle!Register(a)
<1>1. /\ r \notin Present /\ users'[r] = pend[r] /\ pend[r] \in Row /\ pend[r] # NoRow
      /\ \A id \in Requests : id # r => users'[id] = users[id]
      /\ pc[r] = "commit"
  BY CommitShape DEF IInv, OwnRows, Present
<1>2. /\ ~ pend[r].activated
      /\ \A id \in Present :
            users[id].email # pend[r].email /\ users[id].phone # pend[r].phone
  BY <1>1 DEF IInv, InsertsFresh, PendingInsert
<1>3. Present' = Present \union {r}
  BY <1>1 DEF Present
<1>4. AccountsOf' = AccountsOf \union {AccountOf(pend[r])}
  <2>1. \A id \in Present : id # r /\ users'[id] = users[id]
    BY <1>1 DEF Present
  <2> QED
    BY <1>1, <1>3, <2>1 DEF AccountsOf
<1>5. AccountOf(pend[r]) \in Lifecycle!Account
  BY <1>1 DEF AccountOf, Row, Lifecycle!Account
<1>6. ~ AccountOf(pend[r]).activated
  BY <1>2 DEF AccountOf
<1>7. ASSUME NEW b \in AccountsOf
      PROVE  b.email # AccountOf(pend[r]).email /\ b.phone # AccountOf(pend[r]).phone
  <2>1. PICK id \in Present : b = AccountOf(users[id])
    BY DEF AccountsOf
  <2>2. b.email = users[id].email /\ b.phone = users[id].phone
    BY <2>1 DEF AccountOf
  <2>3. AccountOf(pend[r]).email = pend[r].email /\ AccountOf(pend[r]).phone = pend[r].phone
    BY DEF AccountOf
  <2> QED
    BY <1>2, <2>2, <2>3
<1> QED
  BY <1>4, <1>5, <1>6, <1>7 DEF Lifecycle!Register

LEMMA CommitUpdateActivates ==
  ASSUME IInv, NEW r \in Requests, NEW s \in {200, 500}, CommitWith(r, s),
         req[r].op = "activate"
  PROVE  \/ \E a \in AccountsOf : Lifecycle!Activate(a)
         \/ UNCHANGED AccountsOf
<1> DEFINE t == target[r]
<1>1. /\ users'[t] = pend[r] /\ pend[r] \in Row /\ pend[r] # NoRow /\ t \in Requests
      /\ \A id \in Requests : id # t => users'[id] = users[id]
      /\ pc[r] = "commit"
  BY CommitShape
<1>2. /\ t \in Present /\ users[t] \in Row
      /\ SameIdentity(pend[r], users[t]) /\ pend[r].activated
  BY <1>1 DEF IInv, SnapshotsHonest, UpdatesLock, Activating, PendingUpdate, SameIdentity,
              Present, TypeOK
<1>3. Present' = Present
  BY <1>1, <1>2 DEF Present
<1>4. users[t].activated \in BOOLEAN /\ pend[r].activated = TRUE
  <2>1. \A row \in Row : row.activated \in BOOLEAN
    BY Zenon DEF Row
  <2> QED
    BY <1>1, <1>2, <2>1, Zenon
<1>5. AccountOf(pend[r]) = Lifecycle!Active(AccountOf(users[t]))
  <2>1. Lifecycle!Active(AccountOf(users[t])) =
           [email |-> users[t].email, phone |-> users[t].phone,
            password |-> users[t].password, activated |-> TRUE]
    BY DEF AccountOf, Lifecycle!Active
  <2> QED
    BY <1>2, <1>4, <2>1, Zenon DEF AccountOf, SameIdentity
<1>6. AccountsOf' = (AccountsOf \ {AccountOf(users[t])}) \union {AccountOf(pend[r])}
  <2>1. \A id \in Present : id # t =>
           users'[id] = users[id] /\ AccountOf(users[id]) # AccountOf(users[t])
    <3>1. \A id \in Present : id # t => users[id].email # users[t].email
      BY <1>2 DEF IInv, IdentitiesUnique
    <3> QED
      BY <1>1, <3>1 DEF AccountOf, Present
  <2> QED
    BY <1>1, <1>2, <1>3, <2>1 DEF AccountsOf
<1>7. AccountOf(users[t]) \in AccountsOf
  BY <1>2 DEF AccountsOf
<1>8. CASE ~ users[t].activated
  <2>1. ~ AccountOf(users[t]).activated
    BY <1>8 DEF AccountOf
  <2>2. Lifecycle!Activate(AccountOf(users[t]))
    BY <1>5, <1>6, <2>1 DEF Lifecycle!Activate
  <2> QED
    BY <1>7, <2>2
<1>9. CASE users[t].activated
  <2>1. users[t].activated = TRUE
    BY <1>4, <1>9, Zenon
  <2>2. AccountOf(pend[r]) = AccountOf(users[t])
    BY <1>2, <1>4, <2>1, Zenon DEF AccountOf, SameIdentity
  <2> QED
    BY <1>6, <1>7, <2>2
<1> QED
  BY <1>8, <1>9

LEMMA LifecycleStep ==
  ASSUME IInv, [Next]_vars
  PROVE  [Lifecycle!Next]_AccountsOf
<1>1. ASSUME UNCHANGED users PROVE UNCHANGED AccountsOf
  BY <1>1 DEF AccountsOf, Present
<1>2. ASSUME NEW r \in Requests, NEW s \in {200, 201, 500}, CommitWith(r, s),
             req[r].op = "register" => s # 200, req[r].op = "activate" => s # 201
      PROVE  [Lifecycle!Next]_AccountsOf
  <2>1. req[r].op \in {"register", "activate"}
    BY <1>2 DEF IInv, PendOnCommit, CommitWith
  <2> QED
    BY <1>2, <2>1, CommitInsertRegisters, CommitUpdateActivates DEF Lifecycle!Next
<1>3. ASSUME NEW r \in Requests, Commit(r) PROVE [Lifecycle!Next]_AccountsOf
  <2> DEFINE s == IF req[r].op = "register" THEN 201 ELSE 200
  <2>1. CommitWith(r, s)
    BY <1>3 DEF Commit, CommitWith
  <2> QED
    BY <1>2, <2>1
<1>4. ASSUME NEW r \in Requests, CommitLost(r) PROVE [Lifecycle!Next]_AccountsOf
  <2>1. UNCHANGED users \/ CommitWith(r, 500)
    BY <1>4 DEF CommitLost, CommitWith
  <2> QED
    BY <1>1, <1>2, <2>1
<1>5. \/ UNCHANGED users
      \/ \E r \in Requests : Commit(r) \/ CommitLost(r)
  BY DEF Next, vars, Arrive, ArriveWithToken, Refuse, Progress, Authenticate,
         AuthenticateUnknown, Insert, InsertDuplicate, SaveInvalid, ActivateRead,
         ActivateNotFound, Update, UpdateConflict, Login, Access, StatementFails,
         Crash
<1> QED
  BY <1>1, <1>3, <1>4, <1>5

(* Whatever requests arrive and however they interleave, fail and crash,   *)
(* the accounts behave as AccountLifecycle says.                           *)
THEOREM ImplementsAccountLifecycle == Spec => ImplementsLifecycle
<1>1. Init => Lifecycle!Init
  BY DEF Init, Lifecycle!Init, AccountsOf, Present
<1>2. IInv /\ [Next]_vars => [Lifecycle!Next]_AccountsOf
  BY LifecycleStep
<1> QED
  BY <1>1, <1>2, InductiveInvariant, PTL DEF Spec, ImplementsLifecycle, Lifecycle!Spec

-----------------------------------------------------------------------------
(***************************************************************************)
(* What codes and tokens are worth, on top of the inductive invariant: an  *)
(* account is active only by the code drawn for it, and whom a login has   *)
(* given a token is let in.                                                *)
(***************************************************************************)
Active(e) == \E id \in Present : users[id].email = e /\ users[id].activated

(* A row that is not active yet still has the code that was drawn for it,  *)
(* and an uncommitted INSERT has it too.                                   *)
CodesDrawn ==
    \A r \in Requests :
        /\ r \in Present => users[r].activated \/ users[r].cod = issued[r]
        /\ PendingInsert(r) => pend[r].cod = issued[r]

(* Behind each token that a login has handed out is an active account.     *)
TokensHonest ==
    \A r \in Requests : Answered(r, "login", 201) => Active(req[r].email)

CredIInv ==
    /\ CodesDrawn
    /\ ActivatedByIssuedCode
    /\ TokensHonest

-----------------------------------------------------------------------------
(***************************************************************************)
(* What a step may do to rows, requests and codes.                         *)
(***************************************************************************)

(* A row appears by the COMMIT of its INSERT, and changes by the COMMIT of *)
(* an activation that carried the code it had.                             *)
Appears(id) ==
    id \notin Present /\ PendingInsert(id) /\ users'[id] = pend[id]

ActivatedBy(id, r) ==
    /\ id \in Present /\ PendingUpdate(r)
    /\ users'[id].email = users[id].email /\ users'[id].activated /\ users'[id] # NoRow
    /\ users[id].email = req[r].email /\ users[id].cod = req[r].cod

RowsStep ==
    \A id \in Requests :
        \/ users'[id] = users[id]
        \/ Appears(id)
        \/ \E r \in Requests : ActivatedBy(id, r)

LEMMA CommitRows ==
  ASSUME IInv, NEW r \in Requests, NEW s \in {200, 201, 500}, CommitWith(r, s)
  PROVE  RowsStep
<1>1. /\ pc[r] = "commit" /\ target[r] \in Requests
      /\ users'[target[r]] = pend[r] /\ pend[r] \in Row /\ pend[r] # NoRow
      /\ \A id \in Requests : id # target[r] => users'[id] = users[id]
  BY CommitShape
<1>2. CASE req[r].op = "register"
  <2>1. target[r] = r /\ users[r] = NoRow
    BY <1>1, <1>2 DEF IInv, OwnRows
  <2>2. Appears(r)
    BY <1>1, <1>2, <2>1 DEF Appears, PendingInsert, Present
  <2> QED
    BY <1>1, <2>1, <2>2 DEF RowsStep
<1>3. CASE req[r].op = "activate"
  <2>1. PendingUpdate(r) /\ Activating(r)
    BY <1>1, <1>3 DEF PendingUpdate, Activating
  <2>2. /\ target[r] \in Present /\ SameIdentity(snap[r], users[target[r]])
        /\ snap[r].email = req[r].email /\ snap[r].cod = req[r].cod
        /\ snap[r].version = users[target[r]].version => snap[r] = users[target[r]]
    BY <2>1 DEF IInv, SnapshotsHonest
  <2>3. /\ users[target[r]].version = snap[r].version
        /\ SameIdentity(pend[r], snap[r]) /\ pend[r].activated
    BY <2>1 DEF IInv, UpdatesLock
  <2>4. snap[r] = users[target[r]] /\ pend[r].email = snap[r].email
    BY <2>2, <2>3 DEF SameIdentity
  <2>5. ActivatedBy(target[r], r)
    BY <1>1, <2>1, <2>2, <2>3, <2>4 DEF ActivatedBy
  <2> QED
    BY <1>1, <2>5 DEF RowsStep
<1>4. req[r].op \in {"register", "activate"}
  BY <1>1 DEF IInv, PendOnCommit
<1> QED
  BY <1>2, <1>3, <1>4

LEMMA StepRows == ASSUME IInv, Next PROVE RowsStep
<1>1. CASE UNCHANGED users
  BY <1>1 DEF RowsStep
<1>2. ASSUME NEW r \in Requests, Commit(r) PROVE RowsStep
  <2>1. \E s \in {200, 201} : CommitWith(r, s)
    BY <1>2 DEF Commit, CommitWith
  <2> QED
    BY <2>1, CommitRows
<1>3. ASSUME NEW r \in Requests, CommitLost(r) PROVE RowsStep
  <2>1. CommitWith(r, 500) \/ UNCHANGED users
    BY <1>3 DEF CommitLost, CommitWith
  <2> QED
    BY <1>1, <2>1, CommitRows
<1> QED
  BY <1>1, <1>2, <1>3 DEF Next, Progress, Arrive, ArriveWithToken, Refuse, Authenticate,
     AuthenticateUnknown, Insert, InsertDuplicate, SaveInvalid, ActivateRead,
     ActivateNotFound, Update, UpdateConflict, Login, Access, StatementFails, Crash

(* A request asks for one thing, once.                                     *)
LEMMA StepRequests ==
  ASSUME IInv, Next, NEW q \in Requests
  PROVE  \/ req'[q] = req[q]
         \/ req[q] = NoRequest /\ (status'[q] = 0 \/ req'[q].op = "refused")
<1>1. CASE UNCHANGED req
  BY <1>1
<1>2. ASSUME NEW r \in Requests, NEW in, Arrive(r, in) \/ ArriveWithToken(r, in)
      PROVE  q = r => req[q] = NoRequest /\ status'[q] = 0
  BY <1>2 DEF Arrive, ArriveWithToken, IInv, PendOnCommit, TypeOK
<1>3. ASSUME NEW r \in Requests, NEW in \in Refused, Refuse(r, in)
      PROVE  q = r => req[q] = NoRequest /\ req'[q].op = "refused"
  BY <1>3 DEF Refuse, Refused, IInv, PendOnCommit, TypeOK
<1>4. \A r \in Requests : \A in :
         Arrive(r, in) \/ ArriveWithToken(r, in) \/ Refuse(r, in) => q = r \/ req'[q] = req[q]
  BY DEF Arrive, ArriveWithToken, Refuse, IInv, TypeOK
<1> QED
  BY <1>1, <1>2, <1>3, <1>4 DEF Next, Progress, Authenticate, AuthenticateUnknown, Insert,
     InsertDuplicate, SaveInvalid, ActivateRead, ActivateNotFound, Update, UpdateConflict,
     Commit, CommitLost, Login, Access, StatementFails, Crash

(* Only Login answers a login 201.                                         *)
LEMMA StepLogins ==
  ASSUME IInv, Next, NEW q \in Requests, req[q].op = "login", status'[q] = 201
  PROVE  status[q] = 201 \/ LoginStatus(q) = 201
<1>1. \A r \in Requests : \A s : Answer(r, s) => status'[q] = IF q = r THEN s ELSE status[q]
  BY DEF Answer, IInv, TypeOK
<1>2. ASSUME NEW r \in Requests, Progress(r) \/ CommitLost(r) \/ StatementFails(r), r # q
      PROVE  status'[q] = status[q]
  BY <1>1, <1>2 DEF Progress, Authenticate, AuthenticateUnknown, Insert, InsertDuplicate,
     SaveInvalid, ActivateRead, ActivateNotFound, Update, UpdateConflict, Commit, CommitLost,
     Login, Access, StatementFails
<1>3. CASE Progress(q)
  <2>1. Login(q) \/ AuthenticateUnknown(q) \/ Authenticate(q)
    BY <1>3 DEF Progress, Insert, InsertDuplicate, SaveInvalid, ActivateRead, ActivateNotFound,
       Update, UpdateConflict, Commit, Access, IInv, PendOnCommit
  <2>2. CASE Login(q)
    BY <1>1, <2>2 DEF Login
  <2>3. CASE AuthenticateUnknown(q)
    BY <1>1, <2>3 DEF AuthenticateUnknown
  <2>4. CASE Authenticate(q)
    BY <2>4 DEF Authenticate
  <2> QED
    BY <2>1, <2>2, <2>3, <2>4
<1>4. CASE CommitLost(q) \/ StatementFails(q)
  BY <1>1, <1>4 DEF CommitLost, StatementFails
<1>5. ASSUME NEW r \in Requests, NEW in, Arrive(r, in) \/ ArriveWithToken(r, in)
      PROVE  status' = status
  BY <1>5 DEF Arrive, ArriveWithToken
<1>6. ASSUME NEW r \in Requests, NEW in \in Refused, Refuse(r, in) PROVE status'[q] = status[q]
  <2>1. r # q
    BY <1>6 DEF Refuse, IInv, PendOnCommit, NoRequest
  <2> QED
    BY <1>1, <1>6, <2>1 DEF Refuse
<1>7. CASE Crash
  BY <1>7 DEF Crash
<1> QED
  BY <1>2, <1>3, <1>4, <1>5, <1>6, <1>7 DEF Next

(* The code of a row is drawn before the row is there.                     *)
LEMMA StepCodes ==
  ASSUME IInv, Next, NEW q \in Requests
  PROVE  \/ issued'[q] = issued[q] /\ (PendingInsert(q)' => PendingInsert(q) /\ pend'[q] = pend[q])
         \/ /\ q \notin Present /\ ~ PendingInsert(q)
            /\ users'[q] = users[q] /\ pend'[q].cod = issued'[q]
<1>1. ASSUME NEW r \in Requests, Insert(r)
      PROVE  IF q = r THEN /\ q \notin Present /\ ~ PendingInsert(q)
                           /\ users'[q] = users[q] /\ pend'[q].cod = issued'[q]
                      ELSE issued'[q] = issued[q] /\ pc'[q] = pc[q] /\ pend'[q] = pend[q]
  <2>1. PICK c \in Codes : pend' = [pend EXCEPT ![r] = InsertRow(r, c)]
                          /\ issued' = [issued EXCEPT ![r] = c]
    BY <1>1 DEF Insert
  <2>2. InsertRow(r, c).cod = c
    BY DEF InsertRow
  <2> QED
    BY <1>1, <2>1, <2>2 DEF Insert, Goto, IInv, TypeOK, OwnRows, Present, PendingInsert
<1>2. ASSUME NEW r \in Requests, Insert(r) PROVE req' = req
  BY <1>2 DEF Insert
<1>3. ASSUME NEW r \in Requests, Progress(r) \/ CommitLost(r) \/ StatementFails(r), ~ Insert(r)
      PROVE  /\ issued'[q] = issued[q] /\ req'[q] = req[q]
             /\ req[q].op = "register" /\ pc'[q] = "commit" =>
                   pc[q] = "commit" /\ pend'[q] = pend[q]
  BY <1>3 DEF Progress, Authenticate, AuthenticateUnknown, FirstStep, InsertDuplicate,
     SaveInvalid, ActivateRead, ActivateNotFound, Update, UpdateConflict, Commit,
     CommitLost, Login, Access, StatementFails, Answer, Goto, IInv, TypeOK
<1>4. ASSUME NEW r \in Requests, NEW in, Arrive(r, in) \/ ArriveWithToken(r, in)
      PROVE  /\ issued'[q] = issued[q] /\ pend'[q] = pend[q]
             /\ pc'[q] = "commit" => pc[q] = "commit" /\ req'[q] = req[q]
  BY <1>4 DEF Arrive, ArriveWithToken, FirstStep, Goto, IInv, TypeOK
<1>5. ASSUME NEW r \in Requests, NEW in \in Refused, Refuse(r, in)
      PROVE  /\ issued'[q] = issued[q] /\ pend'[q] = pend[q]
             /\ pc'[q] = "commit" => pc[q] = "commit" /\ req'[q] = req[q]
  BY <1>5 DEF Refuse, Answer, Goto, IInv, TypeOK
<1>6. CASE Crash
  BY <1>6 DEF Crash, InFlight, PendingInsert
<1> QED
  BY <1>1, <1>2, <1>3, <1>4, <1>5, <1>6 DEF Next, PendingInsert

-----------------------------------------------------------------------------
(* What is active stays active.                                            *)
LEMMA ActiveStays ==
  ASSUME RowsStep, NEW e, Active(e)
  PROVE  Active(e)'
<1>1. PICK id \in Present : users[id].email = e /\ users[id].activated
  BY DEF Active
<1>2. id \in Requests /\ users[id] # NoRow
  BY DEF Present
<1>3. users'[id] # NoRow /\ users'[id].email = e /\ users'[id].activated
  BY <1>1, <1>2 DEF RowsStep, Appears, ActivatedBy
<1> QED
  BY <1>2, <1>3 DEF Active, Present

LEMMA InitCred == Init => CredIInv
BY DEF Init, CredIInv, CodesDrawn, ActivatedByIssuedCode, TokensHonest,
       Present, PendingInsert, Answered, NoRequest

LEMMA CodesStep ==
  ASSUME IInv, CredIInv, Next
  PROVE  CodesDrawn'
<1> SUFFICES ASSUME NEW q \in Requests
             PROVE  /\ (q \in Present)' => users'[q].activated \/ users'[q].cod = issued'[q]
                    /\ PendingInsert(q)' => pend'[q].cod = issued'[q]
  BY DEF CodesDrawn
<1>1. RowsStep
  BY StepRows
<1>2. /\ q \in Present => users[q].activated \/ users[q].cod = issued[q]
      /\ PendingInsert(q) => pend[q].cod = issued[q]
  BY DEF CredIInv, CodesDrawn
<1>3. CASE issued'[q] = issued[q] /\ (PendingInsert(q)' => PendingInsert(q) /\ pend'[q] = pend[q])
  <2>1. PendingInsert(q)' => pend'[q].cod = issued'[q]
    BY <1>2, <1>3
  <2>2. CASE users'[q] = users[q]
    BY <1>2, <1>3, <2>1, <2>2 DEF Present
  <2>3. CASE Appears(q)
    BY <1>2, <1>3, <2>1, <2>3 DEF Appears
  <2>4. CASE \E r \in Requests : ActivatedBy(q, r)
    BY <2>1, <2>4 DEF ActivatedBy
  <2> QED
    BY <1>1, <2>2, <2>3, <2>4 DEF RowsStep
<1>4. CASE /\ q \notin Present /\ ~ PendingInsert(q)
           /\ users'[q] = users[q] /\ pend'[q].cod = issued'[q]
  BY <1>4 DEF Present
<1> QED
  BY <1>3, <1>4, StepCodes

LEMMA ActivatedStep ==
  ASSUME IInv, CredIInv, Next
  PROVE  ActivatedByIssuedCode'
<1> SUFFICES ASSUME NEW id \in Requests, (id \in Present)', users'[id].activated
             PROVE  \E r \in Requests :
                       /\ req'[r].op = "activate" /\ req'[r].email = users'[id].email
                       /\ req'[r].cod = issued'[id]
  BY DEF ActivatedByIssuedCode, Present
<1>1. RowsStep
  BY StepRows
<1>2. \A r \in Requests : req[r].op = "activate" => req'[r] = req[r]
  BY StepRequests DEF NoRequest
<1>3. id \in Present => issued'[id] = issued[id]
  BY StepCodes
<1>4. ASSUME id \in Present, users[id].activated, users'[id].email = users[id].email
      PROVE  \E r \in Requests :
                /\ req'[r].op = "activate" /\ req'[r].email = users'[id].email
                /\ req'[r].cod = issued'[id]
  <2>1. PICK r \in Requests : /\ req[r].op = "activate" /\ req[r].email = users[id].email
                              /\ req[r].cod = issued[id]
    BY <1>4 DEF CredIInv, ActivatedByIssuedCode
  <2> QED
    BY <1>2, <1>3, <1>4, <2>1
<1>5. CASE users'[id] = users[id]
  BY <1>4, <1>5 DEF Present
<1>6. CASE Appears(id)
  <2>1. ~ pend[id].activated
    BY <1>6 DEF Appears, IInv, InsertsFresh
  <2> QED
    BY <1>6, <2>1 DEF Appears
<1>7. ASSUME NEW r \in Requests, ActivatedBy(id, r)
      PROVE  \E q \in Requests :
                /\ req'[q].op = "activate" /\ req'[q].email = users'[id].email
                /\ req'[q].cod = issued'[id]
  <2>1. id \in Present /\ req[r].op = "activate" /\ users'[id].email = users[id].email
        /\ users[id].email = req[r].email /\ users[id].cod = req[r].cod
    BY <1>7 DEF ActivatedBy, PendingUpdate
  <2>2. CASE users[id].activated
    BY <1>4, <2>1, <2>2
  <2>3. CASE ~ users[id].activated
    <3>1. users[id].cod = issued[id]
      BY <2>1, <2>3 DEF CredIInv, CodesDrawn
    <3> QED
      BY <1>2, <1>3, <2>1, <3>1
  <2> QED
    BY <2>2, <2>3
<1> QED
  BY <1>1, <1>5, <1>6, <1>7 DEF RowsStep

(* Login hands out a token only to an active account, and that account     *)
(* stays.                                                                  *)
LEMMA TokensStep ==
  ASSUME IInv, CredIInv, Next
  PROVE  TokensHonest'
<1> SUFFICES ASSUME NEW q \in Requests, Answered(q, "login", 201)'
             PROVE  Active(req[q].email)'
  BY DEF TokensHonest
<1>1. \A e : Active(e) => Active(e)'
  BY StepRows, ActiveStays
<1>2. req'[q] = req[q]
  BY StepRequests DEF Answered
<1>3. Active(req[q].email)
  <2>1. CASE status[q] = 201
    BY <1>2, <2>1 DEF CredIInv, TokensHonest, Answered
  <2>2. CASE status[q] # 201
    <3>1. LoginStatus(q) = 201
      BY <1>2, <2>2, StepLogins DEF Answered
    <3>2. WithEmail(req[q].email) # {} /\ \A id \in WithEmail(req[q].email) : users[id].activated
      BY <3>1 DEF LoginStatus
    <3> QED
      BY <3>2 DEF WithEmail, Active
  <2> QED
    BY <2>1, <2>2
<1> QED
  BY <1>1, <1>2, <1>3 DEF Active

LEMMA StepCred == IInv /\ CredIInv /\ [Next]_vars => CredIInv'
<1> SUFFICES ASSUME IInv, CredIInv, [Next]_vars PROVE CredIInv'
  OBVIOUS
<1>1. CASE UNCHANGED vars
  BY <1>1 DEF vars, CredIInv, CodesDrawn, ActivatedByIssuedCode, TokensHonest, Active, Present,
     PendingInsert, Answered
<1>2. CASE Next
  BY <1>2, CodesStep, ActivatedStep, TokensStep DEF CredIInv
<1> QED
  BY <1>1, <1>2

(* Codes, activations and tokens are honest in every reachable state.      *)
THEOREM CredentialsInvariant == Spec => []CredIInv
BY InitCred, StepCred, InductiveInvariant, PTL DEF Spec

-----------------------------------------------------------------------------
(* Every active account was activated by a request that carried its e-mail *)
(* and the code drawn for it.                                              *)
THEOREM OnlyIssuedCodesActivate == Spec => []ActivatedByIssuedCode
<1>1. CredIInv => ActivatedByIssuedCode
  BY DEF CredIInv
<1> QED
  BY <1>1, CredentialsInvariant, PTL

(* E-mails are unique, so what Authenticate finds for the e-mail of an     *)
(* active account is that account.                                         *)
LEMMA ActiveAdmitted ==
  ASSUME IInv, NEW q \in Requests, Active(req[q].email)
  PROVE  AccessStatus(q) = 200
<1>1. PICK i \in Present : users[i].email = req[q].email /\ users[i].activated
  BY DEF Active
<1>2. WithEmail(req[q].email) = {i}
  BY <1>1 DEF WithEmail, IInv, IdentitiesUnique
<1> QED
  BY <1>1, <1>2 DEF AccessStatus

(* Wherever tokens come from: one that names an account which has logged   *)
(* in is let in at every later lookup, and never told that the user does   *)
(* not exist or is not active.                                             *)
THEOREM TokensAdmit == Spec => TokenHoldersAdmitted
<1>1. IInv /\ CredIInv =>
         \A r \in Requests : Access(r) /\ TokenIssued(req[r].email) => status'[r] = 200
  <2> SUFFICES ASSUME IInv, CredIInv, NEW r \in Requests, Access(r), TokenIssued(req[r].email)
               PROVE  status'[r] = 200
    OBVIOUS
  <2>1. Active(req[r].email)
    BY DEF CredIInv, TokensHonest, TokenIssued
  <2>2. AccessStatus(r) = 200
    BY <2>1, ActiveAdmitted
  <2> QED
    BY <2>2 DEF Access, Answer, IInv, TypeOK
<1> QED
  BY <1>1, InductiveInvariant, CredentialsInvariant, PTL DEF TokenHoldersAdmitted

=============================================================================
