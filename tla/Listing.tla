------------------------------ MODULE Listing ------------------------------
(***************************************************************************)
(* GET /v1/books: a client walks page by page through the books of one     *)
(* user while others are being saved (src/internal/handlers/book.go        *)
(* FindAll, src/internal/repositories/book.go GetAll,                      *)
(* src/internal/models/filters).                                           *)
(*                                                                         *)
(* Each page is a request and a statement of its own, so that a book       *)
(* committed between two of them shifts what follows it.  A book's id is   *)
(* drawn when its INSERT runs and the book appears at COMMIT, so books     *)
(* appear in another order than that of their ids.  As Books shows, a book *)
(* that has been committed neither changes nor goes away.                  *)
(*                                                                         *)
(* Definitions with an underscore in their name are faulty variants of the *)
(* one that follows them, none is part of the model.                       *)
(***************************************************************************)
EXTENDS Statements

CONSTANTS
    Savers,         \* requests that save a book
    Users,          \* ids of the rows of `users`
    Titles,         \* titles of books, and what a client may search for
    Authors,        \* authors of books, and what a client may search for
    Anything,       \* the empty search
    MaxPage,        \* the last page that may be asked for, 10 million
    MaxPageSize,    \* the size of the largest page, 100
    None            \* no row, no statement, no metadata

ASSUME BoundsAssumption == MaxPage \in Nat \ {0} /\ MaxPageSize \in Nat \ {0}

VARIABLES
    nextID,     \* the sequence behind books.id
    save,       \* save[s]: what has become of the request s
    row,        \* row[s]: the row that it has inserted, or None
    walk,       \* what has become of the client's walk
    ask,        \* what the client asks for, on every page but for its number
    page,       \* the number of the page that it asks for next
    sent,       \* what its last statement asked PostgreSQL for
    start,      \* the books that its walk is about when it starts
    seen,       \* the books on the pages it has been answered
    twice,      \* those that were on two of them
    shown,      \* the books on the last page
    meta        \* the metadata of the last page

saveVars == <<nextID, save, row>>
walkVars == <<walk, ask, page, sent, start, seen, twice, shown, meta>>
vars == <<saveVars, walkVars>>

Committed == {s \in Savers : save[s] = "committed"}

SortSafelist == {"id", "name", "-id", "-name"}

FindAllRequest ==
    [user : Users, title : Titles \union {Anything}, author : Authors \union {Anything},
     page : 0 .. MaxPage + 1, size : 0 .. MaxPageSize + 1,
     sort : SortSafelist \union {"title"}]

SaveRequest == [user : Users, title : Titles, author : Authors]

-----------------------------------------------------------------------------
(***************************************************************************)
(* Saving, as much of it as a listing can tell.                            *)
(***************************************************************************)

(* bookRepository.Insert: which parameter stands where, and its value.     *)
InsertPlaces ==
    [title |-> "title", author |-> "author", pages |-> "pages",
     description |-> "description", user_id |-> "user_id", created_by |-> "user_id"]

InsertParams(s, in) ==
    [title |-> in.title, author |-> in.author, pages |-> <<"pages", s>>,
     description |-> <<"description", s>>, user_id |-> in.user]

InsertIntact == Intact(InsertPlaces)

(* The statement runs, in a transaction that stays open.                   *)
Insert(s, in) ==
    /\ save[s] = "idle"
    /\ \E intact \in InsertIntact :
          row' = [row EXCEPT ![s] =
                     [id |-> nextID,
                      values |-> NamedQuery(InsertPlaces, InsertParams(s, in), intact)]]
    /\ nextID' = nextID + 1
    /\ save' = [save EXCEPT ![s] = "open"]
    /\ UNCHANGED walkVars

(* COMMIT, or an error after the id has been drawn.                        *)
EndSave(s) ==
    /\ save[s] = "open"
    /\ save' \in {[save EXCEPT ![s] = how] : how \in {"committed", "rolled back"}}
    /\ UNCHANGED <<nextID, row, walkVars>>

-----------------------------------------------------------------------------
(***************************************************************************)
(* Listing.                                                                *)
(***************************************************************************)

(* A cell of a row that comes back: its table's alias, its column, and the *)
(* row that it belongs to.                                                 *)
Cells(alias, cols, key) == [i \in DOMAIN cols |-> <<alias, cols[i], key>>]

(* Authenticate: UserRepository.GetByEmail, whose row is scanned into the  *)
(* user whose ID the handler goes by.                                      *)
AuthenticatedID(user) ==
    LET model == Scan(Cells("u", UserTable, user), "User")
    IN  (CHOOSE field \in model : field[1] = <<"ID">>)[2]

(* bookRepository.GetAll: its parameters, and the rows of its WHERE.       *)
GetAllPlaces ==
    [title |-> "title", author |-> "author", userID |-> "userID",
     limit |-> "limit", offset |-> "offset"]

Offset_FromOne(n, size) == n * size

Offset(n, size) == (n - 1) * size

GetAllParams(in, n) ==
    [title |-> in.title, author |-> in.author, userID |-> AuthenticatedID(in.user),
     limit |-> in.size, offset |-> Offset(n, in.size)]

GetAllIntact == Intact(GetAllPlaces)

GetAllQueries(in, n) ==
    {NamedQuery(GetAllPlaces, GetAllParams(in, n), intact) : intact \in GetAllIntact}

Selected(q) ==
    {s \in Committed :
        /\ q.title \in {Anything, row[s].values.title}
        /\ q.author \in {Anything, row[s].values.author}
        /\ q.userID = <<"u", "id", row[s].values.user_id>>}

(* ORDER BY b.id, ascending or descending, LIMIT and OFFSET.               *)
SortDirection(sort) == IF sort \in {"-id", "-name"} THEN "DESC" ELSE "ASC"

Before(s, t, sort) ==
    IF SortDirection(sort) = "ASC" THEN row[s].id < row[t].id ELSE row[t].id < row[s].id

Rank(s, rows, sort) == Cardinality({t \in rows : Before(t, s, sort)})

PageOf_OneMore(rows, q, sort) ==
    {s \in rows : q.offset <= Rank(s, rows, sort) /\ Rank(s, rows, sort) <= q.offset + q.limit}

PageOf(rows, q, sort) ==
    {s \in rows : q.offset <= Rank(s, rows, sort) /\ Rank(s, rows, sort) < q.offset + q.limit}

(* The columns of a row: count( * ) OVER() apart, those of b and of u.     *)
ListRow(s) ==
    Cells("b", CollectColumns["Book"], s)
        \o Cells("u", CollectColumns["User"], row[s].values.user_id)

(* filters.CalculateMetadata                                               *)
LastPage_Floor(total, size) == IF total < size THEN 1 ELSE total \div size

LastPage(total, size) == (total + size - 1) \div size

CalculateMetadata_NeverEmpty(total, n, size) ==
    [current |-> n, size |-> size, last |-> LastPage(total, size), total |-> total]

CalculateMetadata(total, n, size) ==
    IF total = 0 THEN None
    ELSE [current |-> n, size |-> size, last |-> LastPage(total, size), total |-> total]

Metadata == [current : Nat \ {0}, size : Nat \ {0}, last : Nat \ {0}, total : Nat \ {0}]

ASSUME NoneIsNoMetadata == None \notin Metadata

(* filters.ValidateFilters                                                 *)
ValidFilters(in, n) ==
    /\ 0 < n /\ n <= MaxPage
    /\ 0 < in.size /\ in.size <= MaxPageSize
    /\ in.sort \in SortSafelist

-----------------------------------------------------------------------------

Init ==
    /\ nextID = 1
    /\ save = [s \in Savers |-> "idle"]
    /\ row = [s \in Savers |-> None]
    /\ walk = "idle" /\ ask = None /\ page = 0 /\ sent = None
    /\ start = {} /\ seen = {} /\ twice = {} /\ shown = {} /\ meta = None

(* The books that a client means.                                          *)
Meant(in) ==
    {s \in Committed :
        /\ in.title \in {Anything, row[s].values.title}
        /\ in.author \in {Anything, row[s].values.author}
        /\ in.user = row[s].values.user_id}

Start(in) ==
    /\ walk = "idle" /\ ValidFilters(in, in.page)
    /\ walk' = "walking"
    /\ ask' = in
    /\ page' = in.page
    /\ start' = Meant(in)
    /\ UNCHANGED <<saveVars, sent, seen, twice, shown, meta>>

(* 422 for the first page that it asks for.                                *)
TurnAway(in) ==
    /\ walk = "idle" /\ ~ ValidFilters(in, in.page)
    /\ walk' = "refused"
    /\ UNCHANGED <<saveVars, ask, page, sent, start, seen, twice, shown, meta>>

(* 422 for the page after MaxPage.                                         *)
Refuse ==
    /\ walk = "walking" /\ ~ ValidFilters(ask, page)
    /\ walk' = "refused"
    /\ UNCHANGED <<saveVars, ask, page, sent, start, seen, twice, shown, meta>>

(* 500: the statement fails, as it always does for the sort "name", which  *)
(* is no column of books.                                                  *)
Fail ==
    /\ walk = "walking" /\ ValidFilters(ask, page)
    /\ sent' \in GetAllQueries(ask, page)
    /\ walk' = "failed"
    /\ UNCHANGED <<saveVars, ask, page, start, seen, twice, shown, meta>>

(* 200: the client goes on to the next page unless this one is the last,   *)
(* or so far behind the last that it is empty and tells of no pages.       *)
ReadPage ==
    /\ walk = "walking" /\ ValidFilters(ask, page)
    /\ ask.sort \in {"id", "-id"}
    /\ \E q \in GetAllQueries(ask, page) :
          /\ \A p \in DOMAIN q : q[p] # Garbled
          /\ sent' = q
          /\ LET rows == Selected(q)
                 slice == PageOf(rows, q, ask.sort)
                 md == CalculateMetadata(IF slice = {} THEN 0 ELSE Cardinality(rows),
                                         page, ask.size)
             IN  /\ \A s \in slice : Scans(ListRow(s), "Book")
                 /\ shown' = slice
                 /\ meta' = md
                 /\ seen' = seen \union slice
                 /\ twice' = twice \union (seen \intersect slice)
                 /\ IF md = None \/ page >= md.last
                    THEN walk' = "ended" /\ UNCHANGED page
                    ELSE page' = page + 1 /\ UNCHANGED walk
    /\ UNCHANGED <<saveVars, ask, start>>

Next ==
    \/ \E s \in Savers, in \in SaveRequest : Insert(s, in)
    \/ \E s \in Savers : EndSave(s)
    \/ walk = "idle" /\ \E in \in FindAllRequest : Start(in) \/ TurnAway(in)
    \/ Refuse \/ Fail \/ ReadPage

Spec == Init /\ [][Next]_vars

-----------------------------------------------------------------------------
(***************************************************************************)
(* Properties.                                                             *)
(***************************************************************************)

(* The type of every variable.  A page that holds books has metadata of    *)
(* which no number is zero, for the JSON leaves a zero out.                *)
TypeOK ==
    /\ nextID \in Nat
    /\ save \in [Savers -> {"idle", "open", "committed", "rolled back"}]
    /\ \A s \in Savers : save[s] # "idle" => row[s].id \in 1 .. nextID - 1
    /\ walk \in {"idle", "walking", "refused", "failed", "ended"}
    /\ ask \in FindAllRequest \union {None}
    /\ page \in 0 .. MaxPage + 1
    /\ start \subseteq Savers /\ seen \subseteq Savers
    /\ twice \subseteq seen /\ shown \subseteq seen
    /\ meta \in Metadata \union {None}

(* A client that walks from the first page to the last is shown every book *)
(* of the user that matches its search and was there when it set out,      *)
(* however many are saved meanwhile and in whatever order they commit, and *)
(* it is shown none that is another user's or does not match.              *)
WalkMissesNothing ==
    /\ walk = "ended" /\ ask.page = 1 => start \subseteq seen
    /\ ask # None => seen \subseteq Meant(ask)

(* What a client sees twice has been pushed on by a book that was          *)
(* committed during the walk and sorts before it.                          *)
SeenTwiceMeansSaved ==
    \A s \in twice : \E t \in Meant(ask) \ start : Before(t, s, ask.sort)

(* The metadata and the books of a page agree: there are just enough pages *)
(* for all the books, every page before the last is full, the last has the *)
(* rest, and only a page without books has no metadata.                    *)
PagesFit ==
    IF meta = None THEN shown = {}
    ELSE /\ (meta.last - 1) * meta.size < meta.total
         /\ meta.total <= meta.last * meta.size
         /\ meta.current <= meta.last
         /\ Cardinality(shown) = IF meta.current < meta.last THEN meta.size
                                  ELSE meta.total - (meta.last - 1) * meta.size

(* The page that the last statement was about.                             *)
AskedPage == IF walk \in {"walking", "refused"} THEN page - 1 ELSE page

(* Whatever the order in which namedQuery goes through its map, PostgreSQL *)
(* is asked for what the client asked for, past the pages before the one   *)
(* that it is at, and saves what it was sent.                              *)
StatementsBind ==
    /\ sent # None =>
          /\ sent.title = ask.title /\ sent.author = ask.author
          /\ sent.userID = <<"u", "id", ask.user>> /\ sent.limit = ask.size
          /\ sent.offset = (AskedPage - 1) * ask.size
    /\ \A s \in Savers : save[s] # "idle" =>
          /\ row[s].values.title \in Titles /\ row[s].values.author \in Authors
          /\ row[s].values.user_id \in Users
          /\ row[s].values.pages = <<"pages", s>>
          /\ row[s].values.description = <<"description", s>>

(* The cell that belongs in a field of a listed book.                      *)
Home(path, s) ==
    IF path[1] = "User" THEN <<"u", Tag[path[Len(path)]], row[s].values.user_id>>
    ELSE <<"b", Tag[path[Len(path)]], s>>

(* Each field of a book that can be listed, and of the user in it,         *)
(* receives the column it is declared for, of that very book and of its    *)
(* owner, though the columns of the SELECT and the fields of the scan are  *)
(* collected by different rules; and so does each field of a user who is   *)
(* authenticated, from the columns as they stand in the table.             *)
RowsArriveWhole ==
    \A s \in Committed :
        LET owner == Cells("u", UserTable, row[s].values.user_id)
        IN  /\ Scans(ListRow(s), "Book") /\ Scans(owner, "User")
            /\ \A field \in Scan(ListRow(s), "Book") : field[2] = Home(field[1], s)
            /\ \A field \in Scan(owner, "User") :
                  field[2] = Home(<<"User">> \o field[1], s)

=============================================================================
