--------------------------- MODULE ListingProofs ---------------------------
(***************************************************************************)
(* Proofs about Listing, for any number of saves, users, titles and        *)
(* authors and for pages of any size and number.                           *)
(***************************************************************************)
EXTENDS Listing, StatementsProofs, FiniteSetTheorems, FunctionTheorems, TLAPS

-----------------------------------------------------------------------------
(***************************************************************************)
(* What namedQuery makes of the two statements.                            *)
(***************************************************************************)

(* A sequence of words begins with the first word of each of its prefixes. *)
LEMMA PrefixStarts ==
    ASSUME NEW Word, NEW s \in Seq(Word), NEW t \in Seq(Word), Len(s) >= 1, IsPrefix(s, t)
    PROVE  s[1] = t[1]
<1>1. Len(s) <= Len(t) /\ SubSeq(s, 1, Len(s)) = SubSeq(t, 1, Len(s))
  BY DEF IsPrefix
<1>2. SubSeq(s, 1, Len(s))[1] = s[1] /\ SubSeq(t, 1, Len(s))[1] = t[1]
  BY <1>1
<1> QED  BY <1>1, <1>2

(* The words that names of parameters are made of.                          *)
AllWords ==
    {"title", "author", "pages", "description", "user", "_id", "ID", "limit", "offset"}

(* The first word of each name, and that a name is a sequence of words.    *)
LEMMA Words ==
    /\ \A name \in DOMAIN Spelling :
          Spelling[name] \in Seq(AllWords) /\ Len(Spelling[name]) >= 1
    /\ DOMAIN Spelling = {"title", "author", "pages", "description", "user_id",
                          "userID", "limit", "offset"}
    /\ Spelling["title"][1] = "title" /\ Spelling["author"][1] = "author"
    /\ Spelling["pages"][1] = "pages" /\ Spelling["description"][1] = "description"
    /\ Spelling["user_id"][1] = "user" /\ Spelling["userID"][1] = "user"
    /\ Spelling["limit"][1] = "limit" /\ Spelling["offset"][1] = "offset"
<1>1. DOMAIN Spelling = {"title", "author", "pages", "description", "user_id",
                         "userID", "limit", "offset"}
  BY DEF Spelling
<1>2. /\ Spelling["title"] = <<"title">> /\ Spelling["author"] = <<"author">>
      /\ Spelling["pages"] = <<"pages">> /\ Spelling["description"] = <<"description">>
      /\ Spelling["user_id"] = <<"user", "_id">> /\ Spelling["userID"] = <<"user", "ID">>
      /\ Spelling["limit"] = <<"limit">> /\ Spelling["offset"] = <<"offset">>
  BY DEF Spelling
<1>3. ASSUME NEW w \in AllWords
      PROVE  <<w>> \in Seq(AllWords) /\ Len(<<w>>) = 1
  OBVIOUS
<1>4. ASSUME NEW w \in AllWords, NEW v \in AllWords
      PROVE  <<w, v>> \in Seq(AllWords) /\ Len(<<w, v>>) = 2
  OBVIOUS
<1>5. \A name \in DOMAIN Spelling :
         \/ \E w \in AllWords : Spelling[name] = <<w>>
         \/ \E w, v \in AllWords : Spelling[name] = <<w, v>>
  BY <1>1, <1>2 DEF AllWords
<1>6. ASSUME NEW name \in DOMAIN Spelling
      PROVE  Spelling[name] \in Seq(AllWords) /\ Len(Spelling[name]) >= 1
  <2>1. CASE \E w \in AllWords : Spelling[name] = <<w>>
    <3>1. PICK w \in AllWords : Spelling[name] = <<w>>  BY <2>1
    <3> QED  BY <3>1, <1>3
  <2>2. CASE \E w, v \in AllWords : Spelling[name] = <<w, v>>
    <3>1. PICK w \in AllWords, v \in AllWords : Spelling[name] = <<w, v>>  BY <2>2
    <3> QED  BY <3>1, <1>4
  <2> QED  BY <1>5, <2>1, <2>2
<1>7. /\ Spelling["title"][1] = "title" /\ Spelling["author"][1] = "author"
      /\ Spelling["pages"][1] = "pages" /\ Spelling["description"][1] = "description"
      /\ Spelling["user_id"][1] = "user" /\ Spelling["userID"][1] = "user"
      /\ Spelling["limit"][1] = "limit" /\ Spelling["offset"][1] = "offset"
  BY <1>2
<1> QED  BY <1>1, <1>6, <1>7

(* No name of a parameter of GetAll begins with another one of them.       *)
LEMMA GetAllNames ==
    ASSUME NEW k \in {"title", "author", "userID", "limit", "offset"},
           NEW j \in {"title", "author", "userID", "limit", "offset"},
           IsPrefix(Spelling[k], Spelling[j])
    PROVE  k = j
<1>1. Spelling[k] \in Seq(AllWords) /\ Spelling[j] \in Seq(AllWords) /\ Len(Spelling[k]) >= 1
  BY Words
<1>2. Spelling[k][1] = Spelling[j][1]
  BY <1>1, PrefixStarts
<1> QED  BY <1>2, Words

(* No name of a parameter of the INSERT begins with another one of them.   *)
LEMMA InsertNames ==
    ASSUME NEW k \in {"title", "author", "pages", "description", "user_id"},
           NEW j \in {"title", "author", "pages", "description", "user_id"},
           IsPrefix(Spelling[k], Spelling[j])
    PROVE  k = j
<1>1. Spelling[k] \in Seq(AllWords) /\ Spelling[j] \in Seq(AllWords) /\ Len(Spelling[k]) >= 1
  BY Words
<1>2. Spelling[k][1] = Spelling[j][1]
  BY <1>1, PrefixStarts
<1> QED  BY <1>2, Words

(* Every place of GetAll is intact, whatever the order of the map.         *)
LEMMA GetAllWhole ==
    ASSUME NEW intact \in GetAllIntact
    PROVE  intact = {"title", "author", "userID", "limit", "offset"}
<1>1. /\ DOMAIN GetAllPlaces = {"title", "author", "userID", "limit", "offset"}
      /\ \A p \in DOMAIN GetAllPlaces : GetAllPlaces[p] = p
  BY DEF GetAllPlaces
<1>2. PrefixFree(Keys(GetAllPlaces))
  BY <1>1, GetAllNames DEF PrefixFree, Keys
<1> QED  BY <1>1, <1>2, IntactByOrder, PrefixFreeKeeps DEF GetAllIntact

(* Every place of the INSERT is intact, too.                               *)
LEMMA InsertWhole ==
    ASSUME NEW intact \in InsertIntact
    PROVE  intact = {"title", "author", "pages", "description", "user_id", "created_by"}
<1>1. /\ DOMAIN InsertPlaces =
            {"title", "author", "pages", "description", "user_id", "created_by"}
      /\ \A p \in DOMAIN InsertPlaces :
            InsertPlaces[p] \in {"title", "author", "pages", "description", "user_id"}
  BY DEF InsertPlaces
<1>2. PrefixFree(Keys(InsertPlaces))
  BY <1>1, InsertNames DEF PrefixFree, Keys
<1> QED  BY <1>1, <1>2, IntactByOrder, PrefixFreeKeeps DEF InsertIntact

(* A cell reaches the field with its number.                               *)
LEMMA CellsOf ==
    ASSUME NEW alias, NEW cols, NEW key, DOMAIN cols = 1 .. Len(cols), Len(cols) \in Nat
    PROVE  /\ Len(Cells(alias, cols, key)) = Len(cols)
           /\ DOMAIN Cells(alias, cols, key) = 1 .. Len(cols)
           /\ \A i \in 1 .. Len(cols) : Cells(alias, cols, key)[i] = <<alias, cols[i], key>>
BY DEF Cells

(* The cells of one table, and then those of another.                      *)
LEMMA CellsJoined ==
    ASSUME NEW m \in Nat, NEW n \in Nat,
           NEW p, DOMAIN p = 1 .. m, Len(p) = m, p = [i \in 1 .. m |-> p[i]],
           NEW q, DOMAIN q = 1 .. n, Len(q) = n, q = [i \in 1 .. n |-> q[i]]
    PROVE  /\ Len(p \o q) = m + n /\ DOMAIN (p \o q) = 1 .. m + n
           /\ \A i \in 1 .. m + n : (p \o q)[i] = IF i <= m THEN p[i] ELSE q[i - m]
<1> DEFINE X == {p[i] : i \in 1 .. m} \union {q[i] : i \in 1 .. n}
<1>1. /\ \A i \in 1 .. m : p[i] \in X
      /\ \A i \in 1 .. n : q[i] \in X
  OBVIOUS
<1> HIDE DEF X
<1>2. p \in Seq(X) /\ q \in Seq(X)
  BY <1>1
<1>3. /\ p \o q \in Seq(X) /\ Len(p \o q) = m + n
      /\ \A i \in 1 .. m + n : (p \o q)[i] = IF i <= m THEN p[i] ELSE q[i - m]
  BY <1>2, ConcatProperties
<1> QED  BY <1>3

(* The row of a user, as `select u.*` has it, fills the fields of a user,  *)
(* each with the column of its tag.                                        *)
LEMMA UserRow ==
    ASSUME NEW key
    PROVE  LET cells == Cells("u", UserTable, key)
           IN  /\ Scans(cells, "User")
               /\ \A field \in Scan(cells, "User") :
                     field[1] \in Paths /\ field[2] = <<"u", Tag[LastOf(field[1])], key>>
               /\ \E field \in Scan(cells, "User") : field[1] = <<"ID">>
<1> DEFINE cells == Cells("u", UserTable, key)
           p == fields["User"]
<1>1. CollectFields["User"] = p
  BY Sizes DEF CollectFields
<1>2. /\ p \in Seq(Paths) /\ Len(p) = Len(UserTable)
      /\ \A j \in 1 .. Len(p) : Tag[LastOf(p[j])] = UserTable[j]
  BY UserMatched, UserColumns DEF Matched
<1>3. /\ Len(cells) = Len(UserTable) /\ DOMAIN cells = 1 .. Len(UserTable)
      /\ \A i \in 1 .. Len(UserTable) : cells[i] = <<"u", UserTable[i], key>>
  <2>1. DOMAIN UserTable = 1 .. Len(UserTable) /\ Len(UserTable) \in Nat
    BY TableAt
  <2> QED  BY <2>1, CellsOf
<1> HIDE DEF p, cells
<1>4. Scans(cells, "User")
  BY <1>1, <1>2, <1>3 DEF Scans
<1>5. Scan(cells, "User") = {<<p[i], cells[i]>> : i \in 1 .. Len(UserTable)}
  BY <1>1, <1>3 DEF Scan
<1>6. ASSUME NEW i \in 1 .. Len(UserTable)
      PROVE  p[i] \in Paths /\ cells[i] = <<"u", Tag[LastOf(p[i])], key>>
  <2>1. p[i] \in Paths
    BY <1>2, ElementOfSeq
  <2> QED  BY <2>1, <1>2, <1>3
<1>7. p[1] = <<"ID">> /\ 1 \in 1 .. Len(UserTable)
  BY UserIDFirst, TableAt DEF p
<1>8. ASSUME NEW field \in Scan(cells, "User")
      PROVE  field[1] \in Paths /\ field[2] = <<"u", Tag[LastOf(field[1])], key>>
  <2>1. PICK i \in 1 .. Len(UserTable) : field = <<p[i], cells[i]>>
    BY <1>5
  <2>2. field[1] = p[i] /\ field[2] = cells[i]
    BY <2>1
  <2> QED  BY <1>6, <2>2
<1>9. \E field \in Scan(cells, "User") : field[1] = <<"ID">>
  <2>1. <<p[1], cells[1]>> \in Scan(cells, "User") /\ <<p[1], cells[1]>>[1] = p[1]
    BY <1>5, <1>7
  <2> QED  BY <1>7, <2>1, Zenon
<1> QED  BY <1>4, <1>8, <1>9, Zenon DEF cells

(* The id that the handlers go by is the id of the row that was read.      *)
LEMMA AuthenticatedAsSent ==
    ASSUME NEW user
    PROVE  AuthenticatedID(user) = <<"u", "id", user>>
<1> DEFINE model == Scan(Cells("u", UserTable, user), "User")
           chosen == CHOOSE field \in model : field[1] = <<"ID">>
<1>1. /\ \A field \in model : field[2] = <<"u", Tag[LastOf(field[1])], user>>
      /\ \E field \in model : field[1] = <<"ID">>
  BY UserRow
<1>2. Tag["ID"] = "id"
  <2>1. 1 \in DOMAIN Decl["User"] /\ Decl["User"][1] = <<"ID", "id", "none">>
    BY UserDecl
  <2>2. Tag["ID"] = TagOf["ID"]
    BY <2>1, Sizes, TagsAreUnique DEF IsTagged
  <2> QED  BY <2>2 DEF TagOf
<1>3. LastOf(<<"ID">>) = "ID"
  BY DEF LastOf
<1>4. AuthenticatedID(user) = chosen[2]
  BY DEF AuthenticatedID
<1> HIDE DEF model
<1>5. chosen \in model /\ chosen[1] = <<"ID">>
  BY <1>1
<1> QED  BY <1>1, <1>2, <1>3, <1>4, <1>5

(* PostgreSQL is asked for what the client asked for.                      *)
LEMMA QueryAsAsked ==
    ASSUME NEW in, in.user \in Users, NEW n, NEW q \in GetAllQueries(in, n)
    PROVE  /\ q.title = in.title /\ q.author = in.author
           /\ q.userID = <<"u", "id", in.user>>
           /\ q.limit = in.size /\ q.offset = Offset(n, in.size)
<1>1. PICK intact \in GetAllIntact :
         q = NamedQuery(GetAllPlaces, GetAllParams(in, n), intact)
  BY DEF GetAllQueries
<1>2. q = [p \in {"title", "author", "userID", "limit", "offset"} |->
             GetAllParams(in, n)[GetAllPlaces[p]]]
  BY <1>1, GetAllWhole DEF NamedQuery, GetAllPlaces
<1> QED  BY <1>2, AuthenticatedAsSent DEF GetAllPlaces, GetAllParams

(* A row is saved as it was sent.                                          *)
LEMMA RowAsSent ==
    ASSUME NEW s, NEW in, NEW intact \in InsertIntact
    PROVE  LET values == NamedQuery(InsertPlaces, InsertParams(s, in), intact)
           IN  /\ values.title = in.title /\ values.author = in.author
               /\ values.user_id = in.user
               /\ values.pages = <<"pages", s>>
               /\ values.description = <<"description", s>>
<1> DEFINE values == NamedQuery(InsertPlaces, InsertParams(s, in), intact)
<1>1. values = [p \in {"title", "author", "pages", "description", "user_id", "created_by"} |->
                  InsertParams(s, in)[InsertPlaces[p]]]
  BY InsertWhole DEF NamedQuery, InsertPlaces
<1> QED  BY <1>1 DEF InsertPlaces, InsertParams

-----------------------------------------------------------------------------
(***************************************************************************)
(* Counting pages.                                                         *)
(***************************************************************************)

(* The books of a list, told apart by their ids.                           *)
Apart(rows) ==
    /\ IsFiniteSet(rows)
    /\ \A s \in rows : row[s].id \in Int
    /\ \A s, t \in rows : row[s].id = row[t].id => s = t

(* ORDER BY b.id is a strict total order.                                  *)
LEMMA TotalOrder ==
    ASSUME NEW rows, Apart(rows), NEW sort, NEW s \in rows, NEW t \in rows
    PROVE  /\ ~ Before(s, s, sort)
           /\ s = t \/ Before(s, t, sort) \/ Before(t, s, sort)
           /\ \A u \in rows :
                 Before(s, t, sort) /\ Before(t, u, sort) => Before(s, u, sort)
  BY DEF Apart, Before

(* A book's rank is the number of books before it, less than all.          *)
LEMMA RankInto ==
    ASSUME NEW rows, Apart(rows), NEW sort, NEW s \in rows
    PROVE  Rank(s, rows, sort) \in 0 .. Cardinality(rows) - 1
<1> DEFINE ahead == {t \in rows : Before(t, s, sort)}
<1>1. ahead \subseteq rows \ {s}
  BY TotalOrder
<1>2. IsFiniteSet(rows \ {s}) /\ Cardinality(rows \ {s}) = Cardinality(rows) - 1
  BY FS_RemoveElement DEF Apart
<1>3. /\ Cardinality(ahead) \in Nat
      /\ Cardinality(ahead) <= Cardinality(rows \ {s})
  BY <1>1, <1>2, FS_Subset, FS_CardinalityType
<1>4. Cardinality(rows) \in Nat
  BY FS_CardinalityType DEF Apart
<1> QED  BY <1>2, <1>3, <1>4 DEF Rank

(* Ranks grow along the list.                                              *)
LEMMA RankGrows ==
    ASSUME NEW rows, Apart(rows), NEW sort, NEW s \in rows, NEW t \in rows,
           Before(s, t, sort)
    PROVE  Rank(s, rows, sort) < Rank(t, rows, sort)
<1> DEFINE ahead(x) == {y \in rows : Before(y, x, sort)}
<1>1. ahead(s) \subseteq ahead(t)
  BY TotalOrder
<1>2. s \in ahead(t) /\ s \notin ahead(s)
  BY TotalOrder
<1>3. IsFiniteSet(ahead(t)) /\ Cardinality(ahead(t)) \in Nat
  BY FS_Subset, FS_CardinalityType DEF Apart
<1>4. /\ Cardinality(ahead(s)) \in Nat
      /\ Cardinality(ahead(s)) <= Cardinality(ahead(t))
      /\ Cardinality(ahead(s)) # Cardinality(ahead(t))
  BY <1>1, <1>2, <1>3, FS_Subset, FS_CardinalityType
<1> QED  BY <1>3, <1>4 DEF Rank

(* Each rank below the number of books is that of exactly one book.        *)
LEMMA RankOnto ==
    ASSUME NEW rows, Apart(rows), NEW sort
    PROVE  /\ \A s, t \in rows : Rank(s, rows, sort) = Rank(t, rows, sort) => s = t
           /\ \A k \in 0 .. Cardinality(rows) - 1 :
                 \E s \in rows : Rank(s, rows, sort) = k
<1> DEFINE n == Cardinality(rows)
           rank == [s \in rows |-> Rank(s, rows, sort)]
<1>1. n \in Nat
  BY FS_CardinalityType DEF Apart
<1>2. rank \in [rows -> 0 .. n - 1]
  BY RankInto
<1>3. \A s, t \in rows : rank[s] = rank[t] => s = t
  <2> SUFFICES ASSUME NEW s \in rows, NEW t \in rows, rank[s] = rank[t], s # t
               PROVE  FALSE
    OBVIOUS
  <2>1. rank[s] < rank[t] \/ rank[t] < rank[s]
    BY TotalOrder, RankGrows
  <2>2. rank[s] \in Int /\ rank[t] \in Int
    BY <1>2
  <2> QED  BY <2>1, <2>2
<1>4. rank \in Injection(rows, 0 .. n - 1)
  BY <1>2, <1>3, Fun_IsInj
<1>5. IsFiniteSet(0 .. n - 1) /\ Cardinality(0 .. n - 1) = n
  BY <1>1, FS_Interval
<1>6. rank \in Surjection(rows, 0 .. n - 1)
  BY <1>4, <1>5, FS_Injection
<1>7. \A k \in 0 .. n - 1 : \E s \in rows : rank[s] = k
  BY <1>6 DEF Surjection
<1> QED  BY <1>3, <1>7

(* The page of LIMIT and OFFSET is full, or has the rest, or is empty      *)
(* because it is behind the end.                                           *)
LEMMA PageCount ==
    ASSUME NEW rows, Apart(rows), NEW sort, NEW q, q.offset \in Nat, q.limit \in Nat \ {0}
    PROVE  LET n == Cardinality(rows)
               slice == PageOf(rows, q, sort)
           IN  /\ n \in Nat
               /\ IsFiniteSet(slice)
               /\ n <= q.offset => slice = {}
               /\ q.offset < n => slice # {}
               /\ q.offset < n /\ n < q.offset + q.limit
                     => Cardinality(slice) = n - q.offset
               /\ q.offset + q.limit <= n => Cardinality(slice) = q.limit
<1> DEFINE n == Cardinality(rows)
           slice == PageOf(rows, q, sort)
           rank == [s \in rows |-> Rank(s, rows, sort)]
           top == IF n < q.offset + q.limit THEN n - 1 ELSE q.offset + q.limit - 1
           place == [s \in slice |-> rank[s]]
<1>1. n \in Nat
  BY FS_CardinalityType DEF Apart
<1>2. slice = {s \in rows : q.offset <= rank[s] /\ rank[s] < q.offset + q.limit}
  BY DEF PageOf
<1>3. IsFiniteSet(slice)
  BY <1>2, FS_Subset DEF Apart
<1>4. \A s \in rows : rank[s] \in 0 .. n - 1
  BY RankInto
<1>5. \A s, t \in rows : rank[s] = rank[t] => s = t
  BY RankOnto
<1>6. \A k \in 0 .. n - 1 : \E s \in rows : rank[s] = k
  BY RankOnto
<1> HIDE DEF rank, slice
<1>7. place \in [slice -> q.offset .. top]
  BY <1>1, <1>2, <1>4
<1>8. \A s, t \in slice : place[s] = place[t] => s = t
  BY <1>2, <1>5
<1>9. \A k \in q.offset .. top : \E s \in slice : place[s] = k
  <2> TAKE k \in q.offset .. top
  <2>1. k \in 0 .. n - 1 /\ q.offset <= k /\ k < q.offset + q.limit
    BY <1>1
  <2>2. PICK s \in rows : rank[s] = k
    BY <2>1, <1>6
  <2>3. s \in slice /\ place[s] = k
    BY <2>1, <2>2, <1>2
  <2> QED  BY <2>3
<1>10. ExistsBijection(slice, q.offset .. top)
  <2> HIDE DEF place
  <2>1. place \in Bijection(slice, q.offset .. top)
    BY <1>7, <1>8, <1>9, Fun_IsBij
  <2> QED  BY <2>1 DEF ExistsBijection
<1>11. Cardinality(slice) = Cardinality(q.offset .. top)
  BY <1>3, <1>10, FS_Bijection
<1>12. Cardinality(q.offset .. top) = IF q.offset > top THEN 0 ELSE top - q.offset + 1
  <2>1. q.offset \in Int /\ top \in Int
    BY <1>1
  <2> HIDE DEF top
  <2> QED  BY <2>1, FS_Interval
<1>13. n <= q.offset => slice = {}
  BY <1>1, <1>2, <1>4
<1>14. q.offset < n => slice # {}
  <2> SUFFICES ASSUME q.offset < n PROVE slice # {}
    OBVIOUS
  <2>1. PICK s \in rows : rank[s] = q.offset
    BY <1>1, <1>6
  <2> QED  BY <2>1, <1>2
<1> QED  BY <1>1, <1>3, <1>11, <1>12, <1>13, <1>14 DEF slice

(* The last page holds the last book.                                      *)
LEMMA LastPageHoldsLast ==
    ASSUME NEW n \in Nat \ {0}, NEW d \in Nat \ {0}
    PROVE  /\ LastPage(n, d) \in Nat \ {0}
           /\ n <= LastPage(n, d) * d
           /\ (LastPage(n, d) - 1) * d < n
  BY DEF LastPage

(* OFFSET grows by a page from one page to the next, from zero.            *)
LEMMA Offsets ==
    ASSUME NEW n \in Nat \ {0}, NEW d \in Nat
    PROVE  /\ Offset(n, d) \in Nat
           /\ Offset(1, d) = 0
           /\ Offset(n, d) + d = Offset(n + 1, d)
           /\ Offset(n, d) + d = n * d
           /\ \A m \in Nat \ {0} : m <= n => Offset(m, d) <= Offset(n, d)
<1>1. n - 1 \in Nat /\ (n - 1) * d \in Nat
  OBVIOUS
<1>2. (n - 1) * d + d = n * d
  OBVIOUS
<1>3. (n + 1 - 1) * d = n * d /\ (1 - 1) * d = 0
  OBVIOUS
<1>4. ASSUME NEW m \in Nat \ {0}, m <= n
      PROVE  (m - 1) * d <= (n - 1) * d
  <2>1. \E k \in Nat : n - 1 = (m - 1) + k
    BY <1>4
  <2>2. PICK k \in Nat : n - 1 = (m - 1) + k
    BY <2>1
  <2>3. (n - 1) * d = (m - 1) * d + k * d
    BY <2>2
  <2>4. k * d \in Nat /\ (m - 1) * d \in Int
    OBVIOUS
  <2> QED  BY <2>3, <2>4
<1> QED  BY <1>1, <1>2, <1>3, <1>4 DEF Offset

(* The metadata of a page fits its books: PagesFit, for one page.          *)
LEMMA PageFits ==
    ASSUME NEW rows, Apart(rows), NEW sort, NEW q, NEW n \in Nat \ {0}, NEW d \in Nat \ {0},
           q.offset = Offset(n, d), q.limit = d
    PROVE  LET total == Cardinality(rows)
               slice == PageOf(rows, q, sort)
               last == LastPage(total, d)
           IN  slice # {} =>
                  /\ total \in Nat \ {0} /\ last \in Nat \ {0}
                  /\ (last - 1) * d < total /\ total <= last * d
                  /\ n <= last
                  /\ Cardinality(slice) = IF n < last THEN d ELSE total - (last - 1) * d
<1> DEFINE total == Cardinality(rows)
           slice == PageOf(rows, q, sort)
           last == LastPage(total, d)
<1> SUFFICES ASSUME slice # {}
             PROVE  /\ total \in Nat \ {0} /\ last \in Nat \ {0}
                    /\ (last - 1) * d < total /\ total <= last * d
                    /\ n <= last
                    /\ Cardinality(slice) = IF n < last THEN d ELSE total - (last - 1) * d
  OBVIOUS
<1>1. q.offset \in Nat /\ q.limit \in Nat \ {0}
  <2>1. Offset(n, d) \in Nat
    BY Offsets
  <2> QED  BY <2>1
<1>2. /\ total \in Nat /\ q.offset < total
      /\ total < q.offset + d => Cardinality(slice) = total - q.offset
      /\ q.offset + d <= total => Cardinality(slice) = d
  BY <1>1, PageCount
<1>3. total \in Nat \ {0}
  BY <1>1, <1>2
<1> HIDE DEF total, slice
<1>4. last \in Nat \ {0} /\ (last - 1) * d < total /\ total <= last * d
  BY <1>3, LastPageHoldsLast
<1> HIDE DEF last
<1>5. Offset(last, d) = (last - 1) * d /\ Offset(last, d) + d = last * d
  BY <1>4, Offsets DEF Offset
<1>6. Offset(last, d) \in Nat /\ Offset(last, d) < total /\ total <= Offset(last, d) + d
  BY <1>4, <1>5, Offsets
<1>7. /\ Offset(n, d) + d = Offset(n + 1, d)
      /\ Offset(last, d) + d = Offset(last + 1, d)
  BY <1>4, Offsets
<1>8. \A k, m \in Nat \ {0} : m <= k => Offset(m, d) <= Offset(k, d)
  BY Offsets
<1>9. n <= last
  <2> SUFFICES ASSUME last + 1 <= n PROVE FALSE
    BY <1>4
  <2>1. Offset(last + 1, d) <= Offset(n, d)
    BY <1>4, <1>8
  <2> QED  BY <2>1, <1>1, <1>2, <1>6, <1>7
<1>10. CASE n < last
  <2>1. Offset(n + 1, d) <= Offset(last, d)
    BY <1>4, <1>8, <1>10
  <2>2. q.offset + d <= total
    BY <2>1, <1>1, <1>2, <1>6, <1>7
  <2> QED  BY <2>2, <1>2, <1>4, <1>9, <1>10
<1>11. CASE n = last
  <2>1. q.offset = Offset(last, d)
    BY <1>11
  <2>2. total <= q.offset + d
    BY <2>1, <1>6
  <2>3. Cardinality(slice) = total - (last - 1) * d
    BY <2>1, <2>2, <1>1, <1>2, <1>5
  <2>4. ~ (n < last)
    BY <1>11
  <2> QED  BY <2>3, <2>4, <1>4, <1>9, <1>3
<1> QED  BY <1>4, <1>9, <1>10, <1>11

-----------------------------------------------------------------------------
(***************************************************************************)
(* The inductive invariant.                                                *)
(***************************************************************************)

Drawn == {s \in Savers : save[s] # "idle"}

(* Each save that has drawn an id has one of its own.                      *)
IdsApart ==
    /\ nextID \in Nat \ {0}
    /\ save \in [Savers -> {"idle", "open", "committed", "rolled back"}]
    /\ row = [s \in Savers |-> row[s]]
    /\ IsFiniteSet(Drawn)
    /\ \A s \in Drawn : row[s].id \in 1 .. nextID - 1
    /\ \A s, t \in Drawn : row[s].id = row[t].id => s = t

(* What a client asks for while it walks, and what it holds before it.     *)
WalkTyped ==
    /\ walk \in {"idle", "walking", "refused", "failed", "ended"}
    /\ ask \in FindAllRequest \union {None}
    /\ page \in 0 .. MaxPage + 1
    /\ twice \subseteq seen /\ shown \subseteq seen
    /\ meta \in Metadata \union {None}
    /\ walk = "idle" => start = {} /\ seen = {} /\ sent = None
    /\ walk = "walking" => ask \in FindAllRequest /\ ask.size > 0 /\ page > 0

(* What it set out for and what it has seen are books that it means.       *)
BooksMeant == \A s \in start \union seen : s \in Meant(ask)

(* What it has not seen yet is still ahead: nothing that is committed      *)
(* moves a book towards the front.                                         *)
AheadOrSeen ==
    walk = "walking" /\ ask.page = 1 =>
        \A s \in start : \/ s \in seen
                         \/ Offset(page, ask.size) <= Rank(s, Meant(ask), ask.sort)

(* What it has seen is behind, unless a new book has pushed it on.         *)
BehindOrPushed ==
    walk = "walking" =>
        \A s \in seen : \/ \E t \in Meant(ask) \ start : Before(t, s, ask.sort)
                        \/ Rank(s, Meant(ask), ask.sort) < Offset(page, ask.size)

ListingInvariant ==
    /\ IdsApart /\ WalkTyped /\ BooksMeant /\ AheadOrSeen /\ BehindOrPushed
    /\ WalkMissesNothing /\ SeenTwiceMeansSaved /\ PagesFit /\ StatementsBind

(* What a client means are books with ids of their own, finitely many.     *)
LEMMA MeantApart ==
    ASSUME IdsApart, NEW in
    PROVE  Apart(Meant(in)) /\ Meant(in) \subseteq Drawn
<1>1. Meant(in) \subseteq Drawn
  BY DEF Meant, Committed, Drawn
<1>2. IsFiniteSet(Meant(in))
  BY <1>1, FS_Subset DEF IdsApart
<1>3. \A s \in Drawn : row[s].id \in 1 .. nextID - 1
  BY DEF IdsApart
<1>4. \A s, t \in Drawn : row[s].id = row[t].id => s = t
  BY DEF IdsApart
<1> QED  BY <1>1, <1>2, <1>3, <1>4 DEF Apart

(* Init establishes the invariant.                                         *)
LEMMA InitiallyListing == Init => ListingInvariant
<1> SUFFICES ASSUME Init PROVE ListingInvariant
  OBVIOUS
<1>1. Drawn = {}
  BY DEF Init, Drawn
<1>2. IdsApart
  BY <1>1, FS_EmptySet DEF Init, IdsApart
<1>3. WalkTyped
  BY BoundsAssumption DEF Init, WalkTyped
<1>4. WalkMissesNothing /\ SeenTwiceMeansSaved /\ PagesFit /\ StatementsBind
  BY DEF Init, WalkMissesNothing, SeenTwiceMeansSaved, PagesFit, StatementsBind
<1> QED  BY <1>2, <1>3, <1>4 DEF Init, ListingInvariant, BooksMeant, AheadOrSeen, BehindOrPushed

(* A statement that runs leaves what is committed alone.                   *)
LEMMA InsertListing ==
    ASSUME ListingInvariant, NEW s \in Savers, NEW in \in SaveRequest, Insert(s, in)
    PROVE  ListingInvariant'
<1> USE DEF ListingInvariant
<1>1. PICK intact \in InsertIntact :
         row' = [row EXCEPT ![s] =
                    [id |-> nextID,
                     values |-> NamedQuery(InsertPlaces, InsertParams(s, in), intact)]]
  BY DEF Insert
<1>2. /\ save[s] = "idle" /\ nextID' = nextID + 1
      /\ save' = [save EXCEPT ![s] = "open"]
      /\ UNCHANGED walkVars
  BY DEF Insert
<1>3. /\ Drawn' = Drawn \union {s} /\ s \notin Drawn
      /\ \A t \in Drawn : row'[t] = row[t]
      /\ row'[s].id = nextID
      /\ row'[s].values = NamedQuery(InsertPlaces, InsertParams(s, in), intact)
  BY <1>1, <1>2 DEF Drawn, IdsApart
<1>4. IdsApart'
  <2>1. IsFiniteSet(Drawn')
    BY <1>3, FS_AddElement DEF IdsApart
  <2>2. nextID' \in Nat \ {0}
    <3>1. nextID \in Nat \ {0}
      BY DEF IdsApart
    <3> QED  BY <3>1, <1>2
  <2>3. save' \in [Savers -> {"idle", "open", "committed", "rolled back"}]
    BY <1>2 DEF IdsApart
  <2>4. row' = [t \in Savers |-> row'[t]]
    BY <1>1 DEF IdsApart
  <2>5. /\ nextID \in Nat \ {0}
        /\ \A t \in Drawn : row[t].id \in 1 .. nextID - 1
        /\ \A t, u \in Drawn : row[t].id = row[u].id => t = u
    BY DEF IdsApart
  <2>6. \A t \in Drawn : row'[t].id \in 1 .. nextID - 1
    BY <2>5, <1>3
  <2>7. \A t \in Drawn' : row'[t].id \in 1 .. nextID' - 1
    BY <2>5, <2>6, <1>2, <1>3
  <2>8. \A t, u \in Drawn' : row'[t].id = row'[u].id => t = u
    BY <2>5, <2>6, <1>2, <1>3
  <2> QED  BY <2>1, <2>2, <2>3, <2>4, <2>7, <2>8 DEF IdsApart
<1>5. WalkTyped'
  BY <1>2 DEF WalkTyped, walkVars
<1>6. /\ Committed' = Committed
      /\ \A t \in Committed : row'[t] = row[t]
  BY <1>2, <1>3 DEF Committed, Drawn, IdsApart
<1>7. Meant(ask)' = Meant(ask)
  BY <1>2, <1>6 DEF Meant, walkVars
<1>8. \A t, u \in Meant(ask) : Before(t, u, ask.sort)' <=> Before(t, u, ask.sort)
  BY <1>2, <1>6 DEF Before, Meant, walkVars
<1>9. \A t \in Meant(ask) : Rank(t, Meant(ask), ask.sort)' = Rank(t, Meant(ask), ask.sort)
  BY <1>7, <1>8 DEF Rank
<1>10. BooksMeant'
  BY <1>2, <1>7 DEF BooksMeant, walkVars
<1>11. AheadOrSeen'
  BY <1>2, <1>9 DEF AheadOrSeen, BooksMeant, walkVars
<1>12. BehindOrPushed'
  BY <1>2, <1>7, <1>8, <1>9 DEF BehindOrPushed, BooksMeant, walkVars
<1>13. WalkMissesNothing'
  BY <1>2, <1>7 DEF WalkMissesNothing, walkVars
<1>14. SeenTwiceMeansSaved'
  BY <1>2, <1>7, <1>8 DEF SeenTwiceMeansSaved, BooksMeant, WalkTyped, walkVars
<1>15. PagesFit'
  BY <1>2 DEF PagesFit, walkVars
<1>16. StatementsBind'
  <2>1. /\ row'[s].values.title \in Titles /\ row'[s].values.author \in Authors
        /\ row'[s].values.user_id \in Users
        /\ row'[s].values.pages = <<"pages", s>>
        /\ row'[s].values.description = <<"description", s>>
    BY <1>3, RowAsSent DEF SaveRequest
  <2> QED  BY <2>1, <1>2, <1>3 DEF StatementsBind, AskedPage, Drawn, walkVars
<1> QED  BY <1>4, <1>5, <1>10, <1>11, <1>12, <1>13, <1>14, <1>15, <1>16

(* A COMMIT adds a book to what a client means, or none.  It moves no book *)
(* towards the front, and back only those that the new one sorts before.   *)
LEMMA EndSaveListing ==
    ASSUME ListingInvariant, NEW s \in Savers, EndSave(s)
    PROVE  ListingInvariant'
<1> USE DEF ListingInvariant
<1>1. /\ save[s] = "open"
      /\ \E how \in {"committed", "rolled back"} : save' = [save EXCEPT ![s] = how]
      /\ UNCHANGED <<nextID, row, walkVars>>
  BY DEF EndSave
<1>2. save' \in [Savers -> {"idle", "open", "committed", "rolled back"}]
  BY <1>1 DEF IdsApart
<1>3. Drawn' = Drawn
  BY <1>1 DEF Drawn, IdsApart
<1>4. IdsApart'
  BY <1>1, <1>2, <1>3 DEF IdsApart
<1>5. WalkTyped'
  BY <1>1 DEF WalkTyped, walkVars
<1>6. Committed \subseteq Committed' /\ Committed' \subseteq Committed \union {s}
  BY <1>1 DEF Committed, IdsApart
<1>7. s \notin Committed
  BY <1>1 DEF Committed
<1>8. /\ Meant(ask) \subseteq Meant(ask)' /\ s \notin Meant(ask)
      /\ Meant(ask)' \subseteq Meant(ask) \union {s}
  BY <1>1, <1>6, <1>7 DEF Meant, walkVars
<1>9. ASSUME NEW t \in Meant(ask)
      PROVE  /\ Rank(t, Meant(ask), ask.sort) <= Rank(t, Meant(ask), ask.sort)'
             /\ \/ s \in Meant(ask)' /\ Before(s, t, ask.sort)
                \/ Rank(t, Meant(ask), ask.sort)' = Rank(t, Meant(ask), ask.sort)
             /\ Rank(t, Meant(ask), ask.sort) \in Nat
             /\ Rank(t, Meant(ask), ask.sort)' \in Nat
  <2> DEFINE ahead == {u \in Meant(ask) : Before(u, t, ask.sort)}
             later == {u \in Meant(ask)' : Before(u, t, ask.sort)}
  <2>1. /\ Rank(t, Meant(ask), ask.sort) = Cardinality(ahead)
        /\ Rank(t, Meant(ask), ask.sort)' = Cardinality(later)
    BY <1>1 DEF Rank, Before, walkVars
  <2>2. ahead \subseteq later
    BY <1>8
  <2>3. (s \in Meant(ask)' /\ Before(s, t, ask.sort)) \/ later = ahead
    BY <1>8
  <2>4. IsFiniteSet(Meant(ask)')
    <3>1. IsFiniteSet(Meant(ask))
      BY MeantApart DEF Apart
    <3>2. IsFiniteSet(Meant(ask) \union {s})
      BY <3>1, FS_AddElement
    <3> QED  BY <3>2, <1>8, FS_Subset
  <2>5. IsFiniteSet(later) /\ IsFiniteSet(ahead)
    BY <2>2, <2>4, FS_Subset
  <2>6. /\ Cardinality(ahead) \in Nat /\ Cardinality(later) \in Nat
        /\ Cardinality(ahead) <= Cardinality(later)
    BY <2>2, <2>5, FS_Subset, FS_CardinalityType
  <2> QED  BY <2>1, <2>3, <2>6
<1>10. \A t, u : Before(t, u, ask.sort)' <=> Before(t, u, ask.sort)
  BY <1>1 DEF Before, walkVars
<1>11. BooksMeant'
  BY <1>1, <1>8 DEF BooksMeant, walkVars
<1>12. walk = "walking" => Offset(page, ask.size) \in Nat
  BY Offsets DEF WalkTyped, FindAllRequest
<1>13. AheadOrSeen'
  <2> SUFFICES ASSUME walk = "walking", ask.page = 1, NEW t \in start, t \notin seen
               PROVE  Offset(page, ask.size) <= Rank(t, Meant(ask), ask.sort)'
    BY <1>1 DEF AheadOrSeen, walkVars
  <2>1. Offset(page, ask.size) <= Rank(t, Meant(ask), ask.sort)
    BY DEF AheadOrSeen
  <2>2. t \in Meant(ask)
    BY DEF BooksMeant
  <2> QED  BY <2>1, <2>2, <1>9, <1>12
<1>14. s \notin start
  BY <1>8 DEF BooksMeant
<1>15. BehindOrPushed'
  BY <1>1, <1>8, <1>9, <1>10, <1>14 DEF BehindOrPushed, BooksMeant, walkVars
<1>16. WalkMissesNothing'
  BY <1>1, <1>8 DEF WalkMissesNothing, walkVars
<1>17. SeenTwiceMeansSaved'
  BY <1>1, <1>8, <1>10 DEF SeenTwiceMeansSaved, walkVars
<1>18. PagesFit'
  BY <1>1 DEF PagesFit, walkVars
<1>19. StatementsBind'
  BY <1>1, <1>3 DEF StatementsBind, AskedPage, Drawn, walkVars
<1> QED  BY <1>4, <1>5, <1>11, <1>13, <1>15, <1>16, <1>17, <1>18, <1>19

(* A walk sets out with every book still ahead of it.                      *)
LEMMA StartListing ==
    ASSUME ListingInvariant, NEW in \in FindAllRequest, Start(in)
    PROVE  ListingInvariant'
<1> USE DEF ListingInvariant
<1>1. /\ walk = "idle" /\ walk' = "walking" /\ ask' = in /\ page' = in.page
      /\ start' = Meant(in) /\ in.page > 0 /\ in.size > 0 /\ in.page <= MaxPage
      /\ UNCHANGED <<saveVars, sent, seen, twice, shown, meta>>
  BY DEF Start, ValidFilters, FindAllRequest
<1>2. seen = {} /\ twice = {} /\ shown = {} /\ sent = None
  BY <1>1 DEF WalkTyped
<1>3. IdsApart'
  <2>1. Drawn' = Drawn
    BY <1>1 DEF Drawn, saveVars
  <2> QED  BY <2>1, <1>1 DEF IdsApart, saveVars
<1>4. WalkTyped'
  BY <1>1, <1>2, BoundsAssumption DEF WalkTyped, FindAllRequest
<1>5. start' = Meant(ask)'
  BY <1>1 DEF Meant, Committed, saveVars
<1>6. BooksMeant'
  BY <1>1, <1>2, <1>5 DEF BooksMeant
<1>7. AheadOrSeen'
  <2> SUFFICES ASSUME in.page = 1, NEW s \in start'
               PROVE  Offset(page, ask.size)' <= Rank(s, Meant(ask), ask.sort)'
    BY <1>1 DEF AheadOrSeen
  <2>1. Offset(page, ask.size)' = 0
    BY <1>1, Offsets DEF FindAllRequest
  <2>2. Rank(s, Meant(ask), ask.sort)' = Rank(s, Meant(in), in.sort)
    BY <1>1, <1>5 DEF Rank, Before, saveVars
  <2>3. s \in Meant(in) /\ Apart(Meant(in))
    BY <1>1, MeantApart
  <2>4. Rank(s, Meant(in), in.sort) \in 0 .. Cardinality(Meant(in)) - 1
    BY <2>3, RankInto
  <2> QED  BY <2>1, <2>2, <2>4
<1>8. BehindOrPushed' /\ WalkMissesNothing' /\ SeenTwiceMeansSaved'
  BY <1>1, <1>2 DEF BehindOrPushed, WalkMissesNothing, SeenTwiceMeansSaved
<1>9. PagesFit'
  BY <1>1 DEF PagesFit
<1>10. StatementsBind'
  BY <1>1, <1>2 DEF StatementsBind, saveVars
<1> QED  BY <1>3, <1>4, <1>6, <1>7, <1>8, <1>9, <1>10

(* A walk that is turned away, refused or failed keeps what it has.        *)
LEMMA StopListing ==
    ASSUME ListingInvariant,
           (\E in \in FindAllRequest : TurnAway(in)) \/ Refuse \/ Fail
    PROVE  ListingInvariant'
<1> USE DEF ListingInvariant
<1>1. /\ walk' \in {"refused", "failed"}
      /\ UNCHANGED <<saveVars, ask, page, start, seen, twice, shown, meta>>
  BY DEF TurnAway, Refuse, Fail
<1>2. IdsApart'
  <2>1. Drawn' = Drawn
    BY <1>1 DEF Drawn, saveVars
  <2> QED  BY <2>1, <1>1 DEF IdsApart, saveVars
<1>3. WalkTyped'
  BY <1>1 DEF WalkTyped
<1>4. Meant(ask)' = Meant(ask)
  BY <1>1 DEF Meant, Committed, saveVars
<1>5. BooksMeant' /\ AheadOrSeen' /\ BehindOrPushed'
  BY <1>1, <1>4 DEF BooksMeant, AheadOrSeen, BehindOrPushed
<1>6. WalkMissesNothing' /\ SeenTwiceMeansSaved' /\ PagesFit'
  BY <1>1, <1>4 DEF WalkMissesNothing, SeenTwiceMeansSaved, PagesFit, Before, saveVars
<1>7. \/ walk = "idle" /\ sent' = sent
      \/ walk = "walking" /\ walk' = "refused" /\ sent' = sent
      \/ walk = "walking" /\ walk' = "failed" /\ sent' \in GetAllQueries(ask, page)
  BY DEF TurnAway, Refuse, Fail
<1>8. StatementsBind'
  <2>1. CASE walk = "idle" /\ sent' = sent
    BY <2>1, <1>1 DEF StatementsBind, WalkTyped, saveVars
  <2>2. CASE walk = "walking" /\ walk' = "refused" /\ sent' = sent
    <3>1. AskedPage' = AskedPage
      BY <2>2, <1>1 DEF AskedPage
    <3> QED  BY <2>2, <3>1, <1>1 DEF StatementsBind, saveVars
  <2>3. CASE walk = "walking" /\ walk' = "failed" /\ sent' \in GetAllQueries(ask, page)
    <3>1. ask.user \in Users /\ AskedPage' = page
      BY <2>3, <1>1 DEF WalkTyped, FindAllRequest, AskedPage
    <3>2. /\ sent'.title = ask.title /\ sent'.author = ask.author
          /\ sent'.userID = <<"u", "id", ask.user>> /\ sent'.limit = ask.size
          /\ sent'.offset = (page - 1) * ask.size
      BY <2>3, <3>1, QueryAsAsked DEF Offset
    <3> QED  BY <3>1, <3>2, <1>1 DEF StatementsBind, saveVars
  <2> QED  BY <1>7, <2>1, <2>2, <2>3
<1> QED  BY <1>2, <1>3, <1>5, <1>6, <1>8

(* The rows of the statement are the books that the client means, and what *)
(* ReadPage makes of them.                                                 *)
LEMMA ReadPageRows ==
    ASSUME ListingInvariant, ReadPage
    PROVE  \E q, slice, md :
              /\ q \in GetAllQueries(ask, page)
              /\ slice = PageOf(Meant(ask), q, ask.sort)
              /\ md = CalculateMetadata(IF slice = {} THEN 0 ELSE Cardinality(Meant(ask)),
                                        page, ask.size)
              /\ sent' = q /\ shown' = slice /\ meta' = md
              /\ seen' = seen \union slice
              /\ twice' = twice \union (seen \intersect slice)
              /\ IF md = None \/ page >= md.last
                 THEN walk' = "ended" /\ page' = page
                 ELSE page' = page + 1 /\ walk' = walk
<1>1. ask.user \in Users
  BY DEF ReadPage, ListingInvariant, WalkTyped, FindAllRequest
<1>2. ASSUME NEW q \in GetAllQueries(ask, page)
      PROVE  Selected(q) = Meant(ask)
  <2>1. /\ q.title = ask.title /\ q.author = ask.author
        /\ q.userID = <<"u", "id", ask.user>>
    BY <1>1, QueryAsAsked
  <2>2. \A u : q.userID = <<"u", "id", u>> <=> ask.user = u
    BY <2>1
  <2> QED  BY <2>1, <2>2 DEF Selected, Meant
<1> QED  BY <1>2 DEF ReadPage

(* A page takes what is next and leaves the rest ahead.                    *)
LEMMA ReadPageListing ==
    ASSUME ListingInvariant, ReadPage
    PROVE  ListingInvariant'
<1> USE DEF ListingInvariant
<1>1. PICK q, slice, md :
         /\ q \in GetAllQueries(ask, page)
         /\ slice = PageOf(Meant(ask), q, ask.sort)
         /\ md = CalculateMetadata(IF slice = {} THEN 0 ELSE Cardinality(Meant(ask)),
                                   page, ask.size)
         /\ sent' = q /\ shown' = slice /\ meta' = md
         /\ seen' = seen \union slice
         /\ twice' = twice \union (seen \intersect slice)
         /\ IF md = None \/ page >= md.last
            THEN walk' = "ended" /\ page' = page
            ELSE page' = page + 1 /\ walk' = walk
  BY ReadPageRows
<1>2. /\ walk = "walking" /\ UNCHANGED <<saveVars, ask, start>>
      /\ ask \in FindAllRequest /\ ask.user \in Users
      /\ ask.size \in Nat \ {0} /\ page \in Nat \ {0} /\ page <= MaxPage
  BY DEF ReadPage, WalkTyped, ValidFilters, FindAllRequest
<1> DEFINE rows == Meant(ask)
           total == Cardinality(rows)
           first == Offset(page, ask.size)
           rank(s) == Rank(s, rows, ask.sort)
<1>3. Apart(rows)
  BY MeantApart
<1>4. /\ q.title = ask.title /\ q.author = ask.author
      /\ q.userID = <<"u", "id", ask.user>>
      /\ q.limit = ask.size /\ q.offset = first
  BY <1>1, <1>2, QueryAsAsked
<1>5. /\ first \in Nat /\ Offset(page + 1, ask.size) = first + ask.size
      /\ first + ask.size = page * ask.size
  BY <1>2, Offsets
<1>6. \A s \in rows : rank(s) \in 0 .. total - 1
  BY <1>3, RankInto
<1>7. slice = {s \in rows : first <= rank(s) /\ rank(s) < first + ask.size}
  BY <1>1, <1>4 DEF PageOf
<1>8. total \in Nat /\ (slice = {} => total <= first)
  <2>1. q.offset \in Nat /\ q.limit \in Nat \ {0}
    BY <1>2, <1>4, <1>5
  <2> HIDE DEF rows
  <2>2. total \in Nat /\ (q.offset < total => PageOf(rows, q, ask.sort) # {})
    BY <2>1, <1>3, PageCount
  <2>3. slice = PageOf(rows, q, ask.sort)
    BY <1>1 DEF rows
  <2> QED  BY <2>1, <2>2, <2>3, <1>4, <1>5
<1>9. slice # {} =>
        LET last == LastPage(total, ask.size)
        IN  /\ total \in Nat \ {0} /\ last \in Nat \ {0}
            /\ (last - 1) * ask.size < total /\ total <= last * ask.size
            /\ page <= last
            /\ Cardinality(slice) = IF page < last THEN ask.size
                                     ELSE total - (last - 1) * ask.size
  BY <1>1, <1>2, <1>3, <1>4, PageFits
<1>10. slice = {} => md = None
  BY <1>1 DEF CalculateMetadata
<1>11. slice # {} =>
         /\ md = [current |-> page, size |-> ask.size,
                  last |-> LastPage(total, ask.size), total |-> total]
         /\ md \in Metadata
         /\ md # None
  <2> SUFFICES ASSUME slice # {}
               PROVE  /\ md = [current |-> page, size |-> ask.size,
                               last |-> LastPage(total, ask.size), total |-> total]
                      /\ md \in Metadata
                      /\ md # None
    OBVIOUS
  <2>1. total \in Nat \ {0} /\ LastPage(total, ask.size) \in Nat \ {0}
    BY <1>9
  <2>2. md = [current |-> page, size |-> ask.size,
              last |-> LastPage(total, ask.size), total |-> total]
    BY <2>1, <1>1 DEF CalculateMetadata
  <2>3. md \in Metadata
    BY <2>1, <2>2, <1>2 DEF Metadata
  <2> QED  BY <2>2, <2>3, NoneIsNoMetadata
<1>12. walk' = "walking" => page' = page + 1
  BY <1>1
<1>13. /\ Meant(ask)' = rows
       /\ \A s : Rank(s, Meant(ask), ask.sort)' = rank(s)
       /\ \A s, t : Before(s, t, ask.sort)' <=> Before(s, t, ask.sort)
  <2>1. Meant(ask)' = rows
    BY <1>2 DEF Meant, Committed, saveVars
  <2>2. \A s, t : Before(s, t, ask.sort)' <=> Before(s, t, ask.sort)
    BY <1>2 DEF Before, saveVars
  <2> QED  BY <2>1, <2>2 DEF Rank
<1>14. \A s \in seen \union start : s \in rows
  BY DEF BooksMeant
<1>15. IdsApart'
  <2>1. Drawn' = Drawn
    BY <1>2 DEF Drawn, saveVars
  <2> QED  BY <2>1, <1>2 DEF IdsApart, saveVars
<1>16. WalkTyped'
  <2>1. walk' \in {"walking", "ended"} /\ page' \in 1 .. MaxPage + 1
    BY <1>1, <1>2, BoundsAssumption
  <2>2. meta' \in Metadata \union {None}
    BY <1>1, <1>10, <1>11
  <2>3. twice' \subseteq seen' /\ shown' \subseteq seen'
    BY <1>1 DEF WalkTyped
  <2> QED  BY <2>1, <2>2, <2>3, <1>2 DEF WalkTyped
<1>17. BooksMeant'
  BY <1>1, <1>2, <1>7, <1>13, <1>14 DEF BooksMeant
<1> HIDE DEF rank, rows, total, first
<1>18. AheadOrSeen'
  <2> SUFFICES ASSUME walk' = "walking", ask.page = 1, NEW s \in start, s \notin seen'
               PROVE  first + ask.size <= rank(s)
    BY <1>2, <1>5, <1>12, <1>13 DEF AheadOrSeen
  <2>1. first <= rank(s) /\ rank(s) \in Nat
    BY <1>1, <1>2, <1>6, <1>14 DEF AheadOrSeen, rank, rows, first
  <2>2. ~ (rank(s) < first + ask.size)
    BY <2>1, <1>1, <1>7, <1>14
  <2> QED  BY <2>1, <2>2, <1>2, <1>5
<1>19. BehindOrPushed'
  <2> SUFFICES ASSUME walk' = "walking", NEW s \in seen'
               PROVE  \/ \E t \in rows \ start : Before(t, s, ask.sort)
                      \/ rank(s) < first + ask.size
    BY <1>2, <1>5, <1>12, <1>13 DEF BehindOrPushed
  <2>1. CASE s \in slice
    BY <2>1, <1>7
  <2>2. CASE s \in seen
    <3>1. \/ \E t \in rows \ start : Before(t, s, ask.sort)
          \/ rank(s) < first
      BY <2>2, <1>2 DEF BehindOrPushed, rank, rows, first
    <3>2. rank(s) \in Nat
      BY <2>2, <1>6, <1>14
    <3> QED  BY <3>1, <3>2, <1>2, <1>5
  <2> QED  BY <2>1, <2>2, <1>1
<1>20. WalkMissesNothing'
  <2>1. walk' = "ended" /\ ask.page = 1 => start \subseteq seen'
    <3> SUFFICES ASSUME walk' = "ended", ask.page = 1, NEW s \in start, s \notin seen'
                 PROVE  FALSE
      OBVIOUS
    <3>1. first <= rank(s) /\ rank(s) \in 0 .. total - 1
      BY <1>1, <1>2, <1>6, <1>14 DEF AheadOrSeen, rank, rows, first
    <3>2. first + ask.size <= rank(s)
      BY <3>1, <1>1, <1>2, <1>5, <1>7, <1>14
    <3>3. slice # {}
      BY <3>1, <1>5, <1>8
    <3>4. page >= LastPage(total, ask.size)
      BY <3>3, <1>1, <1>2, <1>11
    <3>5. page = LastPage(total, ask.size) /\ total <= page * ask.size
      BY <3>3, <3>4, <1>2, <1>9
    <3> QED  BY <3>1, <3>2, <3>5, <1>2, <1>5, <1>8
  <2>2. seen' \subseteq Meant(ask)'
    BY <1>1, <1>7, <1>13, <1>14
  <2> QED  BY <2>1, <2>2, <1>2 DEF WalkMissesNothing
<1>21. SeenTwiceMeansSaved'
  <2> SUFFICES ASSUME NEW s \in twice'
               PROVE  \E t \in rows \ start : Before(t, s, ask.sort)
    BY <1>2, <1>13 DEF SeenTwiceMeansSaved
  <2>1. CASE s \in twice
    BY <2>1 DEF SeenTwiceMeansSaved, rows
  <2>2. CASE s \in seen /\ s \in slice
    <3>1. first <= rank(s) /\ rank(s) \in Nat
      BY <2>2, <1>6, <1>7
    <3>2. \/ \E t \in rows \ start : Before(t, s, ask.sort)
          \/ rank(s) < first
      BY <2>2, <1>2 DEF BehindOrPushed, rank, rows, first
    <3> QED  BY <3>1, <3>2, <1>5
  <2> QED  BY <2>1, <2>2, <1>1
<1>22. PagesFit'
  <2>1. CASE slice = {}
    BY <2>1, <1>1, <1>10 DEF PagesFit
  <2>2. CASE slice # {}
    BY <2>2, <1>1, <1>9, <1>11 DEF PagesFit
  <2> QED  BY <2>1, <2>2
<1>23. StatementsBind'
  <2>1. AskedPage' = page
    BY <1>1, <1>2 DEF AskedPage
  <2>2. first = (page - 1) * ask.size
    BY DEF first, Offset
  <2> QED  BY <2>1, <2>2, <1>1, <1>2, <1>4 DEF StatementsBind, saveVars
<1> QED  BY <1>15, <1>16, <1>17, <1>18, <1>19, <1>20, <1>21, <1>22, <1>23

-----------------------------------------------------------------------------

(* A step that changes nothing keeps the invariant.                        *)
LEMMA StuttersListing ==
    ASSUME ListingInvariant, UNCHANGED vars
    PROVE  ListingInvariant'
<1> USE DEF ListingInvariant
<1>1. UNCHANGED <<saveVars, walkVars>>
  BY DEF vars
<1>2. Drawn' = Drawn /\ IdsApart'
  BY <1>1 DEF Drawn, IdsApart, saveVars
<1>3. Meant(ask)' = Meant(ask)
  BY <1>1 DEF Meant, Committed, saveVars, walkVars
<1>4. WalkTyped' /\ BooksMeant' /\ AheadOrSeen' /\ BehindOrPushed'
  BY <1>1, <1>3 DEF WalkTyped, BooksMeant, AheadOrSeen, BehindOrPushed, Rank, Before,
                    saveVars, walkVars
<1>5. WalkMissesNothing' /\ SeenTwiceMeansSaved' /\ PagesFit' /\ StatementsBind'
  BY <1>1, <1>3 DEF WalkMissesNothing, SeenTwiceMeansSaved, PagesFit, StatementsBind,
                    AskedPage, Before, saveVars, walkVars
<1> QED  BY <1>2, <1>4, <1>5

(* The invariant of every listing: what the client means, what it has been *)
(* shown and what is still ahead of it, with an offset that counts books   *)
(* and a list that grows.                                                  *)
THEOREM ListingHolds == Spec => []ListingInvariant
<1>1. ListingInvariant /\ [Next]_vars => ListingInvariant'
  BY InsertListing, EndSaveListing, StartListing, StopListing, ReadPageListing,
     StuttersListing DEF Next
<1> QED  BY InitiallyListing, <1>1, PTL DEF Spec

(* The variables keep their types, and the metadata of a page with books   *)
(* have no zero (CalculateMetadata, Offset).                               *)
THEOREM ListingTypeCorrect == Spec => []TypeOK
<1>1. ListingInvariant => TypeOK
  BY DEF ListingInvariant, IdsApart, WalkTyped, BooksMeant, Meant, Committed, Drawn, TypeOK
<1> QED  BY ListingHolds, <1>1, PTL

(* A walk through the pages of GET /v1/books misses no book that was there *)
(* when it started, for any number of saves and any size of the pages.     *)
THEOREM WalksAreComplete == Spec => []WalkMissesNothing
<1>1. ListingInvariant => WalkMissesNothing
  BY DEF ListingInvariant
<1> QED  BY ListingHolds, <1>1, PTL

(* A book is shown on two pages only if a book committed during the walk   *)
(* sorts before it.                                                        *)
THEOREM RepeatsAreExplained == Spec => []SeenTwiceMeansSaved
<1>1. ListingInvariant => SeenTwiceMeansSaved
  BY DEF ListingInvariant
<1> QED  BY ListingHolds, <1>1, PTL

(* CalculateMetadata, LIMIT and OFFSET agree on every page.                *)
THEOREM MetadataFits == Spec => []PagesFit
<1>1. ListingInvariant => PagesFit
  BY DEF ListingInvariant
<1> QED  BY ListingHolds, <1>1, PTL

(* namedQuery binds what the client sent, in every order of its map.       *)
THEOREM NamesAreBound == Spec => []StatementsBind
<1>1. ListingInvariant => StatementsBind
  BY DEF ListingInvariant
<1> QED  BY ListingHolds, <1>1, PTL

(* The row of a book: the columns of b, and then those of u, meet the      *)
(* fields of the book and then those of the user in it.                    *)
LEMMA BookRow ==
    ASSUME NEW s
    PROVE  /\ Scans(ListRow(s), "Book")
           /\ \A field \in Scan(ListRow(s), "Book") : field[2] = Home(field[1], s)
<1> DEFINE p == fields["Book"]
           a == columns["Book"]
           u == fields["User"]
           key == row[s].values.user_id
           own == Cells("b", a, s)
           owner == Cells("u", UserTable, key)
<1>1. /\ CollectFields["Book"] = p /\ CollectColumns["Book"] = a
      /\ CollectColumns["User"] = UserTable
  BY Sizes, UserColumns DEF CollectFields, CollectColumns
<1>2. ListRow(s) = own \o owner
  BY <1>1 DEF ListRow
<1>3. /\ Len(a) \in Nat /\ Len(p) = Len(a) + Len(u)
      /\ \A j \in 1 .. Len(a) : Tag[LastOf(p[j])] = a[j] /\ p[j][1] # "User"
      /\ \A j \in 1 .. Len(u) : p[Len(a) + j] = <<"User">> \o u[j]
      /\ a \in Seq(Columns)
  BY BookMatched
<1>4. /\ Len(u) = 13 /\ u \in Seq(Paths)
      /\ \A j \in 1 .. 13 : Tag[LastOf(u[j])] = UserTable[j]
  BY UserMatched, UserColumns, TableAt DEF Matched
<1>5. /\ Len(own) = Len(a) /\ DOMAIN own = 1 .. Len(a)
      /\ \A i \in 1 .. Len(a) : own[i] = <<"b", a[i], s>>
  <2>1. DOMAIN a = 1 .. Len(a)
    BY <1>3
  <2> QED  BY <2>1, <1>3, CellsOf
<1>6. /\ Len(owner) = 13 /\ DOMAIN owner = 1 .. 13
      /\ \A i \in 1 .. 13 : owner[i] = <<"u", UserTable[i], key>>
  BY TableAt, CellsOf
<1> HIDE DEF p, a, u, key, own, owner
<1>7. /\ Len(own \o owner) = Len(a) + 13 /\ DOMAIN (own \o owner) = 1 .. Len(a) + 13
      /\ \A i \in 1 .. Len(a) + 13 :
            (own \o owner)[i] = IF i <= Len(a) THEN own[i] ELSE owner[i - Len(a)]
  <2>1. own = [i \in 1 .. Len(a) |-> own[i]] /\ owner = [i \in 1 .. 13 |-> owner[i]]
    BY <1>5, <1>6 DEF own, owner, Cells
  <2>2. 13 \in Nat
    OBVIOUS
  <2> QED  BY <1>3, <1>5, <1>6, <2>1, <2>2, CellsJoined
<1>8. Scans(ListRow(s), "Book")
  BY <1>1, <1>2, <1>3, <1>4, <1>7 DEF Scans
<1>9. ASSUME NEW i \in 1 .. Len(a) + 13
      PROVE  (own \o owner)[i] = Home(p[i], s)
  <2>1. CASE i <= Len(a)
    <3>1. i \in 1 .. Len(a)
      BY <2>1, <1>3
    <3>2. (own \o owner)[i] = <<"b", Tag[LastOf(p[i])], s>> /\ p[i][1] # "User"
      BY <2>1, <3>1, <1>3, <1>5, <1>7
    <3> QED  BY <3>2 DEF Home, LastOf
  <2>2. CASE ~ i <= Len(a)
    <3> DEFINE j == i - Len(a)
    <3>1. j \in 1 .. 13 /\ Len(a) + j = i
      <4>1. Len(a) \in Nat
        BY <1>3
      <4> QED  BY <2>2, <4>1
    <3>2. (own \o owner)[i] = owner[i - Len(a)]
      BY <2>2, <1>7
    <3>3. (own \o owner)[i] = owner[j]
      BY <3>2
    <3> HIDE DEF j
    <3>4. (own \o owner)[i] = <<"u", Tag[LastOf(u[j])], key>>
      BY <3>1, <3>3, <1>4, <1>6
    <3>5. p[i] = <<"User">> \o u[j] /\ u[j] \in Paths
      <4>1. j \in 1 .. Len(u)
        BY <3>1, <1>4
      <4>2. u[j] \in Paths
        BY <4>1, <1>4, ElementOfSeq
      <4> QED  BY <4>1, <4>2, <3>1, <1>3
    <3>6. p[i][1] = "User" /\ LastOf(p[i]) = LastOf(u[j])
      BY <3>5, InsidePath DEF Names
    <3> QED  BY <3>4, <3>6 DEF Home, LastOf, key
  <2> QED  BY <2>1, <2>2
<1>10. Scan(ListRow(s), "Book") = {<<p[i], (own \o owner)[i]>> : i \in 1 .. Len(a) + 13}
  BY <1>1, <1>2, <1>7 DEF Scan
<1>11. ASSUME NEW field \in Scan(ListRow(s), "Book")
       PROVE  field[2] = Home(field[1], s)
  <2>1. PICK i \in 1 .. Len(a) + 13 : field = <<p[i], (own \o owner)[i]>>
    BY <1>10
  <2>2. field[1] = p[i] /\ field[2] = (own \o owner)[i]
    BY <2>1
  <2> QED  BY <1>9, <2>2
<1> QED  BY <1>8, <1>11

(* The columns of every SELECT meet the fields of its Scan, in every state *)
(* and for every book (collectColumns, collectFields).                     *)
THEOREM RowsAreWhole == Spec => []RowsArriveWhole
<1>1. RowsArriveWhole
  <2> SUFFICES ASSUME NEW s \in Committed
               PROVE  LET owner == Cells("u", UserTable, row[s].values.user_id)
                      IN  /\ Scans(ListRow(s), "Book") /\ Scans(owner, "User")
                          /\ \A field \in Scan(ListRow(s), "Book") :
                                field[2] = Home(field[1], s)
                          /\ \A field \in Scan(owner, "User") :
                                field[2] = Home(<<"User">> \o field[1], s)
    BY DEF RowsArriveWhole
  <2> DEFINE key == row[s].values.user_id
             owner == Cells("u", UserTable, key)
  <2>1. /\ Scans(owner, "User")
        /\ \A field \in Scan(owner, "User") :
              field[1] \in Paths /\ field[2] = <<"u", Tag[LastOf(field[1])], key>>
    BY UserRow
  <2> HIDE DEF owner
  <2>2. ASSUME NEW field \in Scan(owner, "User")
        PROVE  field[2] = Home(<<"User">> \o field[1], s)
    <3> DEFINE path == <<"User">> \o field[1]
    <3>1. path[1] = "User" /\ LastOf(path) = LastOf(field[1])
      BY <2>1, InsidePath DEF Names
    <3> HIDE DEF path
    <3>2. Home(path, s) = <<"u", Tag[LastOf(field[1])], key>>
      BY <3>1 DEF Home, LastOf
    <3> QED  BY <2>1, <3>2 DEF path
  <2> QED  BY <2>1, <2>2, BookRow DEF owner
<1> QED  BY <1>1, PTL

=============================================================================
