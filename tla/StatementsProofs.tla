-------------------------- MODULE StatementsProofs --------------------------
(***************************************************************************)
(* Proofs about Statements: the columns of a SELECT and the fields of its  *)
(* Scan correspond, struct by struct, and when a statement survives        *)
(* namedQuery.                                                             *)
(*                                                                         *)
(* fields and columns are recursive functions on the structs, so nothing   *)
(* is known of them until they are shown to exist: a struct contains only  *)
(* structs that are less deep, which settles one depth after the other.    *)
(* What FlattenSeq joins is followed item by item, by an induction over    *)
(* the set of the numbers of items for which a fact holds.                 *)
(***************************************************************************)
EXTENDS Statements, WellFoundedInduction, SequenceTheorems, FiniteSetTheorems,
        FunctionTheorems, TLAPS

-----------------------------------------------------------------------------
(***************************************************************************)
(* Induction on the natural numbers, and FlattenSeq one item at a time.    *)
(***************************************************************************)

(* The order of the naturals is well founded.                              *)
LEMMA LeastNatural ==
    ASSUME NEW T, T \subseteq Nat, T # {}
    PROVE  \E n \in T : \A m \in T : n <= m
<1> DEFINE R == {ss \in Nat \X Nat : ss[1] < ss[2]}
<1>1. IsWellFoundedOn(R, Nat)
  BY NatLessThanWellFounded, Zenon DEF OpToRel
<1>2. \A m, n \in Nat : m < n => <<m, n>> \in R
  OBVIOUS
<1> HIDE DEF R
<1>3. PICK n \in T : \A m \in T : <<m, n>> \notin R
  BY <1>1, WFMin
<1>4. ASSUME NEW m \in T PROVE n <= m
  <2>1. ~ m < n
    BY <1>2, <1>3, Zenon
  <2> QED  BY <2>1
<1> QED  BY <1>4

(* Induction, for a set instead of a predicate.                            *)
LEMMA NatSetInduction ==
    ASSUME NEW S, 0 \in S, \A n \in Nat : n \in S => n + 1 \in S
    PROVE  \A n \in Nat : n \in S
<1> SUFFICES ASSUME {n \in Nat : n \notin S} # {} PROVE FALSE
  OBVIOUS
<1>1. PICK n \in Nat : n \notin S /\ \A m \in Nat : m \notin S => n <= m
  BY LeastNatural
<1>2. n # 0 /\ n - 1 \in Nat
  BY <1>1
<1>3. n - 1 \in S
  BY <1>1, <1>2
<1> QED  BY <1>1, <1>2, <1>3

(* f joins the first items of s, each onto those before it.                *)
Unrolls(f, s, n) == f = [i \in 1 .. n |-> IF i = 1 THEN s[i] ELSE f[i - 1] \o s[i]]

(* What the function that joins has at each place.                         *)
LEMMA UnrollsAt ==
    ASSUME NEW f, NEW s, NEW n, Unrolls(f, s, n), NEW i \in 1 .. n
    PROVE  f[i] = IF i = 1 THEN s[i] ELSE f[i - 1] \o s[i]
BY Zenon DEF Unrolls

(* There is such a function, for any number of items.                      *)
LEMMA Unrolling ==
    ASSUME NEW s, NEW n \in Nat
    PROVE  \E f : Unrolls(f, s, n)
<1> DEFINE S == {k \in Nat : \E f : Unrolls(f, s, k)}
<1>1. 0 \in S
  <2>1. Unrolls([i \in 1 .. 0 |-> s[i]], s, 0)
    BY DEF Unrolls
  <2> QED  BY <2>1
<1>2. ASSUME NEW k \in Nat, k \in S PROVE k + 1 \in S
  <2>1. PICK f : Unrolls(f, s, k)
    BY <1>2
  <2> DEFINE g == [i \in 1 .. k + 1 |->
                     IF i = 1 THEN s[i] ELSE f[i - 1] \o s[i]]
  <2>2. \A i \in 1 .. k : f[i] = g[i]
    <3>1. \A i \in 1 .. k : f[i] = IF i = 1 THEN s[i] ELSE f[i - 1] \o s[i]
      BY <2>1, UnrollsAt
    <3>2. \A i \in 1 .. k : i \in 1 .. k + 1
      OBVIOUS
    <3> QED  BY <3>1, <3>2
  <2>3. Unrolls(g, s, k + 1)
    <3>1. \A i \in 1 .. k + 1 : i = 1 \/ i - 1 \in 1 .. k
      OBVIOUS
    <3>2. \A i \in 1 .. k + 1 : g[i] = IF i = 1 THEN s[i] ELSE g[i - 1] \o s[i]
      BY <2>2, <3>1
    <3> QED  BY <3>2 DEF Unrolls
  <2> QED  BY <2>3
<1> HIDE DEF S
<1>3. n \in S
  BY <1>1, <1>2, NatSetInduction
<1> QED  BY <1>3 DEF S

(* FlattenSeq joins all the items, and f what comes up to each.            *)
Joins(f, s, n) == f[1] = s[1] /\ \A k \in 2 .. n : f[k] = f[k - 1] \o s[k]

(* A function that unrolls joins: it is the one above, item by item.       *)
LEMMA UnrollingJoins ==
    ASSUME NEW f, NEW s, NEW n \in Nat \ {0}, Unrolls(f, s, n)
    PROVE  Joins(f, s, n)
<1>1. \A k \in 1 .. n : f[k] = IF k = 1 THEN s[k] ELSE f[k - 1] \o s[k]
  BY UnrollsAt
<1>2. f[1] = s[1]
  BY <1>1
<1>3. ASSUME NEW k \in 2 .. n PROVE f[k] = f[k - 1] \o s[k]
  <2>1. k \in 1 .. n /\ k # 1
    OBVIOUS
  <2> QED  BY <1>1, <2>1
<1> QED  BY <1>2, <1>3 DEF Joins

(* FlattenSeq is what such a function has at the last item.                *)
LEMMA Flattened ==
    ASSUME NEW s, NEW n \in Nat \ {0}, Len(s) = n
    PROVE  \E f : Joins(f, s, n) /\ FlattenSeq(s) = f[n]
<1> DEFINE f == CHOOSE f : Unrolls(f, s, n)
<1>1. Unrolls(f, s, n)
  BY Unrolling
<1>2. FlattenSeq(s) = f[n]
  BY DEF FlattenSeq, Unrolls
<1> HIDE DEF f
<1> QED  BY <1>1, <1>2, UnrollingJoins

-----------------------------------------------------------------------------
(***************************************************************************)
(* The structs, and the functions that walk them.                          *)
(***************************************************************************)

Names == {"ID", "Name", "Email", "Phone", "Cod", "Password", "Activated", "BaseModel",
          "Plaintext", "Hash", "Version", "Deleted", "CreatedAt", "CreatedBy", "UpdatedAt",
          "UpdatedBy", "Title", "Author", "Pages", "Description", "User", "wall", "ext", "loc"}

TagOf ==
  [ID |-> "id", Name |-> "name", Email |-> "email", Phone |-> "phone", Cod |-> "cod",
   Activated |-> "activated", Hash |-> "password_hash", Version |-> "version",
   Deleted |-> "deleted", CreatedAt |-> "created_at", CreatedBy |-> "created_by",
   UpdatedAt |-> "updated_at", UpdatedBy |-> "updated_by", Title |-> "title",
   Author |-> "author", Pages |-> "pages", Description |-> "description"]

Depth == [Time |-> 0, password |-> 0, BaseModel |-> 1, User |-> 2, Book |-> 3]

IsTagged(d) == d[2] \notin {"none", "-"}

(* What a lemma needs of a field d of the struct t: the tag is the one of  *)
(* its name, a struct in it is less deep, and the one field of a struct    *)
(* type that has a tag is a time.                                          *)
Regular(d, t) ==
    /\ d[1] \in Names
    /\ IsTagged(d) => /\ d[1] \in DOMAIN TagOf /\ TagOf[d[1]] = d[2]
                      /\ Nested(d[3]) => d[3] = "Time"
    /\ Nested(d[3]) => Depth[d[3]] < Depth[t]

(* The structs that there are.                                             *)
LEMMA Structs == DOMAIN Decl = {"User", "password", "BaseModel", "Book", "Time"}
BY DEF Decl

(* The declarations, one struct after the other.                           *)
LEMMA TimeDecl ==
    /\ Decl["Time"] = << <<"wall", "none", "none">>, <<"ext", "none", "none">>,
                         <<"loc", "none", "none">> >>
    /\ DOMAIN Decl["Time"] = 1 .. 3 /\ Len(Decl["Time"]) = 3
    /\ \A i \in 1 .. 3 : Regular(Decl["Time"][i], "Time")
<1>1. Decl["Time"] = << <<"wall", "none", "none">>, <<"ext", "none", "none">>,
                        <<"loc", "none", "none">> >>
  BY DEF Decl
<1>2. DOMAIN Decl["Time"] = 1 .. 3 /\ Len(Decl["Time"]) = 3
  BY <1>1
<1>3. ASSUME NEW i \in 1 .. 3 PROVE Regular(Decl["Time"][i], "Time")
  BY <1>1, Structs DEF Regular, IsTagged, Nested, Names
<1> QED  BY <1>1, <1>2, <1>3

(* The declaration of a password.                                          *)
LEMMA PasswordDecl ==
    /\ Decl["password"] = << <<"Plaintext", "none", "none">>,
                             <<"Hash", "password_hash", "none">> >>
    /\ DOMAIN Decl["password"] = 1 .. 2 /\ Len(Decl["password"]) = 2
    /\ \A i \in 1 .. 2 : Regular(Decl["password"][i], "password")
<1>1. Decl["password"] = << <<"Plaintext", "none", "none">>,
                            <<"Hash", "password_hash", "none">> >>
  BY DEF Decl
<1>2. DOMAIN Decl["password"] = 1 .. 2 /\ Len(Decl["password"]) = 2
  BY <1>1
<1>3. ASSUME NEW i \in 1 .. 2 PROVE Regular(Decl["password"][i], "password")
  BY <1>1, Structs DEF Regular, IsTagged, Nested, Names, TagOf
<1> QED  BY <1>1, <1>2, <1>3

(* The declaration of a BaseModel.                                         *)
LEMMA BaseModelDecl ==
    /\ Decl["BaseModel"] =
          << <<"Version", "version", "none">>, <<"Deleted", "deleted", "none">>,
             <<"CreatedAt", "created_at", "Time">>, <<"CreatedBy", "created_by", "none">>,
             <<"UpdatedAt", "updated_at", "Time">>, <<"UpdatedBy", "updated_by", "none">> >>
    /\ DOMAIN Decl["BaseModel"] = 1 .. 6 /\ Len(Decl["BaseModel"]) = 6
    /\ \A i \in 1 .. 6 : Regular(Decl["BaseModel"][i], "BaseModel")
<1>1. Decl["BaseModel"] =
          << <<"Version", "version", "none">>, <<"Deleted", "deleted", "none">>,
             <<"CreatedAt", "created_at", "Time">>, <<"CreatedBy", "created_by", "none">>,
             <<"UpdatedAt", "updated_at", "Time">>, <<"UpdatedBy", "updated_by", "none">> >>
  BY DEF Decl
<1>2. DOMAIN Decl["BaseModel"] = 1 .. 6 /\ Len(Decl["BaseModel"]) = 6
  BY <1>1
<1>3. ASSUME NEW i \in 1 .. 6 PROVE Regular(Decl["BaseModel"][i], "BaseModel")
  BY <1>1, Structs DEF Regular, IsTagged, Nested, Names, TagOf, Depth
<1> QED  BY <1>1, <1>2, <1>3

(* The declaration of a user.                                              *)
LEMMA UserDecl ==
    /\ Decl["User"] =
          << <<"ID", "id", "none">>, <<"Name", "name", "none">>,
             <<"Email", "email", "none">>, <<"Phone", "phone", "none">>,
             <<"Cod", "cod", "none">>, <<"Password", "none", "password">>,
             <<"Activated", "activated", "none">>, <<"BaseModel", "none", "BaseModel">> >>
    /\ DOMAIN Decl["User"] = 1 .. 8 /\ Len(Decl["User"]) = 8
    /\ \A i \in 1 .. 8 : Regular(Decl["User"][i], "User")
<1>1. Decl["User"] =
          << <<"ID", "id", "none">>, <<"Name", "name", "none">>,
             <<"Email", "email", "none">>, <<"Phone", "phone", "none">>,
             <<"Cod", "cod", "none">>, <<"Password", "none", "password">>,
             <<"Activated", "activated", "none">>, <<"BaseModel", "none", "BaseModel">> >>
  BY DEF Decl
<1>2. DOMAIN Decl["User"] = 1 .. 8 /\ Len(Decl["User"]) = 8
  BY <1>1
<1>3. ASSUME NEW i \in 1 .. 8 PROVE Regular(Decl["User"][i], "User")
  BY <1>1, Structs DEF Regular, IsTagged, Nested, Names, TagOf, Depth
<1> QED  BY <1>1, <1>2, <1>3

(* The declaration of a book.                                              *)
LEMMA BookDecl ==
    /\ Decl["Book"] =
          << <<"ID", "id", "none">>, <<"Title", "title", "none">>,
             <<"Author", "author", "none">>, <<"Pages", "pages", "none">>,
             <<"Description", "description", "none">>,
             <<"BaseModel", "none", "BaseModel">>, <<"User", "-", "User">> >>
    /\ DOMAIN Decl["Book"] = 1 .. 7 /\ Len(Decl["Book"]) = 7
    /\ \A i \in 1 .. 7 : Regular(Decl["Book"][i], "Book")
<1>1. Decl["Book"] =
          << <<"ID", "id", "none">>, <<"Title", "title", "none">>,
             <<"Author", "author", "none">>, <<"Pages", "pages", "none">>,
             <<"Description", "description", "none">>,
             <<"BaseModel", "none", "BaseModel">>, <<"User", "-", "User">> >>
  BY DEF Decl
<1>2. DOMAIN Decl["Book"] = 1 .. 7 /\ Len(Decl["Book"]) = 7
  BY <1>1
<1>3. ASSUME NEW i \in 1 .. 7 PROVE Regular(Decl["Book"][i], "Book")
  BY <1>1, Structs DEF Regular, IsTagged, Nested, Names, TagOf, Depth
<1> QED  BY <1>1, <1>2, <1>3

(* How many fields each has.                                               *)
LEMMA Sizes ==
    /\ "Time" \in DOMAIN Decl /\ DOMAIN Decl["Time"] = 1 .. 3
    /\ "password" \in DOMAIN Decl /\ DOMAIN Decl["password"] = 1 .. 2
    /\ "BaseModel" \in DOMAIN Decl /\ DOMAIN Decl["BaseModel"] = 1 .. 6
    /\ "User" \in DOMAIN Decl /\ DOMAIN Decl["User"] = 1 .. 8
    /\ "Book" \in DOMAIN Decl /\ DOMAIN Decl["Book"] = 1 .. 7
<1>1. \A t \in {"User", "password", "BaseModel", "Book", "Time"} : t \in DOMAIN Decl
  BY Structs
<1> QED  BY <1>1, TimeDecl, PasswordDecl, BaseModelDecl, UserDecl, BookDecl, Zenon

(* Every field of every struct is regular.                                 *)
LEMMA AllRegular ==
    /\ \A t \in DOMAIN Decl : Depth[t] \in 0 .. 3
    /\ \A t \in DOMAIN Decl : \A i \in DOMAIN Decl[t] : Regular(Decl[t][i], t)
<1>1. \A t \in DOMAIN Decl : Depth[t] \in 0 .. 3
  BY Structs DEF Depth
<1>2. \A t \in DOMAIN Decl : \A i \in DOMAIN Decl[t] : Regular(Decl[t][i], t)
  BY Structs, TimeDecl, PasswordDecl, BaseModelDecl, UserDecl, BookDecl, Zenon
<1> QED  BY <1>1, <1>2

(* Tag gives each name of a field the tag that it is declared with.        *)
LEMMA TagsAreUnique ==
    ASSUME NEW t \in DOMAIN Decl, NEW i \in DOMAIN Decl[t], IsTagged(Decl[t][i])
    PROVE  Tag[Decl[t][i][1]] = TagOf[Decl[t][i][1]]
<1> DEFINE name == Decl[t][i][1]
           f == CHOOSE f \in Tagged : f[1] = name
<1>1. \A d \in Tagged : TagOf[d[1]] = d[2]
  <2> SUFFICES ASSUME NEW u \in DOMAIN Decl, NEW d \in ToSet(Decl[u]), IsTagged(d)
               PROVE  TagOf[d[1]] = d[2]
    BY DEF Tagged, IsTagged
  <2>1. PICK k \in DOMAIN Decl[u] : d = Decl[u][k]
    BY DEF ToSet
  <2> QED  BY <2>1, AllRegular DEF Regular
<1>2. Decl[t][i] \in Tagged
  BY DEF Tagged, ToSet, IsTagged
<1>3. f \in Tagged /\ f[1] = name
  BY <1>2
<1>4. Tag[name] = f[2]
  BY <1>2 DEF Tag
<1> QED  BY <1>1, <1>3, <1>4

-----------------------------------------------------------------------------
(***************************************************************************)
(* fields and columns exist: each is what its equation says of it.         *)
(***************************************************************************)

(* What one field of a struct adds to its fields and to its columns, where *)
(* g is what those of the other structs are.                               *)
FieldItem(g, d) ==
    LET name == d[1]  tag == d[2]  type == d[3]
    IN  IF tag \notin {"none", "-"} THEN << <<name>> >>
        ELSE IF ~ Nested(type) THEN <<>>
        ELSE [j \in DOMAIN g[type] |-> <<name>> \o g[type][j]]

ColumnItem(g, d) ==
    LET tag == d[2]  type == d[3]
    IN  IF tag = "-" THEN <<>>
        ELSE (IF tag = "none" THEN <<>> ELSE <<tag>>)
             \o (IF Nested(type) THEN g[type] ELSE <<>>)

FieldsOf(g) ==
    [t \in DOMAIN Decl |-> FlattenSeq([i \in DOMAIN Decl[t] |-> FieldItem(g, Decl[t][i])])]

ColumnsOf(g) ==
    [t \in DOMAIN Decl |-> FlattenSeq([i \in DOMAIN Decl[t] |-> ColumnItem(g, Decl[t][i])])]

(* The two agree on one more depth of structs than they are given.         *)
LEMMA FieldsAgree ==
    ASSUME NEW g, NEW h, NEW n \in Nat,
           \A t \in DOMAIN Decl : Depth[t] < n => g[t] = h[t]
    PROVE  \A t \in DOMAIN Decl : Depth[t] < n + 1 => FieldsOf(g)[t] = FieldsOf(h)[t]
<1> SUFFICES ASSUME NEW t \in DOMAIN Decl, Depth[t] < n + 1
             PROVE  FieldsOf(g)[t] = FieldsOf(h)[t]
  OBVIOUS
<1>1. ASSUME NEW i \in DOMAIN Decl[t]
      PROVE  FieldItem(g, Decl[t][i]) = FieldItem(h, Decl[t][i])
  <2> DEFINE type == Decl[t][i][3]
  <2>1. ASSUME Nested(type) PROVE g[type] = h[type]
    <3>1. type \in DOMAIN Decl
      BY <2>1 DEF Nested
    <3>2. Depth[type] < Depth[t] /\ Depth[type] \in Nat /\ Depth[t] \in Nat
      BY <2>1, <3>1, AllRegular DEF Regular
    <3>3. Depth[type] < n
      BY <3>2
    <3> QED  BY <3>1, <3>3
  <2> QED  BY <2>1 DEF FieldItem
<1>2. [i \in DOMAIN Decl[t] |-> FieldItem(g, Decl[t][i])]
      = [i \in DOMAIN Decl[t] |-> FieldItem(h, Decl[t][i])]
  BY <1>1
<1> QED  BY <1>2 DEF FieldsOf

(* The same for the columns.                                               *)
LEMMA ColumnsAgree ==
    ASSUME NEW g, NEW h, NEW n \in Nat,
           \A t \in DOMAIN Decl : Depth[t] < n => g[t] = h[t]
    PROVE  \A t \in DOMAIN Decl : Depth[t] < n + 1 => ColumnsOf(g)[t] = ColumnsOf(h)[t]
<1> SUFFICES ASSUME NEW t \in DOMAIN Decl, Depth[t] < n + 1
             PROVE  ColumnsOf(g)[t] = ColumnsOf(h)[t]
  OBVIOUS
<1>1. ASSUME NEW i \in DOMAIN Decl[t]
      PROVE  ColumnItem(g, Decl[t][i]) = ColumnItem(h, Decl[t][i])
  <2> DEFINE type == Decl[t][i][3]
  <2>1. ASSUME Nested(type) PROVE g[type] = h[type]
    <3>1. type \in DOMAIN Decl
      BY <2>1 DEF Nested
    <3>2. Depth[type] < Depth[t] /\ Depth[type] \in Nat /\ Depth[t] \in Nat
      BY <2>1, <3>1, AllRegular DEF Regular
    <3>3. Depth[type] < n
      BY <3>2
    <3> QED  BY <3>1, <3>3
  <2> QED  BY <2>1 DEF ColumnItem
<1>2. [i \in DOMAIN Decl[t] |-> ColumnItem(g, Decl[t][i])]
      = [i \in DOMAIN Decl[t] |-> ColumnItem(h, Decl[t][i])]
  BY <1>1
<1> QED  BY <1>2 DEF ColumnsOf

(* A round settles one more depth of structs.                              *)
FieldsSettled(g, n) == \A t \in DOMAIN Decl : Depth[t] < n => g[t] = FieldsOf(g)[t]

ColumnsSettled(g, n) == \A t \in DOMAIN Decl : Depth[t] < n => g[t] = ColumnsOf(g)[t]

(* Four rounds reach every struct, so fields is what its definition says.  *)
LEMMA FieldsUnfold == fields = FieldsOf(fields)
<1> DEFINE g0 == [t \in DOMAIN Decl |-> <<>>]
           g1 == FieldsOf(g0)
           g2 == FieldsOf(g1)
           g3 == FieldsOf(g2)
           g4 == FieldsOf(g3)
<1>1. ASSUME NEW g, NEW n \in Nat, FieldsSettled(g, n) PROVE FieldsSettled(FieldsOf(g), n + 1)
  BY <1>1, FieldsAgree DEF FieldsSettled
<1>2. FieldsSettled(g0, 0)
  BY AllRegular DEF FieldsSettled
<1> HIDE DEF g0
<1>3. FieldsSettled(g1, 1)
  BY <1>1, <1>2, 0 + 1 = 1
<1> HIDE DEF g1
<1>4. FieldsSettled(g2, 2)
  BY <1>1, <1>3, 1 + 1 = 2
<1> HIDE DEF g2
<1>5. FieldsSettled(g3, 3)
  BY <1>1, <1>4, 2 + 1 = 3
<1> HIDE DEF g3
<1>6. FieldsSettled(g4, 4)
  BY <1>1, <1>5, 3 + 1 = 4
<1>7. \A t \in DOMAIN Decl : g4[t] = FieldsOf(g4)[t]
  BY <1>6, AllRegular DEF FieldsSettled
<1>8. g4 = FieldsOf(g4)
  BY <1>7 DEF FieldsOf
<1>9. fields = CHOOSE g : g = FieldsOf(g)
  BY DEF fields, FieldsOf, FieldItem
<1> HIDE DEF fields, g4
<1> QED  BY <1>8, <1>9

(* And so is columns.                                                      *)
LEMMA ColumnsUnfold == columns = ColumnsOf(columns)
<1> DEFINE g0 == [t \in DOMAIN Decl |-> <<>>]
           g1 == ColumnsOf(g0)
           g2 == ColumnsOf(g1)
           g3 == ColumnsOf(g2)
           g4 == ColumnsOf(g3)
<1>1. ASSUME NEW g, NEW n \in Nat, ColumnsSettled(g, n) PROVE ColumnsSettled(ColumnsOf(g), n + 1)
  BY <1>1, ColumnsAgree DEF ColumnsSettled
<1>2. ColumnsSettled(g0, 0)
  BY AllRegular DEF ColumnsSettled
<1> HIDE DEF g0
<1>3. ColumnsSettled(g1, 1)
  BY <1>1, <1>2, 0 + 1 = 1
<1> HIDE DEF g1
<1>4. ColumnsSettled(g2, 2)
  BY <1>1, <1>3, 1 + 1 = 2
<1> HIDE DEF g2
<1>5. ColumnsSettled(g3, 3)
  BY <1>1, <1>4, 2 + 1 = 3
<1> HIDE DEF g3
<1>6. ColumnsSettled(g4, 4)
  BY <1>1, <1>5, 3 + 1 = 4
<1>7. \A t \in DOMAIN Decl : g4[t] = ColumnsOf(g4)[t]
  BY <1>6, AllRegular DEF ColumnsSettled
<1>8. g4 = ColumnsOf(g4)
  BY <1>7 DEF ColumnsOf
<1>9. columns = CHOOSE g : g = ColumnsOf(g)
  BY DEF columns, ColumnsOf, ColumnItem
<1> HIDE DEF columns, g4
<1> QED  BY <1>8, <1>9

(* A struct joins what its fields add, in the order of the declaration.    *)
FieldItems(t) == [i \in DOMAIN Decl[t] |-> FieldItem(fields, Decl[t][i])]

ColumnItems(t) == [i \in DOMAIN Decl[t] |-> ColumnItem(columns, Decl[t][i])]

(* The fields and the columns of a struct join those items.                *)
LEMMA StructJoins ==
    ASSUME NEW t \in DOMAIN Decl, NEW n \in Nat \ {0}, DOMAIN Decl[t] = 1 .. n
    PROVE  /\ \E f : Joins(f, FieldItems(t), n) /\ fields[t] = f[n]
           /\ \E g : Joins(g, ColumnItems(t), n) /\ columns[t] = g[n]
<1>1. fields[t] = FlattenSeq(FieldItems(t)) /\ columns[t] = FlattenSeq(ColumnItems(t))
  <2>1. FieldsOf(fields)[t] = FlattenSeq(FieldItems(t))
    BY DEF FieldsOf, FieldItems
  <2>2. ColumnsOf(columns)[t] = FlattenSeq(ColumnItems(t))
    BY DEF ColumnsOf, ColumnItems
  <2> QED  BY <2>1, <2>2, FieldsUnfold, ColumnsUnfold, Zenon
<1>2. Len(FieldItems(t)) = n /\ Len(ColumnItems(t)) = n
  BY DEF FieldItems, ColumnItems
<1>3. /\ \E f : Joins(f, FieldItems(t), n) /\ FlattenSeq(FieldItems(t)) = f[n]
      /\ \E g : Joins(g, ColumnItems(t), n) /\ FlattenSeq(ColumnItems(t)) = g[n]
  BY <1>2, Flattened
<1> QED  BY <1>1, <1>3, Zenon

-----------------------------------------------------------------------------
(***************************************************************************)
(* Fields and columns correspond.                                          *)
(***************************************************************************)

Paths == Seq(Names) \ {<<>>}

Columns == {TagOf[name] : name \in DOMAIN TagOf}

LastOf(path) == path[Len(path)]

(* The paths p and the columns c stand for the same fields in the same     *)
(* order, and every path begins with one of the names in heads.            *)
Matched(p, c, heads) ==
    /\ p \in Seq(Paths) /\ c \in Seq(Columns) /\ Len(p) = Len(c)
    /\ \A j \in 1 .. Len(p) : Tag[LastOf(p[j])] = c[j] /\ p[j][1] \in heads

(* What is joined still corresponds,                                       *)
LEMMA MatchedJoined ==
    ASSUME NEW p, NEW c, NEW q, NEW d, NEW heads,
           Matched(p, c, heads), Matched(q, d, heads)
    PROVE  Matched(p \o q, c \o d, heads)
<1>1. /\ p \in Seq(Paths) /\ q \in Seq(Paths) /\ c \in Seq(Columns) /\ d \in Seq(Columns)
      /\ Len(p) = Len(c) /\ Len(q) = Len(d)
  BY DEF Matched
<1>2. /\ p \o q \in Seq(Paths) /\ c \o d \in Seq(Columns)
      /\ Len(p \o q) = Len(p) + Len(q) /\ Len(c \o d) = Len(c) + Len(d)
  <2>1. p \o q \in Seq(Paths) /\ Len(p \o q) = Len(p) + Len(q)
    BY <1>1, ConcatProperties
  <2>2. c \o d \in Seq(Columns) /\ Len(c \o d) = Len(c) + Len(d)
    BY <1>1, ConcatProperties
  <2> QED  BY <2>1, <2>2
<1>3. ASSUME NEW j \in 1 .. Len(p \o q)
      PROVE  Tag[LastOf((p \o q)[j])] = (c \o d)[j] /\ (p \o q)[j][1] \in heads
  <2>1. CASE j <= Len(p)
    <3>1. (p \o q)[j] = p[j] /\ (c \o d)[j] = c[j] /\ j \in 1 .. Len(p)
      BY <1>1, <1>2, <2>1
    <3> QED  BY <3>1 DEF Matched
  <2>2. CASE Len(p) < j
    <3>1. /\ (p \o q)[j] = q[j - Len(p)] /\ (c \o d)[j] = d[j - Len(p)]
          /\ j - Len(p) \in 1 .. Len(q)
      BY <1>1, <1>2, <2>2
    <3> QED  BY <3>1 DEF Matched
  <2>3. j <= Len(p) \/ Len(p) < j
    BY <1>1, <1>2
  <2> QED  BY <2>1, <2>2, <2>3, Zenon
<1> QED  BY <1>1, <1>2, <1>3 DEF Matched

(* for any number of items.                                                *)
LEMMA MatchedSoFar ==
    ASSUME NEW s, NEW r, NEW n \in Nat, NEW m \in 1 .. n, NEW heads,
           NEW f, NEW g, Joins(f, s, n), Joins(g, r, n),
           \A i \in 1 .. m : Matched(s[i], r[i], heads)
    PROVE  Matched(f[m], g[m], heads)
<1> DEFINE S == {k \in Nat : 1 <= k /\ k <= m => Matched(f[k], g[k], heads)}
<1>1. 0 \in S
  OBVIOUS
<1>2. ASSUME NEW k \in Nat, k \in S PROVE k + 1 \in S
  <2> SUFFICES ASSUME k + 1 <= m PROVE Matched(f[k + 1], g[k + 1], heads)
    OBVIOUS
  <2>1. k + 1 \in 1 .. n /\ k + 1 \in 1 .. m
    OBVIOUS
  <2>2. Matched(s[k + 1], r[k + 1], heads)
    BY <2>1
  <2>3. CASE k = 0
    <3>1. f[k + 1] = s[k + 1] /\ g[k + 1] = r[k + 1]
      BY <2>3 DEF Joins
    <3> QED  BY <2>2, <3>1
  <2>4. CASE k # 0
    <3>1. f[k + 1] = f[k] \o s[k + 1] /\ g[k + 1] = g[k] \o r[k + 1]
      <4>1. (k + 1) - 1 = k /\ k + 1 \in 2 .. n
        BY <2>1, <2>4
      <4> HIDE DEF S
      <4>2. /\ f[k + 1] = f[(k + 1) - 1] \o s[k + 1]
            /\ g[k + 1] = g[(k + 1) - 1] \o r[k + 1]
        BY <4>1, Zenon DEF Joins
      <4> QED  BY <4>1, <4>2, Zenon
    <3>2. Matched(f[k], g[k], heads)
      BY <1>2, <2>4
    <3> QED  BY <2>2, <3>1, <3>2, MatchedJoined
  <2> QED  BY <2>3, <2>4
<1> HIDE DEF S
<1>3. m \in S
  BY <1>1, <1>2, NatSetInduction
<1> QED  BY <1>3 DEF S

(* Nothing corresponds to nothing, and a field to its column.              *)
LEMMA MatchedNothing ==
    ASSUME NEW heads
    PROVE  Matched(<<>>, <<>>, heads)
BY DEF Matched

(* A field corresponds to the column of its tag.                           *)
LEMMA MatchedField ==
    ASSUME NEW name \in Names, Tag[name] \in Columns, NEW heads, name \in heads
    PROVE  Matched(<< <<name>> >>, << Tag[name] >>, heads)
<1>1. <<name>> \in Paths /\ LastOf(<<name>>) = name
  BY DEF Paths, LastOf
<1> QED  BY <1>1 DEF Matched

(* The fields of a struct inside a struct are reached through its name.    *)
LEMMA InsidePath ==
    ASSUME NEW name \in Names, NEW path \in Paths
    PROVE  /\ <<name>> \o path \in Paths
           /\ (<<name>> \o path)[1] = name /\ LastOf(<<name>> \o path) = LastOf(path)
<1>1. path \in Seq(Names) /\ Len(path) \in Nat \ {0}
  BY DEF Paths
<1>2. /\ <<name>> \o path \in Seq(Names) /\ Len(<<name>> \o path) = 1 + Len(path)
      /\ (<<name>> \o path)[1] = name
      /\ (<<name>> \o path)[1 + Len(path)] = path[Len(path)]
  BY <1>1
<1> QED  BY <1>1, <1>2 DEF Paths, LastOf

(* They correspond to the same columns as before.                          *)
LEMMA MatchedInside ==
    ASSUME NEW p, NEW c, NEW heads, NEW others, Matched(p, c, others),
           NEW name \in Names, name \in heads
    PROVE  Matched([j \in DOMAIN p |-> <<name>> \o p[j]], c, heads)
<1> DEFINE q == [j \in DOMAIN p |-> <<name>> \o p[j]]
<1>1. p \in Seq(Paths) /\ DOMAIN p = 1 .. Len(p)
  BY DEF Matched
<1>2. ASSUME NEW j \in 1 .. Len(p)
      PROVE  /\ q[j] \in Paths /\ LastOf(q[j]) = LastOf(p[j]) /\ q[j][1] = name
  <2>1. p[j] \in Paths /\ q[j] = <<name>> \o p[j]
    BY <1>1
  <2> QED  BY <2>1, InsidePath
<1>3. q \in Seq(Paths) /\ Len(q) = Len(p)
  BY <1>1, <1>2
<1> QED  BY <1>2, <1>3 DEF Matched

(* Any field that is not hidden: it adds as much to the ones as to the     *)
(* others, provided that the struct in it does.                            *)
LEMMA ItemMatched ==
    ASSUME NEW t \in DOMAIN Decl, NEW i \in DOMAIN Decl[t],
           Decl[t][i][2] # "-", columns["Time"] = <<>>,
           Nested(Decl[t][i][3]) /\ ~ IsTagged(Decl[t][i]) =>
              Matched(fields[Decl[t][i][3]], columns[Decl[t][i][3]], Names),
           NEW heads, Decl[t][i][1] \in heads
    PROVE  Matched(FieldItem(fields, Decl[t][i]), ColumnItem(columns, Decl[t][i]), heads)
<1> DEFINE d == Decl[t][i]
<1>1. Regular(d, t) /\ (IsTagged(d) => Tag[d[1]] = TagOf[d[1]])
  BY AllRegular, TagsAreUnique
<1> HIDE DEF d
<1>2. d[2] # "-" /\ d[1] \in heads /\ (Nested(d[3]) /\ ~ IsTagged(d) =>
              Matched(fields[d[3]], columns[d[3]], Names))
  BY DEF d
<1> SUFFICES Matched(FieldItem(fields, d), ColumnItem(columns, d), heads)
  BY DEF d
<1>3. CASE IsTagged(d)
  <2>1. FieldItem(fields, d) = << <<d[1]>> >>
    BY <1>3 DEF FieldItem, IsTagged
  <2>2. ColumnItem(columns, d) = <<d[2]>>
    <3>1. ColumnItem(columns, d) = <<d[2]>> \o <<>>
      BY <1>1, <1>3, <1>2 DEF ColumnItem, IsTagged, Regular
    <3> QED  BY <3>1
  <2>3. d[1] \in Names /\ d[2] = Tag[d[1]] /\ Tag[d[1]] \in Columns
    BY <1>1, <1>3 DEF Regular, Columns
  <2> QED  BY <1>2, <2>1, <2>2, <2>3, MatchedField
<1>4. CASE ~ IsTagged(d) /\ Nested(d[3])
  <2>1. FieldItem(fields, d) = [j \in DOMAIN fields[d[3]] |-> <<d[1]>> \o fields[d[3]][j]]
    BY <1>4, <1>2 DEF FieldItem, IsTagged
  <2>2. Matched(fields[d[3]], columns[d[3]], Names)
    BY <1>4, <1>2
  <2>3. ColumnItem(columns, d) = columns[d[3]]
    <3>1. ColumnItem(columns, d) = <<>> \o columns[d[3]]
      BY <1>4, <1>2 DEF ColumnItem, IsTagged
    <3> QED  BY <2>2, <3>1 DEF Matched
  <2> QED  BY <1>1, <1>2, <2>1, <2>2, <2>3, MatchedInside DEF Regular
<1>5. CASE ~ IsTagged(d) /\ ~ Nested(d[3])
  <2>1. FieldItem(fields, d) = <<>>
    BY <1>5, <1>2 DEF FieldItem, IsTagged
  <2>2. ColumnItem(columns, d) = <<>>
    <3>1. ColumnItem(columns, d) = <<>> \o <<>>
      BY <1>5, <1>2 DEF ColumnItem, IsTagged
    <3> QED  BY <3>1
  <2> QED  BY <2>1, <2>2, MatchedNothing
<1> QED  BY <1>3, <1>4, <1>5

(* A time has no column of its own.                                        *)
LEMMA TimeColumns == columns["Time"] = <<>>
<1>1. PICK g : Joins(g, ColumnItems("Time"), 3) /\ columns["Time"] = g[3]
  BY StructJoins, Sizes, 3 \in Nat \ {0}, Zenon
<1>2. \A i \in 1 .. 3 : ColumnItems("Time")[i] = <<>>
  <2>1. ASSUME NEW i \in 1 .. 3 PROVE ColumnItem(columns, Decl["Time"][i]) = <<>> \o <<>>
    BY TimeDecl, Structs DEF ColumnItem, Nested
  <2>2. <<>> \o <<>> = <<>>
    OBVIOUS
  <2> QED  BY <2>1, <2>2, Sizes DEF ColumnItems
<1>3. g[1] = <<>>
  <2>1. 1 \in 1 .. 3
    OBVIOUS
  <2> QED  BY <2>1, <1>1, <1>2, Zenon DEF Joins
<1>4. g[2] = <<>> \o <<>> /\ g[3] = g[2] \o <<>>
  <2>1. 3 - 1 = 2 /\ 2 - 1 = 1 /\ 2 \in 2 .. 3 /\ 3 \in 2 .. 3 /\ 2 \in 1 .. 3 /\ 3 \in 1 .. 3
    OBVIOUS
  <2> QED  BY <2>1, <1>1, <1>2, <1>3, Zenon DEF Joins
<1> QED  BY <1>1, <1>4

(* The fields and the columns of a struct that hides nothing correspond,   *)
(* and those that come before what it hides.                               *)
LEMMA PartMatched ==
    ASSUME NEW t \in DOMAIN Decl, NEW n \in Nat \ {0}, DOMAIN Decl[t] = 1 .. n,
           NEW m \in 1 .. n, NEW heads,
           NEW f, NEW g,
           Joins(f, FieldItems(t), n), Joins(g, ColumnItems(t), n),
           \A i \in 1 .. m :
              /\ Decl[t][i][2] # "-" /\ Decl[t][i][1] \in heads
              /\ Nested(Decl[t][i][3]) /\ ~ IsTagged(Decl[t][i]) =>
                    Matched(fields[Decl[t][i][3]], columns[Decl[t][i][3]], Names)
    PROVE  Matched(f[m], g[m], heads)
<1>1. ASSUME NEW i \in 1 .. m
      PROVE  Matched(FieldItems(t)[i], ColumnItems(t)[i], heads)
  <2>1. i \in DOMAIN Decl[t]
    OBVIOUS
  <2>2. Matched(FieldItem(fields, Decl[t][i]), ColumnItem(columns, Decl[t][i]), heads)
    BY <2>1, TimeColumns, ItemMatched
  <2> QED  BY <2>1, <2>2 DEF FieldItems, ColumnItems
<1> QED  BY <1>1, MatchedSoFar

(* So they do for a struct without "-" whose structs correspond.           *)
LEMMA StructMatched ==
    ASSUME NEW t \in DOMAIN Decl, NEW n \in Nat \ {0}, DOMAIN Decl[t] = 1 .. n,
           \A i \in 1 .. n :
              /\ Decl[t][i][2] # "-"
              /\ Nested(Decl[t][i][3]) /\ ~ IsTagged(Decl[t][i]) =>
                    Matched(fields[Decl[t][i][3]], columns[Decl[t][i][3]], Names)
    PROVE  Matched(fields[t], columns[t], Names)
<1>1. PICK f : Joins(f, FieldItems(t), n) /\ fields[t] = f[n]
  BY StructJoins
<1>2. PICK g : Joins(g, ColumnItems(t), n) /\ columns[t] = g[n]
  BY StructJoins
<1>3. \A i \in 1 .. n : Decl[t][i][1] \in Names
  BY AllRegular DEF Regular
<1>4. n \in 1 .. n
  OBVIOUS
<1>5. Matched(f[n], g[n], Names)
  BY <1>1, <1>2, <1>3, <1>4, PartMatched
<1> QED  BY <1>1, <1>2, <1>5

(* The password of a user: its hash alone.                                 *)
LEMMA PasswordMatched == Matched(fields["password"], columns["password"], Names)
<1>1. \A i \in 1 .. 2 : /\ Decl["password"][i][2] # "-"
                        /\ ~ Nested(Decl["password"][i][3])
  BY PasswordDecl, Structs DEF Nested
<1> QED  BY <1>1, StructMatched, Sizes, 2 \in Nat \ {0}, Zenon

(* The fields of every BaseModel.                                          *)
LEMMA BaseModelMatched == Matched(fields["BaseModel"], columns["BaseModel"], Names)
<1>1. \A i \in 1 .. 6 : /\ Decl["BaseModel"][i][2] # "-"
                        /\ IsTagged(Decl["BaseModel"][i])
  BY BaseModelDecl DEF IsTagged
<1> QED  BY <1>1, StructMatched, Sizes, 6 \in Nat \ {0}, Zenon

(* What each field of a user adds.                                         *)
LEMMA UserItemsMatched ==
    \A i \in 1 .. 8 : Matched(FieldItems("User")[i], ColumnItems("User")[i], Names)
<1> SUFFICES ASSUME NEW i \in 1 .. 8
             PROVE  Matched(FieldItems("User")[i], ColumnItems("User")[i], Names)
  OBVIOUS
<1>1. /\ Decl["User"][i][2] # "-"
      /\ Nested(Decl["User"][i][3]) => Decl["User"][i][3] \in {"password", "BaseModel"}
  BY UserDecl, Structs DEF Nested
<1>2. Nested(Decl["User"][i][3]) /\ ~ IsTagged(Decl["User"][i]) =>
         Matched(fields[Decl["User"][i][3]], columns[Decl["User"][i][3]], Names)
  BY <1>1, PasswordMatched, BaseModelMatched
<1>3. i \in DOMAIN Decl["User"] /\ Decl["User"][i][1] \in Names
  BY AllRegular, Sizes DEF Regular
<1>4. Matched(FieldItem(fields, Decl["User"][i]), ColumnItem(columns, Decl["User"][i]), Names)
  BY <1>1, <1>2, <1>3, Sizes, TimeColumns, ItemMatched, Zenon
<1> QED  BY <1>3, <1>4 DEF FieldItems, ColumnItems

(* The columns that a SELECT lists for a user, collectColumns, are those   *)
(* of the fields that its Scan fills, collectFields, one by one.           *)
THEOREM UserMatched == Matched(fields["User"], columns["User"], Names)
<1>1. PICK f : Joins(f, FieldItems("User"), 8) /\ fields["User"] = f[8]
  BY StructJoins, Sizes, 8 \in Nat \ {0}, Zenon
<1>2. PICK g : Joins(g, ColumnItems("User"), 8) /\ columns["User"] = g[8]
  BY StructJoins, Sizes, 8 \in Nat \ {0}, Zenon
<1>3. 8 \in Nat /\ 8 \in 1 .. 8
  OBVIOUS
<1>4. Matched(f[8], g[8], Names)
  BY <1>1, <1>2, <1>3, UserItemsMatched, MatchedSoFar, Zenon
<1> QED  BY <1>1, <1>2, <1>4, Zenon

(* A book's own fields come first, each with its column, and then those of *)
(* the user in it, for whom collectColumns(book) has none: a query of      *)
(* books must list the columns of the user itself, and after its own.      *)
THEOREM BookMatched ==
    LET p == fields["Book"]
        a == columns["Book"]
        u == fields["User"]
    IN  /\ Len(a) \in Nat /\ Len(p) = Len(a) + Len(u)
        /\ \A j \in 1 .. Len(a) : /\ Tag[LastOf(p[j])] = a[j]
                                  /\ p[j][1] # "User"
        /\ \A j \in 1 .. Len(u) : p[Len(a) + j] = <<"User">> \o u[j]
        /\ a \in Seq(Columns)
<1>1. PICK f : Joins(f, FieldItems("Book"), 7) /\ fields["Book"] = f[7]
  BY StructJoins, Sizes, 7 \in Nat \ {0}, Zenon
<1>2. PICK g : Joins(g, ColumnItems("Book"), 7) /\ columns["Book"] = g[7]
  BY StructJoins, Sizes, 7 \in Nat \ {0}, Zenon
<1> DEFINE own == Names \ {"User"}
<1>3. Matched(f[6], g[6], own)
  <2>1. ASSUME NEW i \in 1 .. 6
        PROVE  /\ Decl["Book"][i][2] # "-" /\ Decl["Book"][i][1] \in own
               /\ Nested(Decl["Book"][i][3]) => Decl["Book"][i][3] = "BaseModel"
    BY BookDecl, Structs DEF Nested, Names
  <2> HIDE DEF own
  <2>2. \A i \in 1 .. 6 :
           /\ Decl["Book"][i][2] # "-" /\ Decl["Book"][i][1] \in own
           /\ Nested(Decl["Book"][i][3]) /\ ~ IsTagged(Decl["Book"][i]) =>
                 Matched(fields[Decl["Book"][i][3]], columns[Decl["Book"][i][3]], Names)
    BY <2>1, BaseModelMatched
  <2>3. 7 \in Nat \ {0} /\ 6 \in 1 .. 7
    OBVIOUS
  <2> QED  BY <1>1, <1>2, <2>2, <2>3, Sizes, PartMatched, Zenon
<1>4. /\ f[7] = f[6] \o FieldItem(fields, Decl["Book"][7])
      /\ g[7] = g[6] \o ColumnItem(columns, Decl["Book"][7])
  <2>1. 7 - 1 = 6 /\ 7 \in 2 .. 7
    OBVIOUS
  <2>2. f[7] = f[6] \o FieldItems("Book")[7] /\ g[7] = g[6] \o ColumnItems("Book")[7]
    BY <1>1, <1>2, <2>1, Zenon DEF Joins
  <2>3. /\ FieldItems("Book")[7] = FieldItem(fields, Decl["Book"][7])
        /\ ColumnItems("Book")[7] = ColumnItem(columns, Decl["Book"][7])
    BY Sizes DEF FieldItems, ColumnItems
  <2> QED  BY <2>2, <2>3, Zenon
<1> DEFINE u == fields["User"]
           q == [j \in DOMAIN u |-> <<"User">> \o u[j]]
<1>5. Decl["Book"][7] = <<"User", "-", "User">>
  BY BookDecl
<1>6. FieldItem(fields, Decl["Book"][7]) = q /\ ColumnItem(columns, Decl["Book"][7]) = <<>>
  BY <1>5, Structs DEF FieldItem, ColumnItem, Nested
<1>7. u \in Seq(Paths) /\ DOMAIN u = 1 .. Len(u) /\ Len(u) \in Nat
  BY UserMatched DEF Matched
<1>8. /\ f[6] \in Seq(Paths) /\ g[6] \in Seq(Columns) /\ Len(f[6]) = Len(g[6])
      /\ \A j \in 1 .. Len(g[6]) : Tag[LastOf(f[6][j])] = g[6][j] /\ f[6][j][1] # "User"
  BY <1>3 DEF Matched
<1>9. columns["Book"] = g[6]
  BY <1>2, <1>4, <1>6, <1>8, ConcatEmptySeq
<1>10. /\ Len(f[7]) = Len(g[6]) + Len(u)
       /\ \A j \in 1 .. Len(g[6]) : f[7][j] = f[6][j]
       /\ \A j \in 1 .. Len(u) : f[7][Len(g[6]) + j] = q[j]
  <2> DEFINE X == Paths \union {q[j] : j \in 1 .. Len(u)}
  <2>1. DOMAIN q = 1 .. Len(u)
    BY <1>7
  <2>2. q \in Seq(X) /\ Len(q) = Len(u)
    <3> HIDE DEF q, u
    <3>1. \A j \in 1 .. Len(u) : q[j] \in X
      OBVIOUS
    <3>2. q = [j \in 1 .. Len(u) |-> q[j]]
      BY <2>1 DEF q
    <3> HIDE DEF X
    <3> QED  BY <3>1, <3>2, <1>7
  <2>3. f[6] \in Seq(X) /\ Len(f[6]) \in Nat
    BY <1>8
  <2> HIDE DEF q, u, X
  <2>4. /\ Len(f[7]) = Len(f[6]) + Len(q)
        /\ \A j \in 1 .. Len(f[6]) + Len(q) :
              f[7][j] = IF j <= Len(f[6]) THEN f[6][j] ELSE q[j - Len(f[6])]
    <3>1. f[7] = f[6] \o q
      BY <1>4, <1>6, Zenon
    <3>2. /\ Len(f[6] \o q) = Len(f[6]) + Len(q)
          /\ \A j \in 1 .. Len(f[6]) + Len(q) :
                (f[6] \o q)[j] = IF j <= Len(f[6]) THEN f[6][j] ELSE q[j - Len(f[6])]
      BY <2>2, <2>3, ConcatProperties, Zenon
    <3> QED  BY <3>1, <3>2, Zenon
  <2>5. \A j \in 1 .. Len(u) : f[7][Len(f[6]) + j] = q[j]
    <3>1. ASSUME NEW j \in 1 .. Len(u)
          PROVE  /\ Len(f[6]) + j \in 1 .. Len(f[6]) + Len(q)
                 /\ ~ Len(f[6]) + j <= Len(f[6])
                 /\ (Len(f[6]) + j) - Len(f[6]) = j
      BY <1>7, <2>2, <2>3
    <3> QED  BY <2>4, <3>1, Zenon
  <2>6. \A j \in 1 .. Len(f[6]) : f[7][j] = f[6][j]
    <3>1. ASSUME NEW j \in 1 .. Len(f[6])
          PROVE  j \in 1 .. Len(f[6]) + Len(q) /\ j <= Len(f[6])
      BY <1>7, <2>2, <2>3
    <3> QED  BY <2>4, <3>1, Zenon
  <2> QED  BY <1>8, <2>2, <2>4, <2>5, <2>6, Zenon
<1>11. Len(g[6]) \in Nat
  BY <1>8
<1> HIDE DEF q
<1>12. \A j \in 1 .. Len(u) : q[j] = <<"User">> \o u[j]
  BY <1>7 DEF q
<1> HIDE DEF u
<1>13. Len(fields["Book"]) = Len(columns["Book"]) + Len(u)
  BY <1>1, <1>9, <1>10
<1>14. \A j \in 1 .. Len(columns["Book"]) :
          /\ Tag[LastOf(fields["Book"][j])] = columns["Book"][j]
          /\ fields["Book"][j][1] # "User"
  <2>1. ASSUME NEW j \in 1 .. Len(g[6])
        PROVE  Tag[LastOf(f[7][j])] = g[6][j] /\ f[7][j][1] # "User"
    BY <1>8, <1>10, Zenon
  <2> QED  BY <1>1, <1>9, <2>1, Zenon
<1>15. \A j \in 1 .. Len(u) : fields["Book"][Len(columns["Book"]) + j] = <<"User">> \o u[j]
  BY <1>1, <1>9, <1>10, <1>12
<1>16. columns["Book"] \in Seq(Columns)
  BY <1>8, <1>9
<1> QED  BY <1>9, <1>11, <1>13, <1>14, <1>15, <1>16 DEF u

-----------------------------------------------------------------------------
(***************************************************************************)
(* The columns of a user are those of the table users, in its order, which *)
(* `select u.*` relies on.                                                 *)
(***************************************************************************)

(* c is the m columns of the table that come after the first k.            *)
Stretch(c, k, m) ==
    /\ c \in Seq(Columns) /\ Len(c) = m
    /\ \A j \in 1 .. m : c[j] = UserTable[k + j]

(* Two stretches, one after the other, are one.                            *)
LEMMA StretchJoined ==
    ASSUME NEW k \in Nat, NEW m \in Nat, NEW l \in Nat, NEW c, NEW d,
           Stretch(c, k, m), Stretch(d, k + m, l)
    PROVE  Stretch(c \o d, k, m + l)
<1>1. c \in Seq(Columns) /\ d \in Seq(Columns) /\ Len(c) = m /\ Len(d) = l
  BY DEF Stretch
<1>2. /\ c \o d \in Seq(Columns) /\ Len(c \o d) = m + l
      /\ \A j \in 1 .. m + l : (c \o d)[j] = IF j <= m THEN c[j] ELSE d[j - m]
  BY <1>1, ConcatProperties
<1>3. ASSUME NEW j \in 1 .. m + l PROVE (c \o d)[j] = UserTable[k + j]
  <2>1. CASE j <= m
    BY <1>2, <2>1 DEF Stretch
  <2>2. CASE ~ j <= m
    <3>1. j - m \in 1 .. l /\ (k + m) + (j - m) = k + j
      BY <2>2
    <3>2. (c \o d)[j] = d[j - m]
      BY <1>2, <2>2
    <3>3. d[j - m] = UserTable[(k + m) + (j - m)]
      BY <3>1, Zenon DEF Stretch
    <3> QED  BY <3>1, <3>2, <3>3, Zenon
  <2> QED  BY <2>1, <2>2
<1> QED  BY <1>2, <1>3 DEF Stretch

(* Items of one column each add up to a stretch.                           *)
LEMMA StretchSoFar ==
    ASSUME NEW r, NEW n \in Nat, NEW m \in 1 .. n, NEW g, Joins(g, r, n), NEW k \in Nat,
           \A i \in 1 .. m : Stretch(r[i], k + (i - 1), 1)
    PROVE  Stretch(g[m], k, m)
<1> DEFINE S == {i \in Nat : 1 <= i /\ i <= m => Stretch(g[i], k, i)}
<1>1. 0 \in S
  OBVIOUS
<1>2. ASSUME NEW i \in Nat, i \in S PROVE i + 1 \in S
  <2> SUFFICES ASSUME i + 1 <= m PROVE Stretch(g[i + 1], k, i + 1)
    OBVIOUS
  <2>1. i + 1 \in 1 .. m /\ (i + 1) - 1 = i
    OBVIOUS
  <2>2. Stretch(r[i + 1], k + i, 1)
    <3>1. Stretch(r[i + 1], k + ((i + 1) - 1), 1)
      BY <2>1, Zenon
    <3> QED  BY <2>1, <3>1, Zenon
  <2>3. CASE i = 0
    <3>1. g[i + 1] = r[i + 1] /\ k + i = k /\ i + 1 = 1
      BY <2>3 DEF Joins
    <3> QED  BY <2>2, <3>1
  <2>4. CASE i # 0
    <3>1. g[i + 1] = g[i] \o r[i + 1]
      <4>1. i + 1 \in 2 .. n
        BY <2>4
      <4> HIDE DEF S
      <4>2. g[i + 1] = g[(i + 1) - 1] \o r[i + 1]
        BY <4>1, Zenon DEF Joins
      <4> QED  BY <2>1, <4>2, Zenon
    <3>2. Stretch(g[i], k, i)
      BY <1>2, <2>4
    <3> QED  BY <2>2, <3>1, <3>2, StretchJoined
  <2> QED  BY <2>3, <2>4
<1> HIDE DEF S
<1>3. m \in S
  BY <1>1, <1>2, NatSetInduction
<1> QED  BY <1>3 DEF S

(* A field with a tag adds its column.                                     *)
LEMMA TaggedColumn ==
    ASSUME NEW t \in DOMAIN Decl, NEW i \in DOMAIN Decl[t], IsTagged(Decl[t][i]),
           NEW k \in Nat, Decl[t][i][2] = UserTable[k + 1]
    PROVE  Stretch(ColumnItems(t)[i], k, 1)
<1> DEFINE d == Decl[t][i]
<1>1. Regular(d, t)
  BY AllRegular
<1>2. ColumnItems(t)[i] = <<d[2]>> \o <<>>
  BY <1>1, TimeColumns DEF ColumnItems, ColumnItem, IsTagged, Regular
<1>3. d[2] \in Columns
  BY <1>1 DEF Regular, Columns
<1> HIDE DEF d
<1>4. ColumnItems(t)[i] = <<d[2]>>
  BY <1>2
<1>5. d[2] = UserTable[k + 1]
  BY DEF d
<1> QED  BY <1>3, <1>4, <1>5 DEF Stretch

(* The table, column by column.                                            *)
LEMMA TableAt ==
    /\ UserTable[1] = "id" /\ UserTable[2] = "name" /\ UserTable[3] = "email"
    /\ UserTable[4] = "phone" /\ UserTable[5] = "cod" /\ UserTable[6] = "password_hash"
    /\ UserTable[7] = "activated" /\ UserTable[8] = "version" /\ UserTable[9] = "deleted"
    /\ UserTable[10] = "created_at" /\ UserTable[11] = "created_by"
    /\ UserTable[12] = "updated_at" /\ UserTable[13] = "updated_by"
    /\ DOMAIN UserTable = 1 .. 13 /\ Len(UserTable) = 13
BY DEF UserTable

(* A password is the sixth column of users.                                *)
LEMMA PasswordColumns == Stretch(columns["password"], 5, 1)
<1>1. PICK g : Joins(g, ColumnItems("password"), 2) /\ columns["password"] = g[2]
  BY StructJoins, Sizes, 2 \in Nat \ {0}, Zenon
<1>2. ColumnItems("password")[1] = <<>>
  <2>1. ColumnItem(columns, Decl["password"][1]) = <<>> \o <<>>
    BY PasswordDecl, Structs DEF ColumnItem, Nested
  <2>2. ColumnItems("password")[1] = ColumnItem(columns, Decl["password"][1])
    BY Sizes DEF ColumnItems
  <2> QED  BY <2>1, <2>2
<1>3. Stretch(ColumnItems("password")[2], 5, 1)
  <2>1. /\ 2 \in DOMAIN Decl["password"] /\ IsTagged(Decl["password"][2])
        /\ Decl["password"][2][2] = UserTable[5 + 1]
    BY PasswordDecl, TableAt DEF IsTagged
  <2> QED  BY <2>1, Sizes, TaggedColumn, 5 \in Nat, Zenon
<1>4. g[2] = <<>> \o ColumnItems("password")[2]
  <2>1. 2 - 1 = 1 /\ 2 \in 2 .. 2
    OBVIOUS
  <2> QED  BY <1>1, <1>2, <2>1, Zenon DEF Joins
<1>5. <<>> \o ColumnItems("password")[2] = ColumnItems("password")[2]
  BY <1>3, ConcatEmptySeq DEF Stretch
<1> QED  BY <1>1, <1>3, <1>4, <1>5, Zenon

(* A BaseModel is the last six columns of users.                           *)
LEMMA BaseModelColumns == Stretch(columns["BaseModel"], 7, 6)
<1>1. PICK g : Joins(g, ColumnItems("BaseModel"), 6) /\ columns["BaseModel"] = g[6]
  BY StructJoins, Sizes, 6 \in Nat \ {0}, Zenon
<1>2. ASSUME NEW i \in 1 .. 6
      PROVE  Stretch(ColumnItems("BaseModel")[i], 7 + (i - 1), 1)
  <2>1. /\ i \in DOMAIN Decl["BaseModel"] /\ IsTagged(Decl["BaseModel"][i])
        /\ 7 + (i - 1) \in Nat /\ Decl["BaseModel"][i][2] = UserTable[(7 + (i - 1)) + 1]
    BY BaseModelDecl, TableAt DEF IsTagged
  <2> QED  BY <2>1, Sizes, TaggedColumn, Zenon
<1>3. 6 \in Nat /\ 6 \in 1 .. 6 /\ 7 \in Nat
  OBVIOUS
<1>4. Stretch(g[6], 7, 6)
  BY <1>1, <1>2, <1>3, StretchSoFar, Zenon
<1> QED  BY <1>1, <1>4, Zenon

(* The columns of a user that collectColumns lists are those of the table, *)
(* in its order: `select u.*` means the same as the list.                  *)
THEOREM UserColumns == columns["User"] = UserTable
<1>1. PICK g : Joins(g, ColumnItems("User"), 8) /\ columns["User"] = g[8]
  BY StructJoins, Sizes, 8 \in Nat \ {0}, Zenon
<1>2. ASSUME NEW i \in 1 .. 7
      PROVE  Stretch(ColumnItems("User")[i], 0 + (i - 1), 1)
  <2>1. CASE i # 6
    <3>1. /\ i \in DOMAIN Decl["User"] /\ IsTagged(Decl["User"][i])
          /\ 0 + (i - 1) \in Nat /\ Decl["User"][i][2] = UserTable[(0 + (i - 1)) + 1]
      BY <2>1, UserDecl, TableAt DEF IsTagged
    <3> QED  BY <3>1, Sizes, TaggedColumn, Zenon
  <2>2. CASE i = 6
    <3>1. ColumnItem(columns, Decl["User"][6]) = <<>> \o columns["password"]
      BY UserDecl, Structs DEF ColumnItem, Nested
    <3>2. ColumnItems("User")[6] = ColumnItem(columns, Decl["User"][6])
      BY Sizes DEF ColumnItems
    <3>3. <<>> \o columns["password"] = columns["password"]
      BY PasswordColumns, ConcatEmptySeq DEF Stretch
    <3>4. 0 + (i - 1) = 5
      BY <2>2
    <3> QED  BY <2>2, <3>1, <3>2, <3>3, <3>4, PasswordColumns, Zenon
  <2> QED  BY <2>1, <2>2
<1>3. Stretch(g[7], 0, 7)
  <2>1. 8 \in Nat /\ 7 \in 1 .. 8 /\ 0 \in Nat
    OBVIOUS
  <2> QED  BY <1>1, <1>2, <2>1, StretchSoFar, Zenon
<1>4. g[8] = g[7] \o columns["BaseModel"]
  <2>1. ColumnItem(columns, Decl["User"][8]) = <<>> \o columns["BaseModel"]
    BY UserDecl, Structs DEF ColumnItem, Nested
  <2>2. ColumnItems("User")[8] = ColumnItem(columns, Decl["User"][8])
    BY Sizes DEF ColumnItems
  <2>3. <<>> \o columns["BaseModel"] = columns["BaseModel"]
    BY BaseModelColumns, ConcatEmptySeq DEF Stretch
  <2>4. 8 - 1 = 7 /\ 8 \in 2 .. 8
    OBVIOUS
  <2> QED  BY <1>1, <2>1, <2>2, <2>3, <2>4, Zenon DEF Joins
<1>5. Stretch(columns["User"], 0, 13)
  <2>1. 0 + 7 = 7 /\ 7 + 6 = 13 /\ 0 \in Nat /\ 7 \in Nat /\ 6 \in Nat
    OBVIOUS
  <2>2. Stretch(g[7] \o columns["BaseModel"], 0, 7 + 6)
    BY <1>3, <2>1, BaseModelColumns, StretchJoined, Zenon
  <2> QED  BY <1>1, <1>4, <2>1, <2>2, Zenon
<1>6. /\ columns["User"] \in Seq(Columns) /\ Len(columns["User"]) = 13
      /\ \A j \in 1 .. 13 : columns["User"][j] = UserTable[j]
  <2>1. \A j \in 1 .. 13 : columns["User"][j] = UserTable[0 + j]
    BY <1>5, Zenon DEF Stretch
  <2>2. \A j \in 1 .. 13 : 0 + j = j
    OBVIOUS
  <2>3. \A j \in 1 .. 13 : columns["User"][j] = UserTable[j]
    BY <2>1, <2>2, Zenon
  <2> QED  BY <1>5, <2>3, Zenon DEF Stretch
<1>7. UserTable \in Seq(Columns)
  <2>1. \A j \in 1 .. 13 : columns["User"][j] \in Columns
    BY <1>6, ElementOfSeq, Zenon
  <2>2. \A j \in 1 .. 13 : UserTable[j] \in Columns
    BY <1>6, <2>1, Zenon
  <2>3. UserTable = [j \in 1 .. 13 |-> UserTable[j]]
    BY DEF UserTable
  <2> QED  BY <2>2, <2>3
<1>8. Len(UserTable) = 13
  BY TableAt
<1> QED  BY <1>6, <1>7, <1>8, SeqEqual, Zenon

(* The head of what is joined is the head of the first part.               *)
LEMMA HeadKept ==
    ASSUME NEW X, NEW p \in Seq(X), NEW q \in Seq(X), Len(p) > 0
    PROVE  p \o q \in Seq(X) /\ Len(p \o q) > 0 /\ (p \o q)[1] = p[1]
BY ConcatProperties

(* What comes first stays first, however much is joined to it.             *)
LEMMA FirstKept ==
    ASSUME NEW s, NEW n \in Nat \ {0}, NEW f, Joins(f, s, n),
           \A i \in 1 .. n : s[i] \in Seq(Paths), Len(s[1]) > 0
    PROVE  Len(f[n]) > 0 /\ f[n][1] = s[1][1]
<1> DEFINE Kept(i) == f[i] \in Seq(Paths) /\ Len(f[i]) > 0 /\ f[i][1] = s[1][1]
           S == {i \in Nat : 1 <= i /\ i <= n => Kept(i)}
<1>1. 0 \in S
  OBVIOUS
<1>2. ASSUME NEW i \in Nat, i \in S PROVE i + 1 \in S
  <2> SUFFICES ASSUME i + 1 <= n PROVE Kept(i + 1)
    OBVIOUS
  <2>1. i + 1 \in 1 .. n /\ (i + 1) - 1 = i /\ 1 \in 1 .. n
    OBVIOUS
  <2>2. s[i + 1] \in Seq(Paths) /\ s[1] \in Seq(Paths)
    BY <2>1
  <2>3. CASE i = 0
    <3>1. f[i + 1] = s[1]
      BY <2>3 DEF Joins
    <3> QED  BY <2>2, <3>1
  <2>4. CASE i # 0
    <3>1. i + 1 \in 2 .. n
      BY <2>4
    <3>2. Kept(i)
      BY <1>2, <2>4
    <3> HIDE DEF S
    <3>3. f[i + 1] = f[(i + 1) - 1] \o s[i + 1]
      BY <3>1, Zenon DEF Joins
    <3>4. f[i + 1] = f[i] \o s[i + 1]
      BY <2>1, <3>3, Zenon
    <3>5. LET p == f[i] \o s[i + 1]
          IN  p \in Seq(Paths) /\ Len(p) > 0 /\ p[1] = f[i][1]
      BY <2>2, <3>2, HeadKept
    <3> QED  BY <3>2, <3>4, <3>5, Zenon
  <2> QED  BY <2>3, <2>4
<1> HIDE DEF S
<1>3. \A i \in Nat : i \in S
  BY <1>1, <1>2, NatSetInduction, Zenon
<1>4. n \in Nat /\ 1 <= n /\ n <= n
  OBVIOUS
<1> QED  BY <1>3, <1>4, Zenon DEF S

(* It is that of the user that Scan fills first.                           *)
LEMMA UserIDFirst == Len(fields["User"]) > 0 /\ fields["User"][1] = <<"ID">>
<1>1. PICK f : Joins(f, FieldItems("User"), 8) /\ fields["User"] = f[8]
  BY StructJoins, Sizes, 8 \in Nat \ {0}, Zenon
<1>2. \A i \in 1 .. 8 : FieldItems("User")[i] \in Seq(Paths)
  BY UserItemsMatched DEF Matched
<1>3. FieldItems("User")[1] = << <<"ID">> >>
  <2>1. FieldItem(fields, Decl["User"][1]) = << <<"ID">> >>
    BY UserDecl DEF FieldItem
  <2> QED  BY <2>1, Sizes DEF FieldItems
<1>4. Len(<< <<"ID">> >>) > 0 /\ << <<"ID">> >>[1] = <<"ID">> /\ 8 \in Nat \ {0}
  OBVIOUS
<1>5. Len(FieldItems("User")[1]) > 0 /\ FieldItems("User")[1][1] = <<"ID">>
  BY <1>3, <1>4, Zenon
<1>6. Len(f[8]) > 0 /\ f[8][1] = FieldItems("User")[1][1]
  BY <1>1, <1>2, <1>4, <1>5, FirstKept, Zenon
<1> QED  BY <1>1, <1>5, <1>6, Zenon

-----------------------------------------------------------------------------
(***************************************************************************)
(* namedQuery, for any statement.                                          *)
(***************************************************************************)

(* The parameters of a statement, and none of them begins with another.    *)
Keys(places) == {places[p] : p \in DOMAIN places}

PrefixFree(keys) == \A j, k \in keys : IsPrefix(Spelling[k], Spelling[j]) => k = j

(* The places that one order leaves intact.                                *)
IntactIn(places, turn) ==
    {p \in DOMAIN places :
        \A k \in Keys(places) :
           IsPrefix(Spelling[k], Spelling[places[p]]) => turn[places[p]] <= turn[k]}

(* Every order leaves one set of places intact.                            *)
LEMMA IntactByOrder ==
    ASSUME NEW places
    PROVE  Intact(places) = {IntactIn(places, turn) : turn \in Orders(Keys(places))}
BY DEF Intact, IntactIn, Keys

(* In an order all turns are numbers, and they differ.                     *)
LEMMA OrderTurns ==
    ASSUME NEW S, NEW turn \in Orders(S)
    PROVE  /\ turn \in [S -> 1 .. Cardinality(S)]
           /\ \A a \in S : turn[a] \in Int
           /\ \A a, b \in S : turn[a] = turn[b] => a = b
<1>1. turn \in [S -> 1 .. Cardinality(S)] /\ IsInjective(turn)
  BY DEF Orders
<1>2. DOMAIN turn = S
  BY <1>1
<1>3. \A a, b \in S : turn[a] = turn[b] => a = b
  BY <1>1, <1>2 DEF IsInjective
<1> QED  BY <1>1, <1>3

(* A map can be ranged over in some order,                                 *)
LEMMA SomeOrder ==
    ASSUME NEW S, IsFiniteSet(S)
    PROVE  \E turn : turn \in Orders(S)
<1>1. ExistsBijection(S, 1 .. Cardinality(S))
  BY FS_CardinalityType, Fun_ExistsBijSymmetric
<1>2. PICK turn : turn \in Bijection(S, 1 .. Cardinality(S))
  BY <1>1 DEF ExistsBijection
<1>3. /\ turn \in [S -> 1 .. Cardinality(S)]
      /\ \A a, b \in S : turn[a] = turn[b] => a = b
  BY <1>2 DEF Bijection, Injection, IsInjective
<1>4. IsInjective(turn)
  BY <1>3 DEF IsInjective
<1> QED  BY <1>3, <1>4 DEF Orders

(* and so that a given one of two keys comes first.                        *)
LEMMA OrderWithFirst ==
    ASSUME NEW S, IsFiniteSet(S), NEW j \in S, NEW k \in S, j # k
    PROVE  \E turn \in Orders(S) : turn[k] < turn[j]
<1>1. PICK turn \in Orders(S) : TRUE
  BY SomeOrder
<1>2. /\ turn \in [S -> 1 .. Cardinality(S)]
      /\ \A a \in S : turn[a] \in Int
      /\ \A a, b \in S : turn[a] = turn[b] => a = b
  BY OrderTurns
<1>3. CASE turn[k] < turn[j]
  BY <1>3
<1>4. CASE ~ turn[k] < turn[j]
  <2> DEFINE swapped == [a \in S |-> IF a = j THEN turn[k]
                                     ELSE IF a = k THEN turn[j] ELSE turn[a]]
  <2>1. swapped \in [S -> 1 .. Cardinality(S)]
    BY <1>2
  <2>2. \A a, b \in S : swapped[a] = swapped[b] => a = b
    BY <1>2
  <2>3. DOMAIN swapped = S
    OBVIOUS
  <2>4. swapped[k] = turn[j] /\ swapped[j] = turn[k]
    OBVIOUS
  <2>5. turn[j] < turn[k]
    BY <1>2, <1>4
  <2> HIDE DEF swapped
  <2>6. IsInjective(swapped)
    BY <2>2, <2>3 DEF IsInjective
  <2>7. swapped \in Orders(S)
    BY <2>1, <2>6 DEF Orders
  <2> QED  BY <2>4, <2>5, <2>7
<1> QED  BY <1>3, <1>4

(* If no parameter begins with another, every order leaves every place     *)
(* intact.                                                                 *)
LEMMA PrefixFreeKeeps ==
    ASSUME NEW places, PrefixFree(Keys(places)), NEW turn \in Orders(Keys(places))
    PROVE  IntactIn(places, turn) = DOMAIN places
<1>1. \A a \in Keys(places) : turn[a] <= turn[a]
  BY OrderTurns
<1>2. \A p \in DOMAIN places : places[p] \in Keys(places)
  BY DEF Keys
<1> QED  BY <1>1, <1>2 DEF IntactIn, PrefixFree

(* namedQuery is safe for a statement, whatever the order in which Go      *)
(* ranges over the map, exactly if no parameter of it begins with the name *)
(* of another: with one that does, there is an order that garbles it.      *)
THEOREM NamedQuerySafe ==
    ASSUME NEW places, IsFiniteSet(Keys(places))
    PROVE  Intact(places) = {DOMAIN places} <=> PrefixFree(Keys(places))
<1>1. ASSUME PrefixFree(Keys(places)) PROVE Intact(places) = {DOMAIN places}
  <2>1. PICK turn : turn \in Orders(Keys(places))
    BY SomeOrder
  <2>2. \A t \in Orders(Keys(places)) : IntactIn(places, t) = DOMAIN places
    BY <1>1, PrefixFreeKeeps
  <2> QED  BY <2>1, <2>2, IntactByOrder
<1>2. ASSUME NEW j \in Keys(places), NEW k \in Keys(places), j # k,
             IsPrefix(Spelling[k], Spelling[j])
      PROVE  Intact(places) # {DOMAIN places}
  <2>1. PICK turn \in Orders(Keys(places)) : turn[k] < turn[j]
    BY <1>2, OrderWithFirst
  <2>2. turn[k] \in Int /\ turn[j] \in Int
    BY OrderTurns
  <2>3. ~ turn[j] <= turn[k]
    BY <2>1, <2>2
  <2>4. PICK p \in DOMAIN places : places[p] = j
    BY DEF Keys
  <2>5. p \notin IntactIn(places, turn)
    BY <1>2, <2>3, <2>4 DEF IntactIn
  <2>6. IntactIn(places, turn) \in Intact(places)
    BY IntactByOrder
  <2> QED  BY <2>4, <2>5, <2>6
<1> QED  BY <1>1, <1>2 DEF PrefixFree

=============================================================================
