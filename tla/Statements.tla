----------------------------- MODULE Statements -----------------------------
(***************************************************************************)
(* How the repositories of bookwise write their statements and read the    *)
(* rows that come back (src/internal/repositories/repository.go), over the *)
(* structs of src/internal/models.                                         *)
(*                                                                         *)
(* selectColumns lists the columns of a struct for the text of a SELECT;   *)
(* collectFields lists the fields that Scan fills.  Nothing ties the two   *)
(* together but their position: they walk the same struct by different     *)
(* rules.  The queries of users say `select u.*` instead, so there it is   *)
(* the order of the columns in the table that has to agree.                *)
(*                                                                         *)
(* namedQuery replaces the names of the parameters by $1, $2, ... in the   *)
(* order in which Go ranges over a map, which is a different one each time.*)
(*                                                                         *)
(* Definitions with an underscore in their name are faulty variants of the *)
(* one that follows them, none is part of the model.                       *)
(***************************************************************************)
EXTENDS Naturals, SequencesExt

CONSTANT Garbled    \* a placeholder that PostgreSQL cannot read

-----------------------------------------------------------------------------
(***************************************************************************)
(* The structs: <<name, db tag, type>> for each field, where "none" is no  *)
(* tag, and stands for a type that is no struct of this table.             *)
(***************************************************************************)

Decl ==
  [User |-> << <<"ID", "id", "none">>, <<"Name", "name", "none">>,
               <<"Email", "email", "none">>, <<"Phone", "phone", "none">>,
               <<"Cod", "cod", "none">>, <<"Password", "none", "password">>,
               <<"Activated", "activated", "none">>, <<"BaseModel", "none", "BaseModel">> >>,
   password |-> << <<"Plaintext", "none", "none">>, <<"Hash", "password_hash", "none">> >>,
   BaseModel |-> << <<"Version", "version", "none">>, <<"Deleted", "deleted", "none">>,
                    <<"CreatedAt", "created_at", "Time">>, <<"CreatedBy", "created_by", "none">>,
                    <<"UpdatedAt", "updated_at", "Time">>, <<"UpdatedBy", "updated_by", "none">> >>,
   Book |-> << <<"ID", "id", "none">>, <<"Title", "title", "none">>,
               <<"Author", "author", "none">>, <<"Pages", "pages", "none">>,
               <<"Description", "description", "none">>,
               <<"BaseModel", "none", "BaseModel">>, <<"User", "-", "User">> >>,
   Time |-> << <<"wall", "none", "none">>, <<"ext", "none", "none">>, <<"loc", "none", "none">> >>]

Nested(type) == type \in DOMAIN Decl

(* The columns of the table users, in the order of its migration.          *)
UserTable ==
    <<"id", "name", "email", "phone", "cod", "password_hash", "activated",
      "version", "deleted", "created_at", "created_by", "updated_at", "updated_by">>

(* The fields of a struct that Scan fills, each by the path to it: those   *)
(* with a tag, and those of the structs in fields that have none, or "-".  *)
fields_SkippingDash[t \in DOMAIN Decl] ==
    FlattenSeq([i \in DOMAIN Decl[t] |->
        LET name == Decl[t][i][1]  tag == Decl[t][i][2]  type == Decl[t][i][3]
        IN  IF tag = "-" THEN <<>>
            ELSE IF tag # "none" THEN << <<name>> >>
            ELSE IF ~ Nested(type) THEN <<>>
            ELSE [j \in DOMAIN fields_SkippingDash[type] |->
                     <<name>> \o fields_SkippingDash[type][j]]])

fields[t \in DOMAIN Decl] ==
    FlattenSeq([i \in DOMAIN Decl[t] |->
        LET name == Decl[t][i][1]  tag == Decl[t][i][2]  type == Decl[t][i][3]
        IN  IF tag \notin {"none", "-"} THEN << <<name>> >>
            ELSE IF ~ Nested(type) THEN <<>>
            ELSE [j \in DOMAIN fields[type] |-> <<name>> \o fields[type][j]]])

CollectFields_SkipsDash == [t \in DOMAIN Decl |-> fields_SkippingDash[t]]

CollectFields == [t \in DOMAIN Decl |-> fields[t]]

(* The columns of a struct: no field tagged "-", but a struct is entered   *)
(* even when it has a tag.                                                 *)
columns[t \in DOMAIN Decl] ==
    FlattenSeq([i \in DOMAIN Decl[t] |->
        LET tag == Decl[t][i][2]  type == Decl[t][i][3]
        IN  IF tag = "-" THEN <<>>
            ELSE (IF tag = "none" THEN <<>> ELSE <<tag>>)
                 \o (IF Nested(type) THEN columns[type] ELSE <<>>)])

CollectColumns == [t \in DOMAIN Decl |-> columns[t]]

(* row.Scan: the i-th column goes to the i-th field, and there must be as  *)
(* many of the ones as of the others.                                      *)
Scans(row, t) == Len(row) = Len(CollectFields[t])

Scan(row, t) == {<<CollectFields[t][i], row[i]>> : i \in DOMAIN row}

(* The column that belongs in a field: the one of its tag.                 *)
Tagged == {f \in UNION {ToSet(Decl[t]) : t \in DOMAIN Decl} : f[2] \notin {"none", "-"}}

Tag == [name \in {f[1] : f \in Tagged} |-> (CHOOSE f \in Tagged : f[1] = name)[2]]

-----------------------------------------------------------------------------
(***************************************************************************)
(* namedQuery.  A parameter is spelled in words, so that one can be the    *)
(* beginning of another.                                                   *)
(***************************************************************************)

Spelling_ShortAuthor ==
    [title |-> <<"title">>, author |-> <<"user">>, pages |-> <<"pages">>,
     description |-> <<"description">>, user_id |-> <<"user", "_id">>,
     userID |-> <<"user", "ID">>, limit |-> <<"limit">>, offset |-> <<"offset">>]

Spelling ==
    [title |-> <<"title">>, author |-> <<"author">>, pages |-> <<"pages">>,
     description |-> <<"description">>, user_id |-> <<"user", "_id">>,
     userID |-> <<"user", "ID">>, limit |-> <<"limit">>, offset |-> <<"offset">>]

(* The orders in which a map with these keys may be ranged over.           *)
Orders(keys) ==
    {turn \in [keys -> 1 .. Cardinality(keys)] : IsInjective(turn)}

(* The places of a statement, each with the parameter named there, that    *)
(* are intact once namedQuery is done, for every order of the parameters:  *)
(* no other one whose name it begins with has been replaced before it.     *)
Intact(places) ==
    LET keys == {places[p] : p \in DOMAIN places}
    IN  {{p \in DOMAIN places :
             \A k \in keys :
                IsPrefix(Spelling[k], Spelling[places[p]]) => turn[places[p]] <= turn[k]} :
         turn \in Orders(keys)}

(* What PostgreSQL reads in each place.                                    *)
NamedQuery(places, params, intact) ==
    [p \in DOMAIN places |-> IF p \in intact THEN params[places[p]] ELSE Garbled]

=============================================================================
