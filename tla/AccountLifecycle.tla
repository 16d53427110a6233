-------------------------- MODULE AccountLifecycle --------------------------
(***************************************************************************)
(* What the account part of bookwise promises, with no requests, no SQL    *)
(* transactions and no row versions in sight.                              *)
(*                                                                         *)
(* An account is an identity (e-mail, phone, password) that starts pending *)
(* and may become active.  Nobody else can take its e-mail or its phone,   *)
(* its identity never changes, it is never deactivated and never removed.  *)
(* Accounts.tla, which models the handlers, services and SQL statements,   *)
(* is shown to implement this specification.                               *)
(***************************************************************************)

CONSTANTS
    Emails,     \* e-mail addresses
    Phones,     \* phone numbers
    Passwords   \* passwords

VARIABLE
    accounts    \* the set of accounts that exist

Account == [email : Emails, phone : Phones, password : Passwords, activated : BOOLEAN]

Init == accounts = {}

(* A pending account appears, if both its e-mail and its phone are free.   *)
Register(a) ==
    /\ ~ a.activated
    /\ \A b \in accounts : b.email # a.email /\ b.phone # a.phone
    /\ accounts' = accounts \union {a}

(* A pending account becomes active and is otherwise what it was.          *)
Active(a) == [email |-> a.email, phone |-> a.phone, password |-> a.password, activated |-> TRUE]

Activate(a) ==
    /\ ~ a.activated
    /\ accounts' = (accounts \ {a}) \union {Active(a)}

Next ==
    \/ \E a \in Account : Register(a)
    \/ \E a \in accounts : Activate(a)

Spec == Init /\ [][Next]_accounts

=============================================================================
