----------------------------- MODULE MCAccounts -----------------------------
(* Instances of Accounts for TLC. *)
EXTENDS Accounts, FiniteSets, TLC

CONSTANTS
    r1, r2, r3, r4,     \* requests
    ann, bob,           \* e-mails
    p1, p2,             \* phones
    pw1, pw2            \* passwords

(* Requests, e-mails, phones and passwords are only compared for equality. *)
Symmetry ==
    Permutations(Requests) \union Permutations(Emails)
        \union Permutations(Phones) \union Permutations(Passwords)

(* Requests that only pass by: they are refused, or their user is about to *)
(* be looked up on a route that is open.                                   *)
PassesBy(r) == req[r].op \in {"refused", "invalid"} \/ (pc[r] = "auth" /\ req[r].op # "access")

(* A bound: four requests come only if none of them passes by, and of      *)
(* fewer only one does.                                                    *)
FewPassBy ==
    LET come == {r \in Requests : pc[r] # "idle"}
        passing == {r \in come : PassesBy(r)}
    IN  passing = {} \/ (Cardinality(passing) = 1 /\ Cardinality(come) <= 3)

=============================================================================
