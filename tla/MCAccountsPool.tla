--------------------------- MODULE MCAccountsPool ---------------------------
(* Instances of AccountsPool for TLC. *)
EXTENDS AccountsPool

CONSTANTS
    r1, r2, r3,         \* requests
    c1, c2,             \* connections
    ann, p1, pw1        \* the e-mail, the phone and the password

=============================================================================
