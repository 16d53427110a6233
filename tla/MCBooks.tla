------------------------------ MODULE MCBooks ------------------------------
(* Instances of Books for TLC. *)
EXTENDS Books, TLC

CONSTANTS
    r1, r2, r3,     \* requests
    ann, bob,       \* users
    t1, t2,         \* titles
    x, y            \* contents

(* Requests, users, titles and contents are only compared for equality.    *)
Symmetry ==
    Permutations(Requests) \union Permutations(Users)
        \union Permutations(Titles) \union Permutations(Contents)

=============================================================================
