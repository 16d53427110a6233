----------------------------- MODULE MCListing -----------------------------
(* Instances of Listing for TLC. *)
EXTENDS Listing, TLC

CONSTANTS
    s1, s2, s3, s4, \* saves
    ann, bob,       \* users
    t1, t2,         \* titles
    a1              \* author

(* Saves, users and titles are only compared for equality.                 *)
Symmetry == Permutations(Savers) \union Permutations(Users) \union Permutations(Titles)

(* A bound: nothing is looked at once the walk is over.                    *)
UntilOver == walk \in {"idle", "walking"}

(* A bound: of the books saved all but one at most are one user's and have *)
(* one title.                                                              *)
OneStranger ==
    \E user \in Users, title \in Titles :
        Cardinality({s \in Savers : /\ save[s] # "idle"
                                    /\ \/ row[s].values.user_id # user
                                       \/ row[s].values.title # title}) <= 1

=============================================================================
