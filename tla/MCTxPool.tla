------------------------------ MODULE MCTxPool ------------------------------
(* Instances of TxPool for TLC. *)
EXTENDS TxPool

CONSTANTS
    r1, r2, r3, r4,     \* requests
    c1, c2              \* connections

=============================================================================
