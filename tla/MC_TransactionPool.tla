------------------------- MODULE MC_TransactionPool -------------------------
(***************************************************************************)
(* Small instances of TransactionPool: two transactions of which two fit    *)
(* into a block, and one that is too long for any block.                    *)
(***************************************************************************)
EXTENDS TransactionPool

CONSTANTS x, y, big, w1, w2

MCSize == [t \in Tx |-> IF t = big THEN 3 ELSE 1]
=============================================================================
