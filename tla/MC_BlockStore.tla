--------------------------- MODULE MC_BlockStore ---------------------------
(***************************************************************************)
(* Small instances of BlockStore: a block g, its children a and b1, which    *)
(* exclude each other and carry the same transaction, c on top of a and d    *)
(* on top of c.                                                             *)
(***************************************************************************)
EXTENDS BlockStore

CONSTANTS g, a, b1, c, d, t1, t2, t3, k, j

MCParent == [x \in Block |-> CASE x = g -> NoHash [] x = c -> a [] x = d -> c [] OTHER -> g]
MCHeight == [x \in Block |-> CASE x = g -> 1 [] x = c -> 3 [] x = d -> 4 [] OTHER -> 2]
MCTxs == [x \in Block |-> CASE x = g -> {t1} [] x = a -> {t2} [] x = b1 -> {t2, t3}
                            [] x = c -> {t3} [] OTHER -> {}]

\* g creates k, both children change it, a and c write j as well.
One(key, old, new) == [key |-> key, old |-> old, new |-> new]
MCLogs ==
    [x \in Block |-> CASE x = g -> <<One(k, 0, 1)>>
                       [] x = a -> <<One(k, 1, 2), One(j, 0, 1)>>
                       [] x = b1 -> <<One(k, 1, 3)>>
                       [] x = c -> <<One(j, 1, 2)>>
                       [] OTHER -> <<>>]

\* Two transactions of one block write the same key.
MCLogsTwice == [MCLogs EXCEPT ![a] = <<One(k, 1, 2), One(k, 2, 3)>>]

MCSize == [x \in Block |-> IF x \in {a, c} THEN 2 ELSE 1]
=============================================================================
