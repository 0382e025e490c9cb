---------------------------- MODULE QuorumLedger ----------------------------
(***************************************************************************)
(* What a consensus of RepChain promises to the ledgers, whatever the       *)
(* protocol: a block is approved only on top of a block that a quorum of    *)
(* nodes holds, one level above it, and every node extends its ledger by    *)
(* approved blocks only, one at a time and from its tip.                    *)
(***************************************************************************)
EXTENDS Integers

CONSTANTS
    Node,     \* the nodes that hold a ledger
    Block,    \* block hashes
    Genesis,  \* the block every ledger starts with
    Quorum    \* the sets of nodes that are enough to approve a block

VARIABLES
    approved, \* the approved blocks, each with its parent and its height
    ledger,   \* the blocks of each node
    tip       \* the last block of each node

vars == <<approved, ledger, tip>>

Init ==
    /\ approved = {}
    /\ ledger = [n \in Node |-> {Genesis}]
    /\ tip = [n \in Node |-> Genesis]

\* The heights a block on top of p may have.
NextHeights(p) ==
    {2 : x \in {p} \cap {Genesis}} \cup {a.height + 1 : a \in {c \in approved : c.block = p}}

\* Approve b on top of p.  A block has one parent and one height for ever.
Approve(b, p, h) ==
    /\ \E Q \in Quorum : \A n \in Q : p \in ledger[n]
    /\ b # Genesis
    /\ \A a \in approved : a.block = b => a.parent = p /\ a.height = h
    /\ approved' = approved \cup {[block |-> b, parent |-> p, height |-> h]}
    /\ UNCHANGED <<ledger, tip>>

\* A node appends an approved block to its ledger.
Extend(n, a) ==
    /\ a.parent = tip[n]
    /\ a.block \notin ledger[n]
    /\ tip' = [tip EXCEPT ![n] = a.block]
    /\ ledger' = [ledger EXCEPT ![n] = @ \cup {a.block}]
    /\ UNCHANGED approved

Next ==
    \/ \E b, p \in Block : \E h \in NextHeights(p) : Approve(b, p, h)
    \/ \E n \in Node : \E a \in approved : Extend(n, a)

Spec == Init /\ [][Next]_vars
=============================================================================
