------------------------------ MODULE ChainLog ------------------------------
(***************************************************************************)
(* What the storage of a node promises: a chain of blocks that changes at   *)
(* its end only, and the world state that the operation logs of exactly     *)
(* those blocks produce.                                                    *)
(***************************************************************************)
EXTENDS Integers, Sequences

CONSTANTS
    Block,   \* block hashes
    NoHash,  \* the previous hash of the first block
    Parent,  \* [Block -> Block \cup {NoHash}]
    Key,     \* keys of the world state
    Logs,    \* [Block -> Seq([key : Key, old : Value, new : Value])]
    NoValue  \* the value of a key that is absent

VARIABLES
    chain,   \* the stored blocks, the first one at height 1
    world    \* the world state

\* The logs of b that write k, by their positions.
WritesOf(b, k) == {i \in DOMAIN Logs[b] : Logs[b][i].key = k}
LastWrite(b, k) == CHOOSE i \in WritesOf(b, k) : \A j \in WritesOf(b, k) : j <= i

\* The world state after the logs of b were written one after the other.
After(w, b) ==
    [k \in Key |-> IF WritesOf(b, k) = {} THEN w[k] ELSE Logs[b][LastWrite(b, k)].new]

\* The world state that a chain produces.
Replay(c) ==
    LET upTo[i \in 0 .. Len(c)] ==
            IF i = 0 THEN [k \in Key |-> NoValue] ELSE After(upTo[i - 1], c[i])
    IN  upTo[Len(c)]

Tip(c) == IF c = <<>> THEN NoHash ELSE c[Len(c)]

Init == chain = <<>> /\ world = Replay(<<>>)

\* A block is stored on top of the last one.
Extend(b) == Parent[b] = Tip(chain) /\ chain' = chain \o <<b>>

\* The last block is rolled back.
Undo == chain # <<>> /\ chain' = SubSeq(chain, 1, Len(chain) - 1)

Next == (Undo \/ \E b \in Block : Extend(b)) /\ world' = Replay(chain')

Spec == Init /\ [][Next]_<<chain, world>>
=============================================================================
