---------------------------- MODULE MC_ChainSync ----------------------------
(***************************************************************************)
(* Small instances of ChainSync: the node me and two others, the chain      *)
(* m1, m2, m3, m4, and f, which is on m1 like m2.                           *)
(***************************************************************************)
EXTENDS ChainSync, TLC

CONSTANTS me, p, q, m1, m2, m3, m4, f

MCParent == [b \in Block |-> CASE b = m1 -> NoBlock [] b \in {m2, f} -> m1
                               [] b = m3 -> m2 [] OTHER -> m3]

\* Me missed blocks while it was away; the others differ by one.
Behind == (me :> m1) @@ (p :> m2) @@ (q :> m1)

\* All start from the same chain.
Even == (me :> m1) @@ (p :> m1) @@ (q :> m1)

\* All start from the same chain of two blocks.
Level == (me :> m2) @@ (p :> m2) @@ (q :> m2)

\* Me stored f, the others m2.
Forked == (me :> f) @@ (p :> m2) @@ (q :> m2)

\* Me has nothing yet.
Empty == (me :> NoBlock) @@ (p :> m2) @@ (q :> m2)

From(tops, running) == [tip |-> tops, running |-> running]

\* Me starts on the common chain, or runs and is on a fork, or runs and is empty.
SafeStarts == {From(Even, FALSE), From(Forked, TRUE), From(Empty, TRUE)}

\* Me starts level with the others, or runs and has missed a block.
LiveStarts == {From(Level, FALSE), From(Behind, TRUE)}

ForkedStart == {From(Forked, TRUE)}
=============================================================================
