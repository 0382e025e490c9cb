--------------------------- MODULE RaftChain_proofs ---------------------------
(***************************************************************************)
(* The RAFT-like consensus for every set of nodes and blocks and every      *)
(* length of a term: types, what a node may do to its chain, and that one   *)
(* block of a height is published while every block is built by the result  *)
(* of the draw and no producer was restarted.                               *)
(***************************************************************************)
EXTENDS RaftChain, TLAPS, FiniteSetTheorems, WellFoundedInduction

-----------------------------------------------------------------------------
(* The inductive invariant.                                                  *)

\* The blocks somebody produced, and the one every node starts with.
Made == published \cup {Genesis}

\* A block is made once, one level above the block below it, and its chain has one
\* block of every height.
InvBlocks ==
    /\ Genesis \notin published
    /\ \A b \in Block : height[b] = -1 <=> b \notin Made
    /\ height[Genesis] = 1 /\ prev[Genesis] = NoHash /\ chain[Genesis] = {Genesis}
    /\ \A b \in published : /\ prev[b] \in Made /\ height[b] = height[prev[b]] + 1
                            /\ chain[b] = chain[prev[b]] \cup {b}
    /\ \A b \in Made : /\ height[b] <= Cardinality(Made) /\ chain[b] \subseteq Made
                       /\ \A x \in chain[b] : height[x] <= height[b]
                       /\ \A x, y \in chain[b] : height[x] = height[y] => x = y
                       /\ \A h \in 1 .. height[b] : \E x \in chain[b] : height[x] = h

\* What a node shows and what it has in the database are one block apart at most.
InvNodes == \A n \in Node :
    /\ tip[n] \in Made /\ saved[n] \in Made
    /\ saved[n] = tip[n] \/ prev[saved[n]] = tip[n] \/ prev[tip[n]] = saved[n]
    /\ startVote[n] \in Made \cup {NoHash}
    /\ preblock[n] \in published \cup {NoHash}

\* A producer that was not restarted made one block of a height, none when it is at
\* work on another.
InvOnce == \A n \in Node : restarts[n] = 0 =>
    /\ \A b \in published : Creator[b] = n =>
         /\ height[b] <= Height(n) + 1
         /\ height[b] = Height(n) + 1 => b = preblock[n] /\ prev[b] = tip[n] /\ ~packing[n]
    /\ \A b, c \in published : Creator[b] = n /\ Creator[c] = n /\ height[b] = height[c] => b = c

IInv == TypeOK /\ InvBlocks /\ InvNodes /\ InvOnce

-----------------------------------------------------------------------------
(* Blocks and chains.                                                        *)

LEMMA BlockFacts ==
    ASSUME TypeOK, InvBlocks
    PROVE  /\ Made \subseteq Block /\ Genesis \in Made /\ NoHash \notin Made
           /\ IsFiniteSet(Made) /\ Cardinality(Made) \in Nat
           /\ Cardinality(Made) <= Cardinality(Block) /\ Cardinality(Block) \in Nat
           /\ \A b \in Made : height[b] \in Nat /\ 0 < height[b] /\ b \in chain[b]
           /\ \A b \in published : height[b] > 1 /\ b \in Made /\ b # Genesis
<1>1. Made \subseteq Block /\ Genesis \in Made /\ NoHash \notin Made
  BY BlocksAssumption DEF TypeOK, Made
<1>2. IsFiniteSet(Made) /\ Cardinality(Made) <= Cardinality(Block)
  BY <1>1, BlocksAssumption, FS_Subset
<1>3. Cardinality(Made) \in Nat /\ Cardinality(Block) \in Nat
  BY <1>2, BlocksAssumption, FS_CardinalityType
<1>4. ASSUME NEW b \in Made PROVE height[b] \in Nat /\ 0 < height[b] /\ b \in chain[b]
  <2>1. height[b] # -1 /\ height[b] \in {-1} \cup 1 .. Cardinality(Block)
    BY <1>1 DEF TypeOK, InvBlocks
  <2>2. height[b] \in Nat /\ 0 < height[b]
    BY <1>3, <2>1
  <2>3. b \in chain[b]
    BY DEF InvBlocks, Made
  <2> QED
    BY <2>2, <2>3
<1>5. ASSUME NEW b \in published PROVE height[b] > 1 /\ b \in Made /\ b # Genesis
  <2>1. prev[b] \in Made /\ height[b] = height[prev[b]] + 1 /\ b # Genesis
    BY DEF InvBlocks
  <2> QED
    BY <1>4, <2>1 DEF Made
<1> QED
  BY <1>1, <1>2, <1>3, <1>4, <1>5

LEMMA AtFacts ==
    ASSUME TypeOK, InvBlocks, NEW b \in Made
    PROVE  /\ \A h : At(b, h) # NoHash => /\ At(b, h) \in chain[b] /\ At(b, h) \in Made
                                          /\ height[At(b, h)] = h
           /\ \A h \in 1 .. height[b] : At(b, h) # NoHash
           /\ \A x \in chain[b] : At(b, height[x]) = x
<1>1. chain[b] \subseteq Made /\ \A x, y \in chain[b] : height[x] = height[y] => x = y
  BY DEF InvBlocks
<1>2. ASSUME NEW h, At(b, h) # NoHash
      PROVE  At(b, h) \in chain[b] /\ At(b, h) \in Made /\ height[At(b, h)] = h
  <2>1. \E x \in chain[b] : height[x] = h
    BY <1>2 DEF At
  <2>2. At(b, h) \in chain[b] /\ height[At(b, h)] = h
    BY <2>1 DEF At
  <2> QED
    BY <1>1, <2>2
<1>3. ASSUME NEW h, NEW x \in chain[b], height[x] = h PROVE At(b, h) = x
  <2>1. At(b, h) \in chain[b] /\ height[At(b, h)] = h
    BY <1>3 DEF At
  <2> QED
    BY <1>1, <1>3, <2>1
<1>4. ASSUME NEW h \in 1 .. height[b] PROVE At(b, h) # NoHash
  <2>1. PICK x \in chain[b] : height[x] = h
    BY DEF InvBlocks
  <2>2. At(b, h) = x /\ x \in Made
    BY <1>1, <1>3, <2>1
  <2> QED
    BY <2>2, BlockFacts
<1> QED
  BY <1>2, <1>3, <1>4

\* A fetch from above the first block brings published blocks.
LEMMA FetchedFacts ==
    ASSUME TypeOK, InvBlocks, InvNodes, NEW n \in Node, NEW r \in Node, NEW from \in Nat, NEW to,
           1 < from
    PROVE  Fetched(n, r, from, to) \subseteq published
<1> SUFFICES ASSUME NEW b \in Fetched(n, r, from, to) PROVE b \in published
  OBVIOUS
<1>1. PICK h \in from .. to : b = At(saved[r], h) /\ b # NoHash
  BY DEF Fetched
<1>2. saved[r] \in Made
  BY DEF InvNodes
<1>3. b \in Made /\ height[b] = h
  BY <1>1, <1>2, AtFacts
<1>4. h # 1
  BY <1>1
<1> QED
  BY <1>3, <1>4 DEF Made, InvBlocks

LEMMA FrameBlocks ==
    ASSUME InvBlocks, UNCHANGED <<blockVars, published>>
    PROVE  InvBlocks' /\ Made' = Made
<1>1. prev' = prev /\ height' = height /\ chain' = chain /\ published' = published
  BY DEF blockVars
<1>2. Made' = Made
  BY <1>1 DEF Made
<1>3. InvBlocks'
  BY <1>1, <1>2 DEF InvBlocks
<1> QED
  BY <1>2, <1>3

LEMMA FrameOnce ==
    ASSUME InvOnce, UNCHANGED <<blockVars, published, tip, preblock, restarts>>,
           \A m \in Node : packing'[m] => packing[m]
    PROVE  InvOnce'
BY DEF InvOnce, Height, blockVars

\* What a voter may draw on.
Terms == {NoTerm} \cup {[hash |-> b, height |-> height[b]] : b \in published \cup {Genesis}}

\* A draw on a block that is made.
LEMMA ResetType ==
    ASSUME TypeOK, NEW n \in Node, NEW b \in Made, ResetBlocker(n, b),
           UNCHANGED <<blockVars, published>>
    PROVE  /\ term' \in [Node -> Terms]' /\ confirmed' \in [Node -> Nat]
           /\ create' \in [Node -> BOOLEAN]
<1>1. term \in [Node -> Terms] /\ Terms' = Terms
  BY DEF TypeOK, Terms, blockVars
<1>2. [hash |-> b, height |-> height[b]] \in Terms
  BY DEF Terms, Made
<1>3. term' \in [Node -> Terms]'
  BY <1>1, <1>2 DEF ResetBlocker
<1>4. confirmed' \in [Node -> Nat]
  BY DEF ResetBlocker, TypeOK
<1>5. create' \in [Node -> BOOLEAN]
  BY DEF ResetBlocker, TypeOK
<1> QED
  BY <1>3, <1>4, <1>5

\* A step that leaves the draws and the blocks alone.
LEMMA FrameTerm ==
    ASSUME TypeOK, UNCHANGED <<term, blockVars, published>>
    PROVE  term' \in [Node -> Terms]'
BY DEF TypeOK, Terms, blockVars

\* What the steps leave that change neither blocks nor what a node has made.
LEMMA FrameAll ==
    ASSUME IInv, UNCHANGED <<blockVars, published, preblock>>,
           term' \in [Node -> Terms]',
           tip' \in [Node -> Made] /\ saved' \in [Node -> Made],
           startVote' \in [Node -> Hash] /\ confirmed' \in [Node -> Nat],
           \A n \in Node : startVote'[n] \in Made \cup {NoHash},
           \A n \in Node : \/ saved'[n] = tip'[n] \/ prev[saved'[n]] = tip'[n]
                           \/ prev[tip'[n]] = saved'[n],
           create' \in [Node -> BOOLEAN] /\ sync' \in [Node -> BOOLEAN],
           packing' \in [Node -> BOOLEAN] /\ started' \in [Node -> BOOLEAN],
           mail' \in [Node -> SUBSET published] /\ cache' \in [Node -> SUBSET published],
           restarts' \in [Node -> Nat]
    PROVE  TypeOK' /\ InvBlocks' /\ InvNodes'
<1>1. TypeOK /\ InvBlocks /\ InvNodes
  BY DEF IInv
<1>2. InvBlocks' /\ Made' = Made
  BY <1>1, FrameBlocks
<1>3. Made \subseteq Block
  BY <1>1, BlockFacts
<1>4. prev' = prev /\ height' = height /\ chain' = chain
  BY DEF blockVars
<1>5. TypeOK'
  BY <1>1, <1>3, <1>4 DEF TypeOK, Terms
<1>6. InvNodes'
  BY <1>1, <1>2, <1>4 DEF InvNodes
<1> QED
  BY <1>2, <1>5, <1>6

\* The same with the chains of the nodes left alone as well.
LEMMA FrameRest ==
    ASSUME IInv, UNCHANGED <<blockVars, chainVars, published, preblock, lifeVars>>,
           term' \in [Node -> Terms]',
           startVote' \in [Node -> Hash] /\ confirmed' \in [Node -> Nat],
           \A n \in Node : startVote'[n] \in Made \cup {NoHash},
           create' \in [Node -> BOOLEAN] /\ sync' \in [Node -> BOOLEAN],
           packing' \in [Node -> BOOLEAN],
           mail' \in [Node -> SUBSET published] /\ cache' \in [Node -> SUBSET published]
    PROVE  TypeOK' /\ InvBlocks' /\ InvNodes'
<1>1. TypeOK /\ InvNodes
  BY DEF IInv
<1>2. tip' = tip /\ saved' = saved /\ started' = started /\ restarts' = restarts
  BY DEF chainVars, lifeVars
<1>3. tip' \in [Node -> Made] /\ saved' \in [Node -> Made]
  BY <1>1, <1>2 DEF TypeOK, InvNodes
<1>4. \A n \in Node : \/ saved'[n] = tip'[n] \/ prev[saved'[n]] = tip'[n]
                      \/ prev[tip'[n]] = saved'[n]
  BY <1>1, <1>2 DEF InvNodes
<1>5. started' \in [Node -> BOOLEAN] /\ restarts' \in [Node -> Nat]
  BY <1>1, <1>2 DEF TypeOK
<1> QED
  BY <1>3, <1>4, <1>5, FrameAll

-----------------------------------------------------------------------------
(* The steps of a node.                                                      *)

LEMMA VoterStep ==
    ASSUME IInv, NEW n \in Node, VoteFirst(n) \/ VoteNextTerm(n) \/ VoteAgain(n)
    PROVE  IInv'
<1>1. TypeOK /\ InvBlocks /\ InvNodes /\ InvOnce
  BY DEF IInv
<1>2. /\ UNCHANGED <<blockVars, chainVars, blockerVars, published, storerVars, lifeVars>>
  BY DEF VoteFirst, VoteNextTerm, VoteAgain, voterVars
<1>3. /\ preblock' = preblock /\ packing' = packing /\ mail' = mail /\ cache' = cache
      /\ tip' = tip /\ restarts' = restarts
  BY <1>2 DEF blockerVars, storerVars, chainVars, lifeVars
<1>4. /\ packing' \in [Node -> BOOLEAN]
      /\ mail' \in [Node -> SUBSET published] /\ cache' \in [Node -> SUBSET published]
  BY <1>1, <1>3 DEF TypeOK
<1>5. InvOnce'
  BY <1>1, <1>2, <1>3, FrameOnce
<1>6. CASE VoteFirst(n)
  <2> DEFINE b == IF startVote[n] = NoHash THEN tip[n] ELSE startVote[n]
  <2>1. b \in Made
    BY <1>1 DEF InvNodes
  <2>2. ResetBlocker(n, b) /\ startVote' = [startVote EXCEPT ![n] = NoHash] /\ sync' = sync
    BY <1>6 DEF VoteFirst
  <2> HIDE DEF b
  <2>3. /\ term' \in [Node -> Terms]' /\ confirmed' \in [Node -> Nat]
        /\ create' \in [Node -> BOOLEAN]
    BY <1>1, <1>2, <2>1, <2>2, ResetType
  <2>4. /\ startVote' \in [Node -> Hash] /\ sync' \in [Node -> BOOLEAN]
        /\ \A m \in Node : startVote'[m] \in Made \cup {NoHash}
    BY <1>1, <2>2 DEF TypeOK, InvNodes, Hash
  <2> QED
    BY <1>2, <1>3, <1>4, <1>5, <2>3, <2>4, FrameRest DEF IInv
<1>7. CASE VoteNextTerm(n)
  <2>1. startVote' = startVote
    BY <1>7 DEF VoteNextTerm
  <2>2. /\ startVote' \in [Node -> Hash]
        /\ \A m \in Node : startVote'[m] \in Made \cup {NoHash}
    BY <1>1, <2>1 DEF TypeOK, InvNodes
  <2>3. CASE Turn(n) # NoHash /\ ResetBlocker(n, Turn(n)) /\ sync' = sync
    <3>1. Turn(n) \in Made
      BY <1>1, <2>3, AtFacts DEF Turn, InvNodes
    <3>2. /\ term' \in [Node -> Terms]' /\ confirmed' \in [Node -> Nat]
          /\ create' \in [Node -> BOOLEAN]
      BY <1>1, <1>2, <2>3, <3>1, ResetType
    <3>3. sync' \in [Node -> BOOLEAN]
      BY <1>1, <2>3 DEF TypeOK
    <3> QED
      BY <1>2, <1>3, <1>4, <1>5, <2>2, <3>2, <3>3, FrameRest DEF IInv
  <2>4. CASE sync' = [sync EXCEPT ![n] = TRUE] /\ UNCHANGED <<term, confirmed, create>>
    <3>1. term' \in [Node -> Terms]'
      BY <1>1, <1>2, <2>4, FrameTerm
    <3>2. /\ confirmed' \in [Node -> Nat] /\ create' \in [Node -> BOOLEAN]
          /\ sync' \in [Node -> BOOLEAN]
      BY <1>1, <2>4 DEF TypeOK
    <3> QED
      BY <1>2, <1>3, <1>4, <1>5, <2>2, <3>1, <3>2, FrameRest DEF IInv
  <2> QED
    BY <1>7, <2>3, <2>4 DEF VoteNextTerm
<1>8. CASE VoteAgain(n)
  <2>1. /\ create' = [create EXCEPT ![n] = TRUE] /\ term' = term /\ startVote' = startVote
        /\ confirmed' = confirmed /\ sync' = sync
    BY <1>8 DEF VoteAgain, voterVars
  <2>2. term' \in [Node -> Terms]'
    BY <1>1, <1>2, <2>1, FrameTerm
  <2>3. /\ confirmed' \in [Node -> Nat] /\ create' \in [Node -> BOOLEAN]
        /\ sync' \in [Node -> BOOLEAN] /\ startVote' \in [Node -> Hash]
        /\ \A m \in Node : startVote'[m] \in Made \cup {NoHash}
    BY <1>1, <2>1 DEF TypeOK, InvNodes
  <2> QED
    BY <1>2, <1>3, <1>4, <1>5, <2>2, <2>3, FrameRest DEF IInv
<1> QED
  BY <1>6, <1>7, <1>8

LEMMA CreateBlockStep ==
    ASSUME IInv, NEW n \in Node, CreateBlock(n)
    PROVE  IInv'
<1>1. TypeOK /\ InvBlocks /\ InvNodes /\ InvOnce
  BY DEF IInv
<1>2. /\ UNCHANGED <<blockVars, chainVars, voterVars, confirmed, preblock, published, storerVars,
                     sync, lifeVars>>
      /\ create' = [create EXCEPT ![n] = FALSE]
      /\ packing' = [packing EXCEPT ![n] =
                       Drawn(n) /\ (preblock[n] # NoHash => prev[preblock[n]] # tip[n])]
  BY DEF CreateBlock
<1>3. /\ term' = term /\ startVote' = startVote /\ mail' = mail /\ cache' = cache
      /\ tip' = tip /\ restarts' = restarts /\ prev' = prev /\ height' = height
  BY <1>2 DEF blockVars, voterVars, storerVars, chainVars, lifeVars
<1>4. term' \in [Node -> Terms]'
  BY <1>1, <1>2, <1>3, FrameTerm
<1>5. packing' \in [Node -> BOOLEAN]
  BY <1>1, <1>2 DEF TypeOK, Drawn
<1>6. /\ confirmed' \in [Node -> Nat] /\ create' \in [Node -> BOOLEAN]
      /\ sync' \in [Node -> BOOLEAN] /\ startVote' \in [Node -> Hash]
      /\ mail' \in [Node -> SUBSET published] /\ cache' \in [Node -> SUBSET published]
      /\ \A m \in Node : startVote'[m] \in Made \cup {NoHash}
  BY <1>1, <1>2, <1>3 DEF TypeOK, InvNodes
<1>7. TypeOK' /\ InvBlocks' /\ InvNodes'
  BY <1>2, <1>4, <1>5, <1>6, FrameRest
<1>8. InvOnce'
  <2> SUFFICES ASSUME NEW m \in Node, restarts[m] = 0
               PROVE  /\ \A b \in published : Creator[b] = m =>
                           /\ height[b] <= Height(m) + 1
                           /\ height[b] = Height(m) + 1 =>
                                b = preblock[m] /\ prev[b] = tip[m] /\ ~packing'[m]
                      /\ \A b, c \in published :
                           Creator[b] = m /\ Creator[c] = m /\ height[b] = height[c] => b = c
    BY <1>2, <1>3 DEF InvOnce, Height
  <2>1. ASSUME NEW b \in published, Creator[b] = m, height[b] = Height(m) + 1
        PROVE  ~packing'[m]
    <3>1. b = preblock[m] /\ prev[b] = tip[m] /\ ~packing[m]
      BY <1>1, <2>1 DEF InvOnce
    <3>2. preblock[m] # NoHash
      BY <1>1, <3>1, BlockFacts
    <3>3. CASE m = n
      BY <1>1, <1>2, <3>1, <3>2, <3>3 DEF TypeOK
    <3>4. CASE m # n
      BY <1>1, <1>2, <3>1, <3>4 DEF TypeOK
    <3> QED
      BY <3>3, <3>4
  <2> QED
    BY <1>1, <2>1 DEF InvOnce
<1> QED
  BY <1>7, <1>8 DEF IInv

LEMMA PackBlockStep ==
    ASSUME IInv, NEW n \in Node, PackBlock(n)
    PROVE  IInv'
<1> DEFINE b == CHOOSE b \in Unused(n) : TRUE
           p == tip[n]
<1>1. TypeOK /\ InvBlocks /\ InvNodes /\ InvOnce
  BY DEF IInv
<1>2. /\ packing[n] /\ packing' = [packing EXCEPT ![n] = FALSE]
      /\ prev' = [prev EXCEPT ![b] = p] /\ height' = [height EXCEPT ![b] = Height(n) + 1]
      /\ chain' = [chain EXCEPT ![b] = chain[p] \cup {b}]
      /\ preblock' = [preblock EXCEPT ![n] = b] /\ published' = published \cup {b}
      /\ UNCHANGED <<chainVars, voterVars, confirmed, create, cache, sync, lifeVars>>
  BY DEF PackBlock
<1>3. PICK D \in SUBSET Missed[b] : mail' = [m \in Node |-> mail[m] \cup {x \in {b} : m \notin D}]
  BY DEF PackBlock
<1>4. b \in Block /\ height[b] = -1 /\ Creator[b] = n
  <2>1. Unused(n) # {}
    BY DEF PackBlock
  <2>2. b \in Unused(n)
    BY <2>1
  <2> HIDE DEF b
  <2> QED
    BY <2>2 DEF Unused
<1> HIDE DEF b
<1>5. /\ b \notin Made /\ b \notin published /\ b # Genesis /\ p \in Made /\ p # b
      /\ height[p] \in Nat /\ 0 < height[p] /\ Height(n) = height[p] /\ Made' = Made \cup {b}
  <2>1. b \notin Made
    BY <1>1, <1>4 DEF InvBlocks
  <2>2. p \in Made
    BY <1>1 DEF InvNodes
  <2>3. height[p] \in Nat /\ 0 < height[p]
    BY <1>1, <2>2, BlockFacts
  <2>4. Made' = Made \cup {b}
    BY <1>2 DEF Made
  <2>5. Height(n) = height[p]
    BY DEF Height
  <2>6. b \notin published /\ b # Genesis
    BY <2>1 DEF Made
  <2> HIDE DEF p
  <2> QED
    BY <2>1, <2>2, <2>3, <2>4, <2>5, <2>6
<1>6. /\ prev'[b] = p /\ height'[b] = height[p] + 1 /\ chain'[b] = chain[p] \cup {b}
      /\ \A x \in Made : prev'[x] = prev[x] /\ height'[x] = height[x] /\ chain'[x] = chain[x]
      /\ \A x \in Block : x # b => height'[x] = height[x]
  BY <1>1, <1>2, <1>4, <1>5, BlockFacts DEF TypeOK
<1>7. /\ tip' = tip /\ saved' = saved /\ term' = term /\ startVote' = startVote
      /\ started' = started /\ restarts' = restarts
  BY <1>2 DEF chainVars, voterVars, lifeVars
<1>8. /\ Made' \subseteq Block /\ Cardinality(Made') = Cardinality(Made) + 1
      /\ Cardinality(Made') <= Cardinality(Block) /\ Cardinality(Made) \in Nat
      /\ Cardinality(Block) \in Nat /\ height[p] <= Cardinality(Made)
  <2>1. Made' \subseteq Block /\ IsFiniteSet(Made) /\ Cardinality(Made) \in Nat
        /\ Cardinality(Block) \in Nat
    BY <1>1, <1>4, <1>5, BlockFacts
  <2>2. Cardinality(Made') = Cardinality(Made) + 1
    BY <1>5, <2>1, FS_AddElement
  <2>3. Cardinality(Made') <= Cardinality(Block)
    BY <2>1, BlocksAssumption, FS_Subset
  <2> QED
    BY <1>1, <1>5, <2>1, <2>2, <2>3 DEF InvBlocks
<1>9. InvBlocks'
  <2>1. Genesis \notin published' /\ \A x \in Block : height'[x] = -1 <=> x \notin Made'
    BY <1>1, <1>2, <1>4, <1>5, <1>6 DEF InvBlocks
  <2>2. height'[Genesis] = 1 /\ prev'[Genesis] = NoHash /\ chain'[Genesis] = {Genesis}
    BY <1>1, <1>6, BlockFacts DEF InvBlocks
  <2>3. ASSUME NEW x \in published'
        PROVE  /\ prev'[x] \in Made' /\ height'[x] = height'[prev'[x]] + 1
               /\ chain'[x] = chain'[prev'[x]] \cup {x}
    <3>1. CASE x = b
      BY <1>5, <1>6, <3>1
    <3>2. CASE x # b
      <4>1. x \in published /\ x \in Made /\ prev[x] \in Made /\ height[x] = height[prev[x]] + 1
            /\ chain[x] = chain[prev[x]] \cup {x}
        BY <1>1, <1>2, <3>2 DEF InvBlocks, Made
      <4> QED
        BY <1>5, <1>6, <4>1
    <3> QED
      BY <3>1, <3>2
  <2>4. ASSUME NEW x \in Made'
        PROVE  /\ height'[x] <= Cardinality(Made') /\ chain'[x] \subseteq Made'
               /\ \A y \in chain'[x] : height'[y] <= height'[x]
               /\ \A y, z \in chain'[x] : height'[y] = height'[z] => y = z
               /\ \A h \in 1 .. height'[x] : \E y \in chain'[x] : height'[y] = h
    <3>1. ASSUME NEW q \in Made
          PROVE  /\ height[q] \in Nat /\ height'[q] = height[q] /\ chain'[q] = chain[q]
                 /\ height[q] <= Cardinality(Made) /\ chain[q] \subseteq Made
                 /\ \A y \in chain[q] : y \in Made /\ height'[y] = height[y]
                                        /\ height[y] \in Nat /\ height[y] <= height[q]
                 /\ \A y, z \in chain[q] : height[y] = height[z] => y = z
                 /\ \A h \in 1 .. height[q] : \E y \in chain[q] : height[y] = h
      BY <1>1, <1>6, BlockFacts DEF InvBlocks
    <3>2. CASE x \in Made
      <4>1. height'[x] <= Cardinality(Made') /\ chain'[x] \subseteq Made'
        BY <1>5, <1>8, <3>1, <3>2
      <4>2. \A y, z \in chain'[x] : height'[y] = height'[z] => y = z
        BY <3>1, <3>2
      <4>3. \A h \in 1 .. height'[x] : \E y \in chain'[x] : height'[y] = h
        BY <3>1, <3>2
      <4>4. \A y \in chain'[x] : height'[y] <= height'[x]
        BY <3>1, <3>2
      <4> QED
        BY <4>1, <4>2, <4>3, <4>4
    <3>3. CASE x = b
      <4>1. height'[x] <= Cardinality(Made') /\ chain'[x] \subseteq Made'
        BY <1>5, <1>6, <1>8, <3>1, <3>3
      <4>2. \A y \in chain[p] : y \in Made /\ height'[y] = height[y]
                                /\ height[y] \in Nat /\ height[y] <= height[p]
        BY <1>5, <3>1
      <4>3. \A y \in chain'[x] : height'[y] <= height'[x]
        BY <1>5, <1>6, <3>3, <4>2
      <4>4. ASSUME NEW y \in chain'[x], NEW z \in chain'[x], height'[y] = height'[z]
            PROVE  y = z
        <5>1. \A w \in chain[p] : height'[w] # height'[b]
          BY <1>5, <1>6, <4>2
        <5>2. \A w, v \in chain[p] : height'[w] = height'[v] => w = v
          BY <1>5, <3>1
        <5> QED
          BY <1>6, <3>3, <4>4, <5>1, <5>2
      <4>5. ASSUME NEW h \in 1 .. height'[x] PROVE \E y \in chain'[x] : height'[y] = h
        <5>1. CASE h = height[p] + 1
          BY <1>6, <3>3, <5>1
        <5>2. CASE h # height[p] + 1
          <6>1. h \in 1 .. height[p]
            BY <1>5, <1>6, <3>3, <5>2
          <6>2. PICK y \in chain[p] : height[y] = h
            BY <1>5, <3>1, <6>1
          <6> QED
            BY <1>6, <3>3, <4>2, <6>2
        <5> QED
          BY <5>1, <5>2
      <4> QED
        BY <4>1, <4>3, <4>4, <4>5
    <3> QED
      BY <1>5, <3>2, <3>3
  <2> QED
    BY <2>1, <2>2, <2>3, <2>4 DEF InvBlocks
<1>10. InvNodes'
  <2> SUFFICES ASSUME NEW m \in Node
               PROVE  /\ tip[m] \in Made' /\ saved[m] \in Made'
                      /\ \/ saved[m] = tip[m] \/ prev'[saved[m]] = tip[m]
                         \/ prev'[tip[m]] = saved[m]
                      /\ startVote[m] \in Made' \cup {NoHash}
                      /\ preblock'[m] \in published' \cup {NoHash}
    BY <1>7 DEF InvNodes
  <2>1. /\ tip[m] \in Made /\ saved[m] \in Made /\ startVote[m] \in Made \cup {NoHash}
        /\ saved[m] = tip[m] \/ prev[saved[m]] = tip[m] \/ prev[tip[m]] = saved[m]
        /\ preblock[m] \in published \cup {NoHash}
    BY <1>1 DEF InvNodes
  <2>2. preblock'[m] \in {b, preblock[m]}
    BY <1>1, <1>2 DEF TypeOK
  <2> QED
    BY <1>2, <1>5, <1>6, <2>1, <2>2
<1>11. TypeOK'
  <2>1. /\ prev' \in [Block -> Hash]
        /\ height' \in [Block -> {-1} \cup 1 .. Cardinality(Block)]
        /\ chain' \in [Block -> SUBSET Block]
    <3>1. height[p] + 1 \in 1 .. Cardinality(Block)
      BY <1>5, <1>8
    <3>2. p \in Block /\ p \in Hash
      BY <1>1, <1>5, BlockFacts DEF Hash
    <3>3. chain[p] \cup {b} \subseteq Block
      BY <1>1, <1>4, <3>2 DEF TypeOK
    <3> QED
      BY <1>1, <1>2, <1>4, <1>5, <3>1, <3>2, <3>3 DEF TypeOK
  <2>2. term' \in [Node -> Terms]'
    <3>1. Terms \subseteq Terms'
      <4>1. ASSUME NEW x \in Made
            PROVE  [hash |-> x, height |-> height[x]] \in Terms'
        BY <1>5, <1>6 DEF Terms, Made
      <4> QED
        BY <4>1 DEF Terms, Made
    <3> QED
      BY <1>1, <1>7, <3>1 DEF TypeOK, Terms
  <2>3. /\ packing' \in [Node -> BOOLEAN] /\ preblock' \in [Node -> Hash]
        /\ published' \subseteq Block /\ mail' \in [Node -> SUBSET published']
        /\ cache' \in [Node -> SUBSET published']
    BY <1>1, <1>2, <1>3, <1>4 DEF TypeOK, Hash
  <2> QED
    BY <1>1, <1>2, <1>7, <2>1, <2>2, <2>3 DEF TypeOK, Terms
<1>12. InvOnce'
  <2> SUFFICES ASSUME NEW m \in Node, restarts[m] = 0
               PROVE  /\ \A x \in published' : Creator[x] = m =>
                           /\ height'[x] <= height[p] + 1 \/ m # n
                           /\ height'[x] <= Height(m) + 1
                           /\ height'[x] = Height(m) + 1 =>
                                x = preblock'[m] /\ prev'[x] = tip[m] /\ ~packing'[m]
                      /\ \A x, y \in published' :
                           Creator[x] = m /\ Creator[y] = m /\ height'[x] = height'[y] => x = y
    <3>1. \A m \in Node : Height(m)' = Height(m)
      BY <1>1, <1>6, <1>7 DEF Height, InvNodes
    <3> QED
      BY <1>7, <3>1 DEF InvOnce
  <2>1. \A x \in published : x \in Made /\ height'[x] = height[x] /\ prev'[x] = prev[x] /\ x # b
    BY <1>5, <1>6 DEF Made
  <2>2. CASE m # n
    <3>1. \A x \in published' : Creator[x] = m => x \in published
      BY <1>2, <1>4, <2>2
    <3>2. packing'[m] = packing[m] /\ preblock'[m] = preblock[m]
      BY <1>1, <1>2, <2>2 DEF TypeOK
    <3> QED
      BY <1>1, <2>1, <2>2, <3>1, <3>2 DEF InvOnce
  <2>3. CASE m = n
    <3>1. \A x \in published : Creator[x] = n => height[x] < height[p] + 1 /\ height[x] \in Nat
      BY <1>1, <1>2, <1>5, <2>3, BlockFacts DEF InvOnce
    <3>2. packing'[n] = FALSE /\ preblock'[n] = b
      BY <1>1, <1>2 DEF TypeOK
    <3>3. ASSUME NEW x \in published', Creator[x] = n
          PROVE  /\ height'[x] <= height[p] + 1
                 /\ height'[x] = height[p] + 1 => x = b
      BY <1>2, <1>5, <1>6, <2>1, <3>1, <3>3
    <3>4. ASSUME NEW x \in published', NEW y \in published', Creator[x] = n, Creator[y] = n,
                 height'[x] = height'[y]
          PROVE  x = y
      <4>1. CASE x = b \/ y = b
        BY <1>6, <3>3, <3>4, <4>1
      <4>2. CASE x # b /\ y # b
        BY <1>1, <1>2, <2>1, <2>3, <3>4, <4>2 DEF InvOnce
      <4> QED
        BY <4>1, <4>2
    <3> QED
      BY <1>5, <1>6, <2>3, <3>2, <3>3, <3>4
  <2> QED
    BY <2>2, <2>3
<1> QED
  BY <1>9, <1>10, <1>11, <1>12 DEF IInv

\* The steps of the storager before pe shows a new block, and of the confirmer.
LEMMA FrameStorer ==
    ASSUME IInv, UNCHANGED <<blockVars, tip, voterVars, create, blockerVars, published, lifeVars>>,
           saved' \in [Node -> Made],
           \A n \in Node : \/ saved'[n] = tip[n] \/ prev[saved'[n]] = tip[n]
                           \/ prev[tip[n]] = saved'[n],
           confirmed' \in [Node -> Nat], sync' \in [Node -> BOOLEAN],
           mail' \in [Node -> SUBSET published] /\ cache' \in [Node -> SUBSET published]
    PROVE  IInv'
<1>1. TypeOK /\ InvBlocks /\ InvNodes /\ InvOnce
  BY DEF IInv
<1>2. /\ term' = term /\ startVote' = startVote /\ packing' = packing /\ preblock' = preblock
      /\ started' = started /\ restarts' = restarts
  BY DEF voterVars, blockerVars, lifeVars
<1>3. term' \in [Node -> Terms]'
  BY <1>1, <1>2, FrameTerm
<1>4. /\ tip' \in [Node -> Made] /\ startVote' \in [Node -> Hash]
      /\ \A n \in Node : startVote'[n] \in Made \cup {NoHash}
  BY <1>1, <1>2 DEF TypeOK, InvNodes
<1>5. /\ create' \in [Node -> BOOLEAN] /\ packing' \in [Node -> BOOLEAN]
      /\ started' \in [Node -> BOOLEAN] /\ restarts' \in [Node -> Nat]
  BY <1>1, <1>2 DEF TypeOK
<1>6. TypeOK' /\ InvBlocks' /\ InvNodes'
  BY <1>2, <1>3, <1>4, <1>5, FrameAll
<1>7. InvOnce'
  BY <1>1, <1>2, FrameOnce
<1> QED
  BY <1>6, <1>7 DEF IInv

LEMMA NodesStill ==
    ASSUME IInv
    PROVE  /\ saved \in [Node -> Made] /\ confirmed \in [Node -> Nat] /\ sync \in [Node -> BOOLEAN]
           /\ mail \in [Node -> SUBSET published] /\ cache \in [Node -> SUBSET published]
           /\ \A n \in Node : saved[n] = tip[n] \/ prev[saved[n]] = tip[n] \/ prev[tip[n]] = saved[n]
BY DEF IInv, TypeOK, InvNodes

LEMMA ConfirmStep ==
    ASSUME IInv, NEW n \in Node, Confirm(n)
    PROVE  IInv'
<1>1. PICK b \in mail[n] :
        /\ mail' = [mail EXCEPT ![n] = @ \ {b}]
        /\ \/ /\ height[b] > Height(n)
              /\ cache' = [cache EXCEPT ![n] = {x \in @ : height[x] # height[b]} \cup {b}]
              /\ confirmed' = [confirmed EXCEPT ![n] = height[b]]
           \/ height[b] <= Height(n) /\ UNCHANGED <<cache, confirmed>>
        /\ UNCHANGED <<blockVars, chainVars, voterVars, create, blockerVars, published, sync,
                       lifeVars>>
  BY DEF Confirm
<1>2. b \in published /\ height[b] \in Nat
  BY NodesStill, BlockFacts DEF IInv
<1>3. saved' = saved /\ tip' = tip
  BY <1>1 DEF chainVars
<1>4. /\ mail' \in [Node -> SUBSET published] /\ cache' \in [Node -> SUBSET published]
      /\ confirmed' \in [Node -> Nat]
  BY <1>1, <1>2, NodesStill
<1> QED
  BY <1>1, <1>3, <1>4, NodesStill, FrameStorer

LEMMA CommitStep ==
    ASSUME IInv, NEW n \in Node, Commit(n)
    PROVE  IInv'
<1>1. PICK b \in cache[n] :
        /\ prev[b] = tip[n] /\ saved' = [saved EXCEPT ![n] = b]
        /\ UNCHANGED <<blockVars, tip, voterVars, confirmed, create, blockerVars, published,
                       storerVars, sync, lifeVars>>
  BY DEF Commit, Fits
<1>2. b \in Made
  BY NodesStill DEF Made
<1>3. /\ saved' \in [Node -> Made]
      /\ \A m \in Node : \/ saved'[m] = tip[m] \/ prev[saved'[m]] = tip[m]
                         \/ prev[tip[m]] = saved'[m]
  BY <1>1, <1>2, NodesStill
<1>4. mail' = mail /\ cache' = cache
  BY <1>1 DEF storerVars
<1> QED
  BY <1>1, <1>3, <1>4, NodesStill, FrameStorer

LEMMA RefuseStep ==
    ASSUME IInv, NEW n \in Node, Refuse(n)
    PROVE  IInv'
<1>1. PICK b \in cache[n] :
        /\ cache' = [cache EXCEPT ![n] = @ \ {b}]
        /\ sync' = [sync EXCEPT ![n] = @ \/ (height[b] = Height(n) + 1 /\ prev[b] # tip[n])]
        /\ UNCHANGED <<blockVars, chainVars, voterVars, confirmed, create, blockerVars, published,
                       mail, lifeVars>>
  BY DEF Refuse
<1>2. saved' = saved /\ tip' = tip
  BY <1>1 DEF chainVars
<1>3. cache' \in [Node -> SUBSET published]
  BY <1>1, NodesStill
<1>4. sync' \in [Node -> BOOLEAN]
  BY <1>1, NodesStill
<1> QED
  BY <1>1, <1>2, <1>3, <1>4, NodesStill, FrameStorer

LEMMA GapStep ==
    ASSUME IInv, NEW n \in Node, Gap(n)
    PROVE  IInv'
<1>1. PICK b \in cache[n], c \in cache[n] :
        /\ cache' = [cache EXCEPT ![n] =
                       @ \cup Fetched(n, Creator[b], Height(n) + 1, height[c])]
        /\ UNCHANGED <<blockVars, chainVars, voterVars, confirmed, create, blockerVars, published,
                       mail, sync, lifeVars>>
  BY DEF Gap
<1>2. saved' = saved /\ tip' = tip
  BY <1>1 DEF chainVars
<1>3. Height(n) + 1 \in Nat /\ 1 < Height(n) + 1
  BY BlockFacts DEF IInv, InvNodes, Height
<1>4. Creator[b] \in Node
  BY NodesStill, BlocksAssumption DEF IInv, TypeOK
<1>5. Fetched(n, Creator[b], Height(n) + 1, height[c]) \subseteq published
  BY <1>3, <1>4, FetchedFacts DEF IInv
<1>6. cache' \in [Node -> SUBSET published]
  BY <1>1, <1>5, NodesStill
<1> QED
  BY <1>1, <1>2, <1>6, NodesStill, FrameStorer

\* pe shows the block that was committed: what the node made of that height it made
\* on another block, or it is the block it remembers.
LEMMA ShowStep ==
    ASSUME IInv, NEW n \in Node, Show(n)
    PROVE  IInv'
<1>1. TypeOK /\ InvBlocks /\ InvNodes /\ InvOnce
  BY DEF IInv
<1>2. /\ Saving(n) /\ tip' = [tip EXCEPT ![n] = saved[n]]
      /\ cache' = [cache EXCEPT ![n] = {b \in @ : height[b] # height[saved[n]]}]
      /\ UNCHANGED <<blockVars, saved, voterVars, confirmed, create, blockerVars, published, mail,
                     sync, lifeVars>>
  BY DEF Show
<1>3. /\ term' = term /\ startVote' = startVote /\ packing' = packing /\ preblock' = preblock
      /\ started' = started /\ restarts' = restarts /\ prev' = prev /\ height' = height
  BY <1>2 DEF voterVars, blockerVars, lifeVars, blockVars
<1>4. term' \in [Node -> Terms]'
  BY <1>1, <1>2, <1>3, FrameTerm
<1>5. /\ tip' \in [Node -> Made] /\ saved' \in [Node -> Made]
      /\ \A m \in Node : \/ saved'[m] = tip'[m] \/ prev[saved'[m]] = tip'[m]
                         \/ prev[tip'[m]] = saved'[m]
  BY <1>1, <1>2, NodesStill DEF InvNodes, TypeOK
<1>6. /\ startVote' \in [Node -> Hash] /\ \A m \in Node : startVote'[m] \in Made \cup {NoHash}
      /\ cache' \in [Node -> SUBSET published] /\ mail' \in [Node -> SUBSET published]
  BY <1>1, <1>2, <1>3 DEF TypeOK, InvNodes
<1>7. /\ confirmed' \in [Node -> Nat] /\ create' \in [Node -> BOOLEAN]
      /\ sync' \in [Node -> BOOLEAN] /\ packing' \in [Node -> BOOLEAN]
      /\ started' \in [Node -> BOOLEAN] /\ restarts' \in [Node -> Nat]
  BY <1>1, <1>2, <1>3 DEF TypeOK
<1>8. TypeOK' /\ InvBlocks' /\ InvNodes'
  BY <1>2, <1>3, <1>4, <1>5, <1>6, <1>7, FrameAll
<1>9. InvOnce'
  <2> SUFFICES ASSUME NEW m \in Node, restarts[m] = 0
               PROVE  /\ \A b \in published : Creator[b] = m =>
                           /\ height[b] <= height[tip'[m]] + 1
                           /\ height[b] = height[tip'[m]] + 1 =>
                                b = preblock[m] /\ prev[b] = tip'[m] /\ ~packing[m]
                      /\ \A b, c \in published :
                           Creator[b] = m /\ Creator[c] = m /\ height[b] = height[c] => b = c
    BY <1>2, <1>3 DEF InvOnce, Height
  <2>1. /\ height[tip[m]] \in Nat /\ height[saved[m]] \in Nat
        /\ \A b \in published : height[b] \in Nat
    BY <1>1, BlockFacts DEF InvNodes
  <2>2. CASE m = n
    <3>1. tip'[m] = saved[m] /\ height[saved[m]] > height[tip[m]]
      BY <1>1, <1>2, <2>2 DEF Saving, Height, TypeOK
    <3>2. \A b \in published : Creator[b] = m => height[b] <= height[tip[m]] + 1
      BY <1>1 DEF InvOnce, Height
    <3>3. \A b \in published : Creator[b] = m => height[b] < height[tip'[m]] + 1
      BY <2>1, <3>1, <3>2
    <3> QED
      BY <1>1, <2>1, <3>1, <3>3 DEF InvOnce
  <2>3. CASE m # n
    <3>1. tip'[m] = tip[m]
      BY <1>1, <1>2, <2>3 DEF TypeOK
    <3> QED
      BY <1>1, <3>1 DEF InvOnce, Height
  <2> QED
    BY <2>2, <2>3
<1> QED
  BY <1>8, <1>9 DEF IInv

\* A node follows another chain from above its own block, or from a block on the
\* same parent, and that one has a block below it.
LEMMA StartSyncStep ==
    ASSUME IInv, NEW n \in Node, StartSync(n)
    PROVE  IInv'
<1>1. TypeOK /\ InvBlocks /\ InvNodes /\ InvOnce
  BY DEF IInv
<1> DEFINE top(r) == saved[r]
           same(r) == At(saved[r], Height(n)) = tip[n]
           sibling(r) == ~same(r) /\ prev[At(saved[r], Height(n))] = prev[tip[n]]
           follows(r) == height[saved[r]] >= Height(n) /\ (same(r) \/ sibling(r))
           from(r) == IF same(r) THEN Height(n) + 1 ELSE Height(n)
           more(r) == {b \in Fetched(n, r, from(r), height[saved[r]]) : follows(r)}
<1>2. PICK r \in Node :
        /\ sync' = [sync EXCEPT ![n] = FALSE]
        /\ started' = [started EXCEPT ![n] = TRUE]
        /\ startVote' = [startVote EXCEPT ![n] =
                           IF follows(r) /\ term[n] = NoTerm THEN saved[r] ELSE @]
        /\ saved' = [saved EXCEPT ![n] = IF follows(r) /\ sibling(r) THEN prev[tip[n]] ELSE @]
        /\ cache' = [cache EXCEPT ![n] = @ \cup more(r)]
        /\ UNCHANGED <<blockVars, tip, term, confirmed, create, blockerVars, published, mail,
                       restarts>>
  BY DEF StartSync
<1>3. /\ tip[n] \in Made /\ saved[r] \in Made /\ Height(n) \in Nat /\ 0 < Height(n)
      /\ height[saved[r]] \in Nat /\ Height(n) = height[tip[n]]
  BY <1>1, BlockFacts DEF InvNodes, Height
<1>4. ASSUME follows(r), sibling(r)
      PROVE  prev[tip[n]] \in Made /\ 1 < Height(n)
  <2>1. Height(n) \in 1 .. height[saved[r]]
    BY <1>3, <1>4
  <2>2. /\ At(saved[r], Height(n)) \in Made
        /\ height[At(saved[r], Height(n))] = Height(n)
        /\ At(saved[r], Height(n)) # tip[n]
    BY <1>1, <1>3, <1>4, <2>1, AtFacts
  <2>3. tip[n] # Genesis
    <3> DEFINE x == At(saved[r], Height(n))
    <3>1. x \in Made /\ height[x] = Height(n) /\ x # tip[n]
      BY <2>2
    <3> HIDE DEF x
    <3>2. height[Genesis] = 1 /\ (x \in published => height[x] > 1)
      BY <1>1, BlockFacts DEF InvBlocks
    <3>3. x \in published \/ x = Genesis
      BY <3>1 DEF Made
    <3> QED
      BY <1>3, <3>1, <3>2, <3>3
  <2>4. tip[n] \in published
    BY <1>3, <2>3 DEF Made
  <2> QED
    BY <1>1, <1>3, <2>4, BlockFacts DEF InvBlocks
<1>5. more(r) \subseteq published
  <2>1. CASE ~follows(r)
    BY <2>1
  <2>2. CASE follows(r)
    <3>1. from(r) \in Nat /\ 1 < from(r)
      BY <1>3, <1>4, <2>2
    <3> HIDE DEF from
    <3>2. Fetched(n, r, from(r), height[saved[r]]) \subseteq published
      BY <1>1, <3>1, FetchedFacts
    <3> QED
      BY <3>2
  <2> QED
    BY <2>1, <2>2
<1>6. saved'[n] \in Made /\ (saved'[n] = saved[n] \/ saved'[n] = prev[tip[n]])
  BY <1>1, <1>2, <1>4 DEF TypeOK, InvNodes
<1>7. startVote'[n] \in Made \cup {NoHash}
  BY <1>1, <1>2, <1>3 DEF TypeOK, InvNodes
<1>8. cache' \in [Node -> SUBSET published]
  <2> HIDE DEF more
  <2> QED
    BY <1>2, <1>5, NodesStill
<1>9. /\ saved' \in [Node -> Made]
      /\ \A m \in Node : m # n => saved'[m] = saved[m]
  BY <1>2, <1>6, NodesStill
<1>10. \A m \in Node : \/ saved'[m] = tip[m] \/ prev[saved'[m]] = tip[m]
                       \/ prev[tip[m]] = saved'[m]
  BY <1>1, <1>6, <1>9 DEF InvNodes
<1>11. /\ startVote' \in [Node -> Hash]
       /\ \A m \in Node : startVote'[m] \in Made \cup {NoHash}
  <2>1. Made \cup {NoHash} \subseteq Hash
    BY <1>1, BlockFacts DEF Hash
  <2>2. \A m \in Node : m # n => startVote'[m] = startVote[m]
    BY <1>1, <1>2 DEF TypeOK
  <2>3. \A m \in Node : startVote'[m] \in Made \cup {NoHash}
    BY <1>1, <1>7, <2>2 DEF InvNodes
  <2>4. startVote'[n] \in Hash
    BY <1>7, <2>1
  <2>5. startVote' = [startVote EXCEPT ![n] = startVote'[n]]
    BY <1>1, <1>2 DEF TypeOK
  <2> QED
    BY <1>1, <2>3, <2>4, <2>5 DEF TypeOK
<1>12. /\ started' \in [Node -> BOOLEAN] /\ sync' \in [Node -> BOOLEAN]
       /\ confirmed' \in [Node -> Nat] /\ create' \in [Node -> BOOLEAN]
       /\ restarts' \in [Node -> Nat] /\ mail' \in [Node -> SUBSET published]
  BY <1>1, <1>2 DEF TypeOK
<1>13. /\ packing' = packing /\ preblock' = preblock /\ tip' = tip /\ restarts' = restarts
  BY <1>2 DEF blockerVars
<1>14. /\ packing' \in [Node -> BOOLEAN] /\ tip' \in [Node -> Made]
       /\ term' \in [Node -> Terms]'
  BY <1>1, <1>2, <1>13, FrameTerm DEF TypeOK, InvNodes
<1> HIDE DEF more, follows, from, sibling, same
<1>15. TypeOK' /\ InvBlocks' /\ InvNodes'
  BY <1>2, <1>8, <1>9, <1>10, <1>11, <1>12, <1>13, <1>14, FrameAll
<1>16. InvOnce'
  BY <1>1, <1>2, <1>13, FrameOnce
<1> QED
  BY <1>15, <1>16 DEF IInv

LEMMA RestartStep ==
    ASSUME IInv, NEW n \in Node, Restart(n)
    PROVE  IInv'
<1>1. TypeOK /\ InvBlocks /\ InvNodes /\ InvOnce
  BY DEF IInv
<1>2. /\ restarts' = [restarts EXCEPT ![n] = @ + 1] /\ tip' = [tip EXCEPT ![n] = saved[n]]
      /\ term' = [term EXCEPT ![n] = NoTerm] /\ startVote' = [startVote EXCEPT ![n] = NoHash]
      /\ confirmed' = [confirmed EXCEPT ![n] = 0] /\ create' = [create EXCEPT ![n] = FALSE]
      /\ packing' = [packing EXCEPT ![n] = FALSE]
      /\ preblock' = [preblock EXCEPT ![n] = NoHash]
      /\ mail' = [mail EXCEPT ![n] = {}] /\ cache' = [cache EXCEPT ![n] = {}]
      /\ sync' = [sync EXCEPT ![n] = TRUE] /\ started' = [started EXCEPT ![n] = FALSE]
      /\ UNCHANGED <<blockVars, saved, published>>
  BY DEF Restart
<1>3. prev' = prev /\ height' = height /\ chain' = chain
  BY <1>2 DEF blockVars
<1>4. InvBlocks' /\ Made' = Made
  BY <1>1, <1>2, FrameBlocks
<1>5. TypeOK'
  <2>1. term' \in [Node -> Terms]'
    BY <1>1, <1>2, <1>3 DEF TypeOK, Terms
  <2>2. /\ startVote' \in [Node -> Hash] /\ preblock' \in [Node -> Hash]
        /\ restarts' \in [Node -> Nat] /\ confirmed' \in [Node -> Nat]
    BY <1>1, <1>2 DEF TypeOK, Hash
  <2>3. /\ create' \in [Node -> BOOLEAN] /\ packing' \in [Node -> BOOLEAN]
        /\ sync' \in [Node -> BOOLEAN] /\ started' \in [Node -> BOOLEAN]
    BY <1>1, <1>2 DEF TypeOK
  <2>4. /\ mail' \in [Node -> SUBSET published] /\ cache' \in [Node -> SUBSET published]
        /\ tip' \in [Node -> Block]
    BY <1>1, <1>2 DEF TypeOK
  <2> QED
    BY <1>1, <1>2, <1>3, <2>1, <2>2, <2>3, <2>4 DEF TypeOK, Terms
<1>6. InvNodes'
  <2> SUFFICES ASSUME NEW m \in Node
               PROVE  /\ tip'[m] \in Made /\ saved[m] \in Made
                      /\ \/ saved[m] = tip'[m] \/ prev[saved[m]] = tip'[m]
                         \/ prev[tip'[m]] = saved[m]
                      /\ startVote'[m] \in Made \cup {NoHash}
                      /\ preblock'[m] \in published \cup {NoHash}
    BY <1>2, <1>3, <1>4 DEF InvNodes
  <2>1. CASE m = n
    BY <1>1, <1>2, <2>1 DEF TypeOK, InvNodes
  <2>2. CASE m # n
    BY <1>1, <1>2, <2>2 DEF TypeOK, InvNodes
  <2> QED
    BY <2>1, <2>2
<1>7. InvOnce'
  <2>1. \A m \in Node : restarts'[m] = 0 =>
          /\ m # n /\ restarts[m] = 0 /\ tip'[m] = tip[m] /\ packing'[m] = packing[m]
          /\ preblock'[m] = preblock[m]
    <3> SUFFICES ASSUME NEW m \in Node, restarts'[m] = 0
                 PROVE  /\ m # n /\ restarts[m] = 0 /\ tip'[m] = tip[m]
                        /\ packing'[m] = packing[m] /\ preblock'[m] = preblock[m]
      OBVIOUS
    <3>1. m # n
      BY <1>1, <1>2 DEF TypeOK
    <3> QED
      BY <1>1, <1>2, <3>1 DEF TypeOK
  <2> SUFFICES ASSUME NEW m \in Node, restarts'[m] = 0
               PROVE  /\ \A b \in published : Creator[b] = m =>
                           /\ height[b] <= height[tip'[m]] + 1
                           /\ height[b] = height[tip'[m]] + 1 =>
                                b = preblock'[m] /\ prev[b] = tip'[m] /\ ~packing'[m]
                      /\ \A b, c \in published :
                           Creator[b] = m /\ Creator[c] = m /\ height[b] = height[c] => b = c
    BY <1>2, <1>3 DEF InvOnce, Height
  <2>2. /\ restarts[m] = 0 /\ tip'[m] = tip[m] /\ packing'[m] = packing[m]
        /\ preblock'[m] = preblock[m]
    BY <2>1
  <2> QED
    BY <1>1, <2>2 DEF InvOnce, Height
<1> QED
  BY <1>4, <1>5, <1>6, <1>7 DEF IInv

-----------------------------------------------------------------------------
(* The invariant.                                                            *)

LEMMA InitHolds == Init => IInv
<1> SUFFICES ASSUME Init PROVE IInv
  OBVIOUS
<1>1. Made = {Genesis} /\ published = {}
  BY DEF Init, Made
<1>2. IsFiniteSet({Genesis}) /\ Cardinality({Genesis}) = 1
  BY FS_Singleton
<1>3. Cardinality(Block) \in Nat /\ 1 <= Cardinality(Block)
  BY <1>2, BlocksAssumption, FS_Subset, FS_CardinalityType
<1>4. TypeOK
  BY <1>1, <1>3, BlocksAssumption DEF Init, TypeOK, Hash
<1>5. InvBlocks
  BY <1>1, <1>2, BlocksAssumption DEF Init, InvBlocks
<1>6. InvNodes
  BY <1>1 DEF Init, InvNodes
<1>7. InvOnce
  BY <1>1 DEF InvOnce
<1> QED
  BY <1>4, <1>5, <1>6, <1>7 DEF IInv

LEMMA StepHolds == IInv /\ [Next]_vars => IInv'
<1> SUFFICES ASSUME IInv, [Next]_vars PROVE IInv'
  OBVIOUS
<1>1. ASSUME NEW n \in Node, VoteFirst(n) \/ VoteNextTerm(n) \/ VoteAgain(n) PROVE IInv'
  BY <1>1, VoterStep
<1>2. ASSUME NEW n \in Node, CreateBlock(n) PROVE IInv'
  BY <1>2, CreateBlockStep
<1>3. ASSUME NEW n \in Node, PackBlock(n) PROVE IInv'
  BY <1>3, PackBlockStep
<1>4. ASSUME NEW n \in Node, Confirm(n) PROVE IInv'
  BY <1>4, ConfirmStep
<1>5. ASSUME NEW n \in Node, Commit(n) PROVE IInv'
  BY <1>5, CommitStep
<1>6. ASSUME NEW n \in Node, Show(n) PROVE IInv'
  BY <1>6, ShowStep
<1>7. ASSUME NEW n \in Node, Refuse(n) PROVE IInv'
  BY <1>7, RefuseStep
<1>8. ASSUME NEW n \in Node, Gap(n) PROVE IInv'
  BY <1>8, GapStep
<1>9. ASSUME NEW n \in Node, StartSync(n) PROVE IInv'
  BY <1>9, StartSyncStep
<1>10. ASSUME NEW n \in Node, Restart(n) PROVE IInv'
  BY <1>10, RestartStep
<1>11. CASE UNCHANGED vars
  <2>1. /\ UNCHANGED <<blockVars, tip, voterVars, create, blockerVars, published, lifeVars>>
        /\ saved' = saved /\ confirmed' = confirmed /\ sync' = sync
        /\ mail' = mail /\ cache' = cache
    BY <1>11 DEF vars, chainVars, storerVars
  <2> QED
    BY <2>1, NodesStill, FrameStorer
<1> QED
  BY <1>1, <1>2, <1>3, <1>4, <1>5, <1>6, <1>7, <1>8, <1>9, <1>10, <1>11 DEF Next

\* The inductive invariant holds in every reachable state.
THEOREM InvariantHolds == Spec => []IInv
<1>1. Init => IInv
  BY InitHolds
<1>2. IInv /\ [Next]_vars => IInv'
  BY StepHolds
<1> QED
  BY <1>1, <1>2, PTL DEF Spec

\* Every variable keeps its type: a voter's draw is on a published block or the first
\* one, with that block's height (VoterOfRAFT.vote, PeerExtension).
THEOREM TypeCorrect == Spec => []TypeOK
<1>1. IInv => TypeOK
  BY DEF IInv
<1> QED
  BY <1>1, InvariantHolds, PTL

-----------------------------------------------------------------------------
(* What a node may do to its chain.                                          *)

\* The block that pe shows is replaced by one above it, unless the database lost it in
\* a rollback (StoragerOfRAFT, SynchRequesterOfRAFT).
THEOREM ChainsGrow == Spec => ChainGrows
<1>1. IInv /\ [Next]_vars
        => [\A n \in Node : InChain(tip[n], tip'[n]) \/ saved[n] = prev[tip[n]]]_vars
  <2> SUFFICES ASSUME IInv, [Next]_vars, NEW n \in Node, saved[n] # prev[tip[n]]
               PROVE  InChain(tip[n], tip'[n])
    OBVIOUS
  <2>1. TypeOK /\ InvBlocks /\ InvNodes
    BY DEF IInv
  <2>2. /\ tip[n] \in Made /\ saved[n] \in Made /\ tip[n] # NoHash
        /\ saved[n] = tip[n] \/ prev[saved[n]] = tip[n]
    BY <2>1, BlockFacts DEF InvNodes
  <2>3. tip'[n] = tip[n] \/ tip'[n] = saved[n]
    <3>1. CASE UNCHANGED vars
      BY <3>1 DEF vars, chainVars
    <3>2. ASSUME NEW m \in Node,
                 \/ VoteFirst(m) \/ VoteNextTerm(m) \/ VoteAgain(m) \/ CreateBlock(m)
                 \/ PackBlock(m) \/ Confirm(m) \/ Commit(m) \/ Refuse(m) \/ Gap(m)
                 \/ StartSync(m)
          PROVE  tip'[n] = tip[n]
      BY <3>2 DEF VoteFirst, VoteNextTerm, VoteAgain, CreateBlock, PackBlock, Confirm, Commit,
                  Refuse, Gap, StartSync, chainVars
    <3>3. ASSUME NEW m \in Node, Show(m) \/ Restart(m)
          PROVE  tip'[n] = tip[n] \/ tip'[n] = saved[n]
      BY <2>1, <3>3 DEF Show, Restart, TypeOK
    <3> QED
      BY <3>1, <3>2, <3>3 DEF Next
  <2>4. ASSUME NEW b \in Made, tip[n] \in chain[b] PROVE InChain(tip[n], b)
    BY <2>1, <2>4, AtFacts DEF InChain
  <2>5. tip[n] \in chain[tip[n]]
    BY <2>1, <2>2, BlockFacts
  <2>6. CASE tip'[n] = tip[n]
    BY <2>2, <2>4, <2>5, <2>6
  <2>7. CASE tip'[n] = saved[n] /\ prev[saved[n]] = tip[n]
    <3>1. saved[n] \in published
      BY <2>1, <2>2, <2>7 DEF InvBlocks, Made
    <3>2. chain[saved[n]] = chain[tip[n]] \cup {saved[n]}
      BY <2>1, <2>7, <3>1 DEF InvBlocks
    <3> QED
      BY <2>2, <2>4, <2>5, <2>7, <3>2
  <2> QED
    BY <2>2, <2>3, <2>6, <2>7
<1> QED
  BY <1>1, InvariantHolds, PTL DEF Spec, ChainGrows

-----------------------------------------------------------------------------
(* One block of a height.                                                    *)

\* The term of a block ends below it.
LEMMA TermBelow ==
    ASSUME NEW h \in Nat, 1 < h
    PROVE  1 + TermLength * ((h - 2) \div TermLength) \in 1 .. (h - 1)
<1> DEFINE q == (h - 2) \div TermLength
<1>1. TermLength \in Nat /\ 0 < TermLength /\ h - 2 \in Nat
  BY BoundsAssumption
<1>2. q \in Nat /\ TermLength * q <= h - 2
  BY <1>1
<1>3. TermLength * q \in Nat
  BY <1>1, <1>2
<1> HIDE DEF q
<1>4. 1 + TermLength * q \in 1 .. (h - 1)
  BY <1>2, <1>3
<1> QED
  BY <1>4 DEF q

\* Two blocks of a height are one if the blocks below them are: the same node was drawn
\* on the last block of the term before, and it remembers what it made.
LEMMA OneAbove ==
    ASSUME IInv, BuiltInTerm, \A b \in published : restarts[Creator[b]] = 0,
           NEW b \in published, NEW c \in published, height[b] = height[c],
           \A x, y \in Made : height[x] = height[y] /\ height[x] < height[b] => x = y
    PROVE  b = c
<1>1. TypeOK /\ InvBlocks /\ InvNodes /\ InvOnce
  BY DEF IInv
<1>2. /\ height[b] \in Nat /\ 1 < height[b] /\ b \in Made /\ b # Genesis
      /\ c \in Made /\ c # Genesis
  BY <1>1, BlockFacts
<1> DEFINE k == 1 + TermLength * ((height[b] - 2) \div TermLength)
<1>3. k \in 1 .. (height[b] - 1)
  BY <1>2, TermBelow
<1>4. TermEnd(b) = At(b, k) /\ TermEnd(c) = At(c, k)
  BY DEF TermEnd
<1> HIDE DEF k
<1>5. k \in 1 .. height[b] /\ k \in 1 .. height[c] /\ k < height[b]
  BY <1>2, <1>3
<1>6. /\ TermEnd(b) \in Made /\ height[TermEnd(b)] = k
      /\ TermEnd(c) \in Made /\ height[TermEnd(c)] = k
  BY <1>1, <1>2, <1>4, <1>5, AtFacts
<1>7. TermEnd(b) = TermEnd(c)
  BY <1>5, <1>6
<1>8. Creator[b] = DrawnOn[TermEnd(b)] /\ Creator[c] = DrawnOn[TermEnd(c)]
  BY <1>2 DEF BuiltInTerm, InTerm
<1>9. Creator[b] = Creator[c] /\ Creator[b] \in Node /\ restarts[Creator[b]] = 0
  BY <1>1, <1>7, <1>8, BlocksAssumption DEF TypeOK
<1> QED
  BY <1>1, <1>9 DEF InvOnce

\* No two blocks of a height are published while every block is built by the result of
\* the draw and no producer was restarted (VoterOfRAFT.vote, BlockerOfRAFT.receive).
THEOREM OneBlockOfAHeight == Spec => []AgreeInTerm
<1>1. IInv => AgreeInTerm
  <2> SUFFICES ASSUME IInv, BuiltInTerm, \A b \in published : restarts[Creator[b]] = 0
               PROVE  \A b, c \in published : height[b] = height[c] => b = c
    BY DEF AgreeInTerm
  <2>1. TypeOK /\ InvBlocks
    BY DEF IInv
  <2> DEFINE Twice == {h \in Nat : \E b, c \in published : height[b] = h /\ height[c] = h /\ b # c}
             R == {ss \in Nat \X Nat : ss[1] < ss[2]}
  <2>2. SUFFICES ASSUME Twice # {} PROVE FALSE
    <3>1. \A b \in published : height[b] \in Nat
      BY <2>1, BlockFacts
    <3> QED
      BY <2>2, <3>1
  <2>3. IsWellFoundedOn(R, Nat)
    <3>1. OpToRel(<, Nat) = R
      BY Zenon DEF OpToRel
    <3> QED
      BY <3>1, NatLessThanWellFounded
  <2>4. \A x, y \in Nat : <<y, x>> \in R <=> y < x
    OBVIOUS
  <2>5. Twice \subseteq Nat
    OBVIOUS
  <2> HIDE DEF R
  <2>6. PICK h \in Twice : \A k \in Twice : ~(<<k, h>> \in R)
    <3> HIDE DEF Twice
    <3> QED
      BY <2>2, <2>3, <2>5, WFMin
  <2>7. PICK b \in published, c \in published : height[b] = h /\ height[c] = h /\ b # c
    BY <2>6
  <2>8. ASSUME NEW x \in Made, NEW y \in Made, height[x] = height[y], height[x] < height[b]
        PROVE  x = y
    <3>1. CASE x = Genesis \/ y = Genesis
      <4>1. height[Genesis] = 1 /\ \A z \in published : height[z] > 1
        BY <2>1, BlockFacts DEF InvBlocks
      <4>2. \A z \in published : height[z] # 1
        BY <2>1, <4>1, BlockFacts
      <4> QED
        BY <2>8, <3>1, <4>1, <4>2 DEF Made
    <3>2. CASE x # Genesis /\ y # Genesis
      <4>1. x \in published /\ y \in published /\ height[x] \in Nat
        BY <2>1, <2>8, <3>2, BlockFacts DEF Made
      <4>2. SUFFICES ASSUME x # y PROVE FALSE
        OBVIOUS
      <4>3. height[x] \in Twice
        BY <2>8, <4>1, <4>2
      <4> HIDE DEF Twice
      <4> QED
        BY <2>4, <2>5, <2>6, <2>7, <2>8, <4>1, <4>3
    <3> QED
      BY <3>1, <3>2
  <2>9. b = c
    BY <2>7, <2>8, OneAbove
  <2> QED
    BY <2>7, <2>9
<1> QED
  BY <1>1, InvariantHolds, PTL
=============================================================================
