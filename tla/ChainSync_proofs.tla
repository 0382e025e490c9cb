-------------------------- MODULE ChainSync_proofs --------------------------
(***************************************************************************)
(* Proofs about ChainSync, for every set of nodes, every tree of blocks     *)
(* with one agreed chain in it, and every number of prompts and restarts.   *)
(***************************************************************************)
EXTENDS ChainSync, FiniteSetTheorems, TLAPS

(* Numbers.                                                                 *)

\* A set of natural numbers has a least one.
LEMMA NatMin == ASSUME NEW S, S \subseteq Nat, S # {} PROVE \E m \in S : \A x \in S : m <= x
<1> DEFINE R == {ss \in Nat \X Nat : ss[1] < ss[2]}
<1>1. OpToRel(<, Nat) = R
  BY Zenon DEF OpToRel
<1>2. IsWellFoundedOn(R, Nat)
  BY <1>1, NatLessThanWellFounded
<1>3. \A x, y \in Nat : <<y, x>> \in R <=> y < x
  OBVIOUS
<1> HIDE DEF R
<1>4. PICK m \in S : \A y \in S : ~(<<y, m>> \in R)
  BY <1>2, WFMin
<1>5. ASSUME NEW y \in S PROVE m <= y
  <2>1. y \in Nat /\ m \in Nat /\ ~(<<y, m>> \in R)
    BY <1>4
  <2>2. ~(y < m)
    BY <2>1, <1>3
  <2> QED
    BY <2>1, <2>2
<1> QED
  BY <1>5

\* Max and Min of a set of natural numbers up to n.
LEMMA MaxMin ==
    ASSUME NEW n \in Nat, NEW S, S \subseteq 0 .. n, S # {}
    PROVE  Max(S) \in S /\ Min(S) \in S /\ Min(S) <= Max(S)
<1> DEFINE B == {x \in Nat : \A y \in S : y <= x}
<1>1. n \in B
  OBVIOUS
<1>2. PICK m \in B : \A x \in B : m <= x
  BY <1>1, NatMin
<1>3. m \in S
  <2>1. SUFFICES ASSUME m \notin S PROVE FALSE
    OBVIOUS
  <2>2. \A y \in S : y \in Nat /\ y < m
    BY <2>1
  <2>3. m - 1 \in B
    <3>1. PICK y \in S : TRUE
      OBVIOUS
    <3>2. m \in Nat /\ y \in Nat /\ y < m
      BY <2>2
    <3>3. m - 1 \in Nat /\ \A z \in S : z <= m - 1
      BY <2>2, <3>2
    <3> QED
      BY <3>3
  <2>4. m \in Nat /\ m <= m - 1
    BY <2>3, <1>2
  <2> QED
    BY <2>4
<1>4. Max(S) \in S
  BY <1>3 DEF Max
<1>5. S \subseteq Nat
  OBVIOUS
<1>6. PICK k \in S : \A x \in S : k <= x
  BY <1>5, NatMin
<1>7. Min(S) \in S /\ \A x \in S : Min(S) <= x
  BY <1>6 DEF Min
<1> QED
  BY <1>4, <1>7

-----------------------------------------------------------------------------
(* The tree of blocks.                                                      *)

LEMMA ChainEmpty == Chain[NoBlock] = {}
  BY DEF Chain, Top

\* A chain is closed, has its top, and is the least such set.
LEMMA ChainClosed == \A b \in Block : b \in Chain[b] /\ Chain[b] \subseteq Block /\ Closed(Chain[b])
<1>1. SUFFICES ASSUME NEW b \in Block
               PROVE  b \in Chain[b] /\ Chain[b] \subseteq Block /\ Closed(Chain[b])
  OBVIOUS
<1>2. Chain[b] = {x \in Block : \A S \in SUBSET Block : b \in S /\ Closed(S) => x \in S}
  BY TreeAssumption DEF Chain, Top
<1>3. ASSUME NEW x \in Chain[b], Parent[x] # NoBlock PROVE Parent[x] \in Chain[b]
  <2>1. x \in Block /\ Parent[x] \in Block
    BY <1>2, <1>3, TreeAssumption DEF Top
  <2>2. ASSUME NEW S \in SUBSET Block, b \in S, Closed(S) PROVE Parent[x] \in S
    <3>1. x \in S
      BY <1>2, <2>2
    <3> QED
      BY <3>1, <2>2, <1>3 DEF Closed
  <2> QED
    BY <2>1, <2>2, <1>2
<1> QED
  BY <1>2, <1>3 DEF Closed

LEMMA ChainLeast ==
    ASSUME NEW b \in Block, NEW S \in SUBSET Block, b \in S, Closed(S) PROVE Chain[b] \subseteq S
  BY TreeAssumption DEF Chain, Top

LEMMA ChainInBlock == \A b \in Top : Chain[b] \subseteq Block
  BY ChainEmpty, ChainClosed DEF Top

\* A block is on the chain of the one below it.
LEMMA ChainStep == \A b \in Block : Chain[b] = {b} \cup Chain[Parent[b]]
<1>1. SUFFICES ASSUME NEW b \in Block PROVE Chain[b] = {b} \cup Chain[Parent[b]]
  OBVIOUS
<1>2. Parent[b] \in Top
  BY TreeAssumption
<1>3. Chain[Parent[b]] \subseteq Block
  BY <1>2, ChainInBlock
<1>4. Closed({b} \cup Chain[Parent[b]])
  <2>1. CASE Parent[b] = NoBlock
    BY <2>1, ChainEmpty DEF Closed
  <2>2. CASE Parent[b] \in Block
    BY <2>2, ChainClosed DEF Closed
  <2> QED
    BY <1>2, <2>1, <2>2 DEF Top
<1>5. Chain[b] \subseteq {b} \cup Chain[Parent[b]]
  BY <1>3, <1>4, ChainLeast
<1>6. Chain[Parent[b]] \subseteq Chain[b]
  <2>1. CASE Parent[b] = NoBlock
    BY <2>1, ChainEmpty
  <2>2. CASE Parent[b] \in Block
    <3>1. Parent[b] \in Chain[b]
      BY <2>2, ChainClosed, TreeAssumption DEF Closed
    <3> QED
      BY <2>2, <3>1, ChainClosed, ChainLeast
  <2> QED
    BY <1>2, <2>1, <2>2 DEF Top
<1> QED
  BY <1>5, <1>6, ChainClosed

\* What is on the chain of a block of a chain is on that chain.
LEMMA ChainTrans == \A b \in Top : \A x \in Chain[b] : Chain[x] \subseteq Chain[b]
<1>1. SUFFICES ASSUME NEW b \in Block, NEW x \in Chain[b] PROVE Chain[x] \subseteq Chain[b]
  BY ChainEmpty DEF Top
<1> QED
  BY ChainClosed, ChainLeast

LEMMA HeightType == \A b \in Top : Height(b) \in Hgt /\ Height(b) \in Nat
<1>1. ASSUME NEW b \in Top PROVE Height(b) \in Hgt
  BY ChainInBlock, TreeAssumption, FS_Subset, FS_CardinalityType DEF Height, Hgt
<1> QED
  BY <1>1 DEF Hgt

LEMMA HeightEmpty == Height(NoBlock) = 0
  BY ChainEmpty, FS_EmptySet DEF Height

\* A block is one above its parent.
LEMMA HeightStep == \A b \in Block : Height(b) = Height(Parent[b]) + 1 /\ Height(b) > 0
<1>1. SUFFICES ASSUME NEW b \in Block PROVE Height(b) = Height(Parent[b]) + 1 /\ Height(b) > 0
  OBVIOUS
<1>2. Parent[b] \in Top /\ b \notin Chain[Parent[b]] /\ IsFiniteSet(Chain[Parent[b]])
  BY NoCycles, TreeAssumption, ChainInBlock, FS_Subset
<1>3. Chain[b] = Chain[Parent[b]] \cup {b}
  BY ChainStep
<1>4. Height(b) = Height(Parent[b]) + 1
  BY <1>2, <1>3, FS_AddElement DEF Height
<1> QED
  BY <1>2, <1>4, HeightType

LEMMA NoBlockIsLowest == \A b \in Top : Height(b) = 0 <=> b = NoBlock
  BY HeightStep, HeightEmpty, HeightType DEF Top

\* A block of a chain other than its top is lower.
LEMMA HeightOnChain ==
    \A b \in Top : \A x \in Chain[b] : x \in Block /\ Height(x) <= Height(b) /\ (Height(x) = Height(b) => x = b)
<1>1. SUFFICES ASSUME NEW b \in Block, NEW x \in Chain[b], x # b PROVE x \in Block /\ Height(x) < Height(b)
  BY ChainEmpty, ChainInBlock, HeightType DEF Top
<1>2. x \in Chain[Parent[b]] /\ Parent[b] \in Top /\ x \in Block
  BY <1>1, ChainStep, ChainInBlock, TreeAssumption DEF Top
<1>3. Chain[x] \subseteq Chain[Parent[b]] /\ IsFiniteSet(Chain[Parent[b]])
  BY <1>2, ChainTrans, ChainInBlock, TreeAssumption, FS_Subset
<1>4. Height(x) <= Height(Parent[b])
  BY <1>3, FS_Subset DEF Height
<1>5. Height(x) \in Nat /\ Height(Parent[b]) \in Nat
  BY <1>2, HeightType DEF Top
<1> QED
  BY <1>2, <1>4, <1>5, HeightStep

\* A chain does not branch.
LEMMA ChainLinear == \A b \in Top : \A x, y \in Chain[b] : x \in Chain[y] \/ y \in Chain[x]
<1>1. SUFFICES ASSUME NEW b \in Block, NEW y \in Chain[b]
               PROVE  \A x \in Chain[b] : x \in Chain[y] \/ y \in Chain[x]
  BY ChainEmpty DEF Top
<1> DEFINE S == {x \in Chain[b] : x \in Chain[y] \/ y \in Chain[x]}
<1>2. b \in S /\ S \subseteq Block
  BY ChainClosed
<1>3. ASSUME NEW x \in S, Parent[x] # NoBlock PROVE Parent[x] \in S
  <2>1. x \in Block /\ y \in Block /\ Parent[x] \in Block /\ Parent[x] \in Chain[b]
    BY <1>3, ChainClosed, TreeAssumption DEF Closed, Top
  <2>2. CASE x \in Chain[y]
    BY <1>3, <2>1, <2>2, ChainClosed DEF Closed
  <2>3. CASE y \in Chain[Parent[x]]
    BY <2>1, <2>3
  <2>4. CASE y = x
    BY <1>3, <2>1, <2>4, ChainClosed DEF Closed
  <2> QED
    BY <2>1, <2>2, <2>3, <2>4, ChainStep
<1>4. Closed(S)
  BY <1>3 DEF Closed
<1> QED
  BY <1>2, <1>4, ChainLeast

\* Comparable blocks of one height are one block.
LEMMA SameHeight ==
    ASSUME NEW x \in Block, NEW y \in Block, x \in Chain[y] \/ y \in Chain[x], Height(x) = Height(y)
    PROVE  x = y
  BY HeightOnChain DEF Top

\* A chain has a block at every height up to its top's.
LEMMA ChainDense == \A b \in Top : \A h \in 1 .. Height(b) : \E x \in Chain[b] : Height(x) = h
<1>1. SUFFICES ASSUME NEW b \in Top, NEW h \in 1 .. Height(b), \A x \in Chain[b] : Height(x) # h
               PROVE  FALSE
  OBVIOUS
<1> DEFINE T == (1 .. Height(b)) \ {h}
<1> DEFINE hgt == [x \in Chain[b] |-> Height(x)]
<1>2. Height(b) \in Nat /\ IsFiniteSet(Chain[b]) /\ h \in Nat
  BY HeightType, ChainInBlock, TreeAssumption, FS_Subset
<1>3. IsFiniteSet(1 .. Height(b)) /\ Cardinality(1 .. Height(b)) = Height(b)
  BY <1>2, FS_Interval
<1>4. IsFiniteSet(T) /\ Cardinality(T) < Cardinality(Chain[b])
  <2>1. IsFiniteSet(T) /\ Cardinality(T) = Height(b) - 1
    BY <1>3, FS_RemoveElement
  <2> QED
    BY <1>2, <2>1 DEF Height
<1>5. \A x \in Chain[b] : Height(x) \in T
  BY <1>1, <1>2, HeightOnChain, HeightStep, HeightType DEF Top
<1>6. hgt \in [Chain[b] -> T]
  BY <1>5
<1>7. PICK x, y \in Chain[b] : x # y /\ hgt[x] = hgt[y]
  <2> HIDE DEF T, hgt
  <2> QED
    BY <1>2, <1>4, <1>6, FS_PigeonHole
<1> QED
  BY <1>7, ChainLinear, SameHeight, ChainInBlock

\* The block at a height is the one of that height on the chain.
LEMMA AtOnChain ==
    \A b \in Top : \A h \in Nat : /\ h \in 1 .. Height(b) => At(b, h) \in Chain[b] /\ Height(At(b, h)) = h
                                  /\ h \notin 1 .. Height(b) => At(b, h) = NoBlock
                                  /\ At(b, h) \in Top
  BY ChainDense, ChainInBlock DEF At, Top

\* Where blocks of a chain are cut off, those of the rest are the lower ones.
LEMMA ChainOfAt ==
    \A b \in Top : \A h \in 0 .. Height(b) : \A x \in Chain[b] : x \in Chain[At(b, h)] <=> Height(x) <= h
<1>1. SUFFICES ASSUME NEW b \in Top, NEW h \in 0 .. Height(b), NEW x \in Chain[b]
               PROVE  x \in Chain[At(b, h)] <=> Height(x) <= h
  OBVIOUS
<1>2. h \in Nat /\ x \in Block /\ Height(x) \in Nat /\ Height(x) > 0 /\ Height(b) \in Nat
  BY HeightOnChain, HeightType, HeightStep DEF Top
<1>3. CASE h = 0
  BY <1>2, <1>3, AtOnChain, ChainEmpty
<1>4. CASE h \in 1 .. Height(b)
  <2>1. At(b, h) \in Chain[b] /\ Height(At(b, h)) = h /\ At(b, h) \in Block
    BY <1>2, <1>4, AtOnChain, ChainInBlock
  <2>2. x \in Chain[At(b, h)] \/ At(b, h) \in Chain[x]
    BY <2>1, ChainLinear
  <2>3. x \in Chain[At(b, h)] => Height(x) <= h
    BY <2>1, HeightOnChain DEF Top
  <2>4. At(b, h) \in Chain[x] /\ Height(x) <= h => x \in Chain[At(b, h)]
    <3>1. SUFFICES ASSUME At(b, h) \in Chain[x], Height(x) <= h PROVE x \in Chain[At(b, h)]
      OBVIOUS
    <3>2. h <= Height(x) /\ (h = Height(x) => At(b, h) = x)
      BY <1>2, <2>1, <3>1, HeightOnChain DEF Top
    <3>3. At(b, h) = x
      BY <1>2, <3>1, <3>2
    <3> QED
      BY <1>2, <3>3, ChainClosed
  <2> QED
    BY <2>2, <2>3, <2>4
<1> QED
  BY <1>2, <1>3, <1>4

\* The agreed chain has one block at a height, and with a block those below it.
LEMMA MainIsChain ==
    /\ \A b \in Main \cup {NoBlock} : b \in Top /\ Chain[b] \subseteq Main /\ Below(b) \in Main \cup {NoBlock}
    /\ \A x, y \in Main : Height(x) = Height(y) => x = y
<1>1. ASSUME NEW b \in Main PROVE b \in Block /\ Chain[b] \subseteq Main /\ Below(b) \in Main \cup {NoBlock}
  BY MainAssumption, ChainLeast, TreeAssumption DEF Closed, Below
<1>2. \A x, y \in Main : Height(x) = Height(y) => x = y
  BY MainAssumption, SameHeight
<1> QED
  BY <1>1, <1>2, ChainEmpty DEF Below, Top

LEMMA HeightsInterval ==
    /\ Heights \subseteq Hgt /\ Heights \subseteq Nat /\ 0 \notin Heights /\ 1 \in Heights
    /\ \A h \in Heights : 1 .. h \subseteq Heights
<1>1. \A h \in Heights : h \in Hgt /\ h \in Nat /\ h # 0
  BY HeightType, HeightStep DEF Heights, Top
<1>2. ASSUME NEW h \in Heights, NEW k \in 1 .. h PROVE k \in Heights
  <2>1. PICK b \in Block : h = Height(b)
    BY DEF Heights
  <2>2. PICK x \in Chain[b] : Height(x) = k
    BY <2>1, ChainDense DEF Top
  <2> QED
    BY <2>2, ChainInBlock DEF Heights, Top
<1>3. 1 \in Heights
  <2>1. PICK b \in Block : Height(b) \in Heights
    BY TreeAssumption DEF Heights
  <2>2. 1 \in 1 .. Height(b)
    BY <2>1, <1>1
  <2> QED
    BY <2>1, <2>2, <1>2
<1> QED
  BY <1>1, <1>2, <1>3

-----------------------------------------------------------------------------
(* Types.                                                                   *)

LEMMA Idle == IdleSync \in SyncType /\ IdleStorer \in StorerType /\ 0 \in Hgt /\ 1 \in Nat
<1>1. Cardinality(Block) \in Nat /\ 0 \in Hgt
  BY TreeAssumption, FS_CardinalityType DEF Hgt
<1>2. IdleStorer \in StorerType
  BY <1>1, HeightsInterval DEF IdleStorer, StorerType
<1>3. [n \in Node |-> NoAnswer] \in [Node -> AnswerType]
  BY DEF NoAnswer, AnswerType, Top
<1>4. IdleSync \in SyncType
  BY <1>1, <1>3, NodeAssumption DEF IdleSync, SyncType
<1> QED
  BY <1>1, <1>2, <1>4

LEMMA InitType == Init => TypeOK
<1> SUFFICES ASSUME Init PROVE TypeOK
  OBVIOUS
<1>1. PICK s \in Starts : tip = s.tip /\ joined = s.running /\ started = s.running
                         /\ pe = (IF s.running THEN s.tip[Me] ELSE NoBlock)
  BY DEF Init
<1>2. s.tip \in [Node -> Top] /\ s.running \in BOOLEAN
  BY TreeAssumption
<1>3. tip \in [Node -> Top] /\ pe \in Top /\ joined \in BOOLEAN /\ started \in BOOLEAN
  BY <1>1, <1>2, NodeAssumption DEF Top
<1>4. cache \in [Heights -> Top] /\ \A h \in Heights : cache[h] = NoBlock
  BY DEF Init, EmptyCache, Top
<1>5. Cardinality(retry) <= 1
  BY FS_EmptySet DEF Init
<1>6. storer.at # "loop" /\ storer \in StorerType /\ sync \in SyncType
  BY Idle DEF Init, IdleStorer
<1>7. inbox \in Seq(Block) /\ prompts \in Nat /\ restarts \in Nat
  <2>1. <<>> \in Seq(Block) /\ 0 \in Nat
    OBVIOUS
  <2> QED
    BY <2>1 DEF Init
<1> QED
  BY <1>3, <1>4, <1>5, <1>6, <1>7 DEF Init, TypeOK

\* The heights the storager begins with are those of cached blocks.
LEMMA HandlerType ==
    ASSUME TypeOK, NEW c \in [Heights -> Top], HandlerFrom(c)
    PROVE  /\ pe' \in Top /\ storer' \in StorerType
           /\ storer'.at = "loop" => storer'.max \in Heights /\ storer'.loop <= storer'.max
<1> DEFINE keys == {h \in Heights : c[h] # NoBlock}
<1>1. pe' \in Top
  BY NodeAssumption DEF HandlerFrom, TypeOK
<1>2. CASE keys = {}
  BY <1>1, <1>2 DEF HandlerFrom, TypeOK
<1>3. CASE keys # {}
  <2>1. Cardinality(Block) \in Nat /\ keys \subseteq 0 .. Cardinality(Block)
    BY TreeAssumption, FS_CardinalityType, HeightsInterval DEF Hgt
  <2> HIDE DEF keys
  <2>2. Max(keys) \in keys /\ Min(keys) \in keys /\ Min(keys) <= Max(keys)
    BY <1>3, <2>1, MaxMin
  <2> USE DEF keys
  <2>3. storer' = [at |-> "loop", loop |-> Min(keys), max |-> Max(keys), local |-> Height(pe')]
    BY <1>3 DEF HandlerFrom
  <2>4. Min(keys) \in Heights /\ Max(keys) \in Heights /\ Max(keys) \in Hgt /\ Height(pe') \in Hgt
    BY <1>1, <2>2, HeightType, HeightsInterval
  <2> HIDE DEF keys
  <2> QED
    BY <1>1, <2>2, <2>3, <2>4 DEF StorerType
<1> QED
  BY <1>2, <1>3

LEMMA NextRoundType ==
    ASSUME TypeOK, storer.at = "loop", NEW l \in Hgt, NextRound(l)
    PROVE  /\ storer' \in StorerType
           /\ storer'.at = "loop" => storer'.max \in Heights /\ storer'.loop <= storer'.max
<1>1. storer \in StorerType /\ storer.max \in Heights /\ storer.loop <= storer.max
  BY DEF TypeOK
<1>2. CASE storer.loop = storer.max
  BY <1>2, Idle DEF NextRound, IdleStorer
<1>3. CASE storer.loop # storer.max
  <2>1. storer.loop \in Nat /\ storer.max \in Nat /\ storer.loop \in Heights
    BY <1>1, HeightsInterval DEF StorerType
  <2>2. storer.loop + 1 \in 1 .. storer.max
    BY <1>1, <1>3, <2>1
  <2>3. storer.loop + 1 \in Heights
    BY <1>1, <2>2, HeightsInterval
  <2>4. storer' = [storer EXCEPT !.loop = storer.loop + 1, !.local = l]
    BY <1>3 DEF NextRound
  <2>5. storer' \in StorerType
    BY <1>1, <2>3, <2>4 DEF StorerType
  <2>6. storer'.max = storer.max /\ storer'.loop = storer.loop + 1
    BY <1>1, <2>4 DEF StorerType
  <2> QED
    BY <1>1, <2>2, <2>5, <2>6
<1> QED
  BY <1>2, <1>3

LEMMA StoragerType == ASSUME TypeOK, Storager PROVE TypeOK'
<1> USE DEF store, life
<1>1. CASE ReceiveBatchStore
  <2>1. cache \in [Heights -> Top]
    BY DEF TypeOK
  <2> QED
    BY <1>1, <2>1, HandlerType DEF ReceiveBatchStore, TypeOK
<1>2. CASE ReceiveBlockRestore
  <2>1. Head(inbox) \in Block /\ Tail(inbox) \in Seq(Block) /\ Height(Head(inbox)) \in Heights
    BY <1>2 DEF ReceiveBlockRestore, TypeOK, Heights
  <2>2. /\ cache' \in [Heights -> Top]
        /\ \A h \in Heights : cache'[h] = NoBlock \/ Height(cache'[h]) = h
    BY <1>2, <2>1 DEF ReceiveBlockRestore, TypeOK, Top
  <2>3. HandlerFrom(cache')
    BY <1>2 DEF ReceiveBlockRestore
  <2>4. /\ pe' \in Top /\ storer' \in StorerType
        /\ storer'.at = "loop" => storer'.max \in Heights /\ storer'.loop <= storer'.max
    BY <2>2, <2>3, HandlerType
  <2> QED
    BY <1>2, <2>1, <2>2, <2>4 DEF ReceiveBlockRestore, TypeOK
<1>3. CASE StoreMissing
  BY <1>3, Idle DEF StoreMissing, TypeOK, IdleStorer
<1>4. CASE StoreGap
  <2>1. Cached # {} /\ Cached \subseteq 0 .. Cardinality(Block) /\ Cardinality(Block) \in Nat
    BY <1>4, HeightsInterval, TreeAssumption, FS_CardinalityType
    DEF StoreGap, Cached, TypeOK, StorerType, Hgt
  <2>2. Max(Cached) \in Hgt
    BY <2>1, MaxMin DEF Hgt
  <2>3. \A r \in Node : StorageRequest(r, Max(Cached)) \in Request
    BY <2>2 DEF StorageRequest, Request
  <2>4. reqs' \subseteq Request
    BY <1>4, <2>3 DEF StoreGap, TypeOK
  <2> QED
    BY <1>4, <2>4, Idle DEF StoreGap, TypeOK, IdleStorer
<1>5. CASE Restore
  <2> DEFINE b == cache[storer.loop]
  <2>1. storer.at = "loop" /\ storer.loop \in Heights /\ b \in Block /\ storer.local \in Hgt
        /\ Height(b) \in Hgt
    BY <1>5, HeightType DEF Restore, TypeOK, StorerType, Top
  <2>2. tip' \in [Node -> Top] /\ pe' \in Top
    BY <1>5, <2>1 DEF Restore, TypeOK, Top
  <2>3. /\ cache' \in [Heights -> Top]
        /\ \A h \in Heights : cache'[h] = NoBlock \/ Height(cache'[h]) = h
    BY <1>5, <2>1 DEF Restore, RemoveFromCache, TypeOK, Top
  <2>4. NextRound(Height(b)) \/ NextRound(storer.local)
    BY <1>5 DEF Restore
  <2>5. /\ storer' \in StorerType
        /\ storer'.at = "loop" => storer'.max \in Heights /\ storer'.loop <= storer'.max
    BY <2>1, <2>4, NextRoundType
  <2>6. StartSync(FALSE) \in Request
    BY Idle, NodeAssumption DEF StartSync, Request
  <2>7. reqs' \subseteq Request
    BY <1>5, <2>6 DEF Restore, TypeOK
  <2> QED
    BY <1>5, <2>2, <2>3, <2>5, <2>7 DEF Restore, TypeOK
<1> QED
  BY <1>1, <1>2, <1>3, <1>4, <1>5 DEF Storager

\* An agreement is that of somebody.
LEMMA AgreedBySomebody == \A S : AgreedBy(S) => S # {}
<1>1. Cardinality(Node) \in Nat
  BY NodeAssumption, FS_CardinalityType
<1>2. Cardinality(Node) \div 2 >= 0
  BY <1>1
<1>3. ~Agreed(0)
  BY <1>1, <1>2 DEF Agreed, ConsensusConditionChecked, Check
<1> QED
  BY <1>3, FS_EmptySet DEF AgreedBy

\* What becomes of the requester's progress when the answers are analysed.
LEMMA StopType == ASSUME TypeOK, NEW again \in BOOLEAN, Stop(again) PROVE sync' \in SyncType
  BY DEF Stop, TypeOK, SyncType

LEMMA FetchType ==
    ASSUME TypeOK, NEW low \in Nat, NEW high \in Hgt, NEW s \in Node, Fetch(low, high, s)
    PROVE  sync' \in SyncType
<1>1. low + 1 \in Nat
  OBVIOUS
<1> QED
  BY <1>1 DEF Fetch, TypeOK, SyncType

LEMMA RollType ==
    ASSUME TypeOK, NEW to \in Hgt, NEW low \in Nat, NEW high \in Hgt, NEW s \in Node, Roll(to, low, high, s)
    PROVE  sync' \in SyncType
<1>1. low + 1 \in Nat
  OBVIOUS
<1> QED
  BY <1>1 DEF Roll, TypeOK, SyncType

LEMMA AnswersType ==
    ASSUME TypeOK
    PROVE  \A n \in Node : sync.answers[n].top \in Top /\ sync.answers[n].at \in Top
  BY DEF TypeOK, SyncType, AnswerType

\* Where the height goes down by one.
LEMMA LowerType == ASSUME TypeOK, pe # NoBlock
                   PROVE  Height(pe) - 1 \in Hgt /\ Height(pe) - 1 \in Nat
<1>1. pe \in Block /\ Height(pe) \in Hgt /\ Cardinality(Block) \in Nat
  BY HeightType, TreeAssumption, FS_CardinalityType DEF TypeOK, Top
<1> QED
  BY <1>1, HeightStep DEF Hgt

LEMMA AnalyzeType == ASSUME TypeOK, Analyze PROVE sync' \in SyncType
<1>1. CASE \E again \in BOOLEAN : Stop(again)
  BY <1>1, StopType
<1>2. ASSUME NEW a \in Top, \/ GreaterThanLocalHeight(a) \/ EqualLocalHeight(a) \/ LessThanLocalHeight(a)
      PROVE  sync' \in SyncType
  <2>1. /\ Height(a) \in Hgt /\ Height(pe) \in Hgt /\ Height(pe) \in Nat /\ Height(a) \in Nat
        /\ 0 \in Hgt /\ 0 \in Nat
    BY HeightType, Idle DEF TypeOK
  <2>2. 1 \in Hgt
    BY HeightsInterval
  <2>3. \A h, l : AtHeight(h) \subseteq Node /\ AtTop(a) \subseteq Node
    BY DEF AtHeight, AtTop, Answered
  <2>4. CASE GreaterThanLocalHeight(a)
    <3>1. CASE \E s \in Node : Fetch(0, Height(a), s) \/ Fetch(Height(pe), Height(a), s)
      BY <2>1, <3>1, FetchType
    <3>2. CASE pe # NoBlock /\ \E s \in Node : Roll(Height(pe) - 1, Height(pe), Height(a), s)
      BY <2>1, <3>2, LowerType, RollType
    <3> QED
      BY <2>3, <2>4, <3>1, <3>2, <1>1 DEF GreaterThanLocalHeight
  <2>5. CASE EqualLocalHeight(a)
    <3>1. CASE Fetch(0, 1, Seed)
      BY <2>1, <2>2, <3>1, FetchType, NodeAssumption
    <3>2. CASE pe # NoBlock /\ \E s \in Node : Roll(Height(pe) - 1, Height(pe) - 1, Height(a), s)
      BY <2>1, <3>2, LowerType, RollType
    <3> QED
      BY <2>3, <2>5, <3>1, <3>2, <1>1 DEF EqualLocalHeight
  <2>6. CASE LessThanLocalHeight(a)
    <3>1. CASE Roll(Height(a), 0, 0, Me)
      BY <2>1, <3>1, RollType, NodeAssumption
    <3> QED
      BY <2>6, <3>1, <1>1 DEF LessThanLocalHeight
  <2> QED
    BY <1>2, <2>4, <2>5, <2>6
<1> QED
  BY <1>1, <1>2 DEF Analyze

LEMMA RequesterType == ASSUME TypeOK, Requester PROVE TypeOK'
<1> USE DEF store, life
<1>1. CASE ReceiveStartSync
  <2>1. PICK q \in reqs :
          /\ reqs' = reqs \ {q} /\ retry' = {}
          /\ pe' = IF pe = NoBlock THEN tip[Me] ELSE pe
          /\ \/ sync' = [IdleSync EXCEPT !.at = "asking", !.startup = q.startup, !.lh = Height(pe')]
             \/ UNCHANGED sync
    BY <1>1 DEF ReceiveStartSync
  <2>2. pe' \in Top /\ q \in Request
    BY <2>1, NodeAssumption DEF TypeOK
  <2>3. Height(pe') \in Hgt /\ q.startup \in BOOLEAN
    BY <2>2, HeightType DEF Request
  <2>4. sync' \in SyncType
    BY <2>1, <2>3, Idle DEF TypeOK, SyncType
  <2> QED
    BY <1>1, <2>1, <2>2, <2>4, FS_EmptySet DEF ReceiveStartSync, TypeOK
<1>2. CASE ReceiveSyncRequest
  <2>1. PICK q \in reqs :
          /\ reqs' = reqs \ {q}
          /\ sync' = [IdleSync EXCEPT !.at = "fetching", !.server = q.server,
                                      !.next = Height(pe) + 1, !.end = q.max]
    BY <1>2 DEF ReceiveSyncRequest
  <2>2. q \in Request /\ Height(pe) + 1 \in Nat
    BY HeightType DEF TypeOK
  <2>3. q.server \in Node /\ q.max \in Hgt
    BY <2>2 DEF Request
  <2>4. sync' \in SyncType
    BY <2>1, <2>2, <2>3, Idle DEF SyncType
  <2> QED
    BY <1>2, <2>1, <2>4 DEF ReceiveSyncRequest, TypeOK
<1>3. CASE Analyze
  BY <1>3, AnalyzeType DEF Analyze, TypeOK
<1>4. CASE Rollback
  <2>1. tip[Me] \in Top /\ sync.to \in Nat
    BY NodeAssumption DEF TypeOK, SyncType, Hgt
  <2>2. At(tip[Me], sync.to) \in Top
    BY <2>1, AtOnChain
  <2>3. tip' \in [Node -> Top]
    BY <1>4, <2>1, <2>2 DEF Rollback, TypeOK
  <2>4. sync' \in SyncType
    BY <1>4 DEF Rollback, TypeOK, SyncType
  <2> QED
    BY <1>4, <2>3, <2>4 DEF Rollback, TypeOK
<1>5. CASE ResetStatus
  <2>1. sync' \in SyncType
    BY <1>5 DEF ResetStatus, TypeOK, SyncType
  <2> QED
    BY <1>5, <2>1, NodeAssumption DEF ResetStatus, TypeOK
<1>6. CASE FetchBlock
  <2> DEFINE b == At(tip[sync.server], sync.next)
  <2>1. b \in Top /\ sync.next + 1 \in Nat
    BY AtOnChain DEF TypeOK, SyncType
  <2>2. inbox' \in Seq(Block)
    BY <1>6, <2>1 DEF FetchBlock, TypeOK, Top
  <2>3. sync' \in SyncType
    BY <1>6, <2>1 DEF FetchBlock, TypeOK, SyncType
  <2> QED
    BY <1>6, <2>2, <2>3 DEF FetchBlock, TypeOK
<1>7. CASE SyncEnd
  <2>1. retry' \subseteq Request /\ Cardinality(retry') <= 1
    <3>1. StartSync(sync.startup) \in Request
      BY Idle, NodeAssumption DEF StartSync, Request, TypeOK, SyncType
    <3>2. Cardinality({StartSync(sync.startup)}) = 1
      BY FS_Singleton, Zenon
    <3>3. CASE retry' = {StartSync(sync.startup)}
      BY <3>1, <3>2, <3>3
    <3>4. CASE retry' = retry
      BY <3>4 DEF TypeOK
    <3> QED
      BY <1>7, <3>3, <3>4 DEF SyncEnd
  <2>2. started' \in BOOLEAN /\ sync' \in SyncType
    BY <1>7, Idle DEF SyncEnd, TypeOK, SyncType
  <2> QED
    BY <1>7, <2>1, <2>2 DEF SyncEnd, TypeOK
<1> QED
  BY <1>1, <1>2, <1>3, <1>4, <1>5, <1>6, <1>7 DEF Requester

LEMMA NextType == ASSUME TypeOK, Next PROVE TypeOK'
<1> USE DEF store, life
<1>1. ASSUME NEW n \in Node, Produce(n) \/ Follow(n) PROVE TypeOK'
  <2>1. PICK b \in Main : tip' = [tip EXCEPT ![n] = b] /\ published' \subseteq published \cup {b}
    BY <1>1 DEF Produce, Follow
  <2>2. tip' \in [Node -> Top] /\ published' \subseteq Main
    BY <2>1, MainIsChain DEF TypeOK
  <2> QED
    BY <1>1, <2>2 DEF Produce, Follow, TypeOK
<1>2. ASSUME NEW n \in Node, Answer(n) PROVE TypeOK'
  <2>1. At(tip[n], sync.lh) \in Top /\ tip[n] \in Top
    BY AtOnChain DEF TypeOK, SyncType, Hgt
  <2>2. sync' \in SyncType
    BY <1>2, <2>1 DEF Answer, TypeOK, SyncType, AnswerType, Top
  <2> QED
    BY <1>2, <2>2 DEF Answer, TypeOK
<1>3. ASSUME NEW b \in Block, Confirm(b) PROVE TypeOK'
  <2>1. Height(b) \in Heights
    BY DEF Heights
  <2> QED
    BY <1>3, <2>1 DEF Confirm, TypeOK, Top
<1>4. CASE Retry
  <2>1. Cardinality({}) <= 1
    BY FS_EmptySet
  <2>2. retry' = {} /\ reqs' \subseteq Request
    BY <1>4 DEF Retry, TypeOK
  <2>3. retry' \subseteq Request /\ Cardinality(retry') <= 1
    BY <2>1, <2>2
  <2> QED
    BY <1>4, <2>2, <2>3 DEF Retry, TypeOK
<1>5. StartSync(TRUE) \in Request /\ StartSync(FALSE) \in Request
  BY Idle, NodeAssumption DEF StartSync, Request
<1>6. CASE Join
  <2>1. reqs' \subseteq Request
    BY <1>5, <1>6 DEF Join, TypeOK
  <2>2. joined' \in BOOLEAN
    BY <1>6, Zenon DEF Join
  <2> QED
    BY <1>6, <2>1, <2>2 DEF Join, TypeOK
<1>7. CASE Prompt
  <2>1. reqs' \subseteq Request
    BY <1>5, <1>7 DEF Prompt, TypeOK
  <2>2. prompts' \in Nat
    BY <1>7 DEF Prompt, TypeOK
  <2> QED
    BY <1>7, <2>1, <2>2 DEF Prompt, TypeOK
<1>8. CASE Restart
  <2>1. Cardinality({}) <= 1 /\ storer'.at # "loop" /\ <<>> \in Seq(Block)
    BY <1>8, FS_EmptySet DEF Restart, IdleStorer
  <2>2. cache' \in [Heights -> Top] /\ \A h \in Heights : cache'[h] = NoBlock
    BY <1>8 DEF Restart, EmptyCache, Top
  <2>3. joined' \in BOOLEAN /\ started' \in BOOLEAN /\ storer' \in StorerType /\ sync' \in SyncType
    BY <1>8, Idle, Zenon DEF Restart
  <2>4. reqs' = {} /\ retry' = {} /\ inbox' = <<>> /\ batch' \in BOOLEAN /\ pe' \in Top
    BY <1>8 DEF Restart, Top
  <2>5. restarts' \in Nat
    BY <1>8 DEF Restart, TypeOK
  <2> QED
    BY <1>8, <2>1, <2>2, <2>3, <2>4, <2>5 DEF Restart, TypeOK
<1> QED
  BY <1>1, <1>2, <1>3, <1>4, <1>6, <1>7, <1>8, StoragerType, RequesterType DEF Next

\* The variables of ChainSync keep their types: cached blocks lie at their
\* height, and the storager's loop stays within the heights there are.
THEOREM TypeCorrect == Spec => []TypeOK
<1>1. TypeOK /\ UNCHANGED vars => TypeOK'
  BY DEF TypeOK, vars, store, life
<1> QED
  BY <1>1, InitType, NextType, PTL DEF Spec

-----------------------------------------------------------------------------
(* What is rolled back.                                                     *)

\* The other nodes hold agreed blocks only.
OthersOnMain == \A n \in Node \ {Me} : tip[n] \in Main \cup {NoBlock}

\* While Me asks, it has not fallen behind the height it asked for; the others
\* told of agreed blocks, and Me itself of what it still has.
AskingInv ==
    sync.at = "asking" =>
        /\ pe = NoBlock => tip[Me] = NoBlock
        /\ sync.lh <= Height(pe)
        /\ sync.answers[Me].come => sync.answers[Me].top \in Chain[tip[Me]] \cup {NoBlock}
        /\ \A n \in Node \ {Me} : sync.answers[n].come =>
             /\ sync.answers[n].top \in Main \cup {NoBlock}
             /\ sync.lh < Height(sync.answers[n].top)
                  => sync.answers[n].at = At(sync.answers[n].top, sync.lh)

\* A rollback goes with a reset at the start, or empties a chain that was empty
\* when Me asked, or takes only what lies on a fork that pe shows.
RollingInv ==
    sync.at = "rolling" =>
        \/ sync.startup /\ sync.server = Me /\ sync.end = 0
        \/ sync.lh = 0 /\ sync.to = 0
        \/ pe \in Block \ Main /\ \A x \in Chain[tip[Me]] : Height(x) > sync.to => x \notin Main

Safe == OthersOnMain /\ StatusIsTop /\ AskingInv /\ RollingInv
IInv == TypeOK /\ Safe

LEMMA InitSafe == Init => Safe
<1> SUFFICES ASSUME Init PROVE Safe
  OBVIOUS
<1>1. PICK s \in Starts : tip = s.tip /\ pe = (IF s.running THEN s.tip[Me] ELSE NoBlock)
  BY DEF Init
<1>2. OthersOnMain
  BY <1>1, MainAssumption DEF OthersOnMain
<1>3. StatusIsTop
  BY <1>1 DEF StatusIsTop
<1>4. sync.at = "idle"
  BY DEF Init, IdleSync
<1> QED
  BY <1>2, <1>3, <1>4 DEF Safe, AskingInv, RollingInv

\* Nothing is disturbed by steps that change neither databases nor pe nor sync.
LEMMA Untouched == ASSUME Safe, UNCHANGED <<tip, pe, sync>> PROVE Safe'
  BY DEF Safe, OthersOnMain, StatusIsTop, AskingInv, RollingInv

\* Another node goes on along the agreed chain.
LEMMA OthersSafe ==
    ASSUME IInv, NEW n \in Node \ {Me}, NEW b \in Main, tip' = [tip EXCEPT ![n] = b], UNCHANGED <<pe, sync>>
    PROVE  Safe'
<1>1. tip'[Me] = tip[Me] /\ \A k \in Node \ {Me} : tip'[k] \in {tip[k], b}
  BY NodeAssumption DEF IInv, TypeOK
<1> QED
  BY <1>1 DEF IInv, Safe, OthersOnMain, StatusIsTop, AskingInv, RollingInv

\* What the database shows, pe shows if it has shown nothing before.
LEMMA StatusRead ==
    ASSUME IInv, pe' = (IF pe = NoBlock THEN tip[Me] ELSE pe), UNCHANGED <<tip, sync>>
    PROVE  Safe'
<1>1. StatusIsTop'
  BY DEF IInv, Safe, StatusIsTop
<1>2. AskingInv'
  BY DEF IInv, Safe, AskingInv
<1>3. RollingInv'
  BY TreeAssumption DEF IInv, Safe, RollingInv
<1> QED
  BY <1>1, <1>2, <1>3 DEF IInv, Safe, OthersOnMain

\* A block is stored on the last one, which pe shows.
LEMMA StoreSafe ==
    ASSUME IInv, NEW b \in Block, Parent[b] = pe, Parent[b] = tip[Me],
           tip' = [tip EXCEPT ![Me] = b], pe' = b, UNCHANGED sync
    PROVE  Safe'
<1>1. tip'[Me] = b /\ \A n \in Node \ {Me} : tip'[n] = tip[n]
  BY NodeAssumption DEF IInv, TypeOK
<1>2. Chain[b] = {b} \cup Chain[tip[Me]] /\ b # NoBlock
  BY ChainStep, TreeAssumption
<1>3. Height(b) = Height(pe) + 1 /\ Height(pe) \in Nat
  BY HeightStep, HeightType DEF IInv, TypeOK
<1>4. OthersOnMain' /\ StatusIsTop'
  BY <1>1 DEF IInv, Safe, OthersOnMain, StatusIsTop
<1>5. AskingInv'
  <2>1. ASSUME sync.at = "asking" PROVE sync.lh <= Height(b)
    <3>1. sync.lh <= Height(pe)
      BY <2>1 DEF IInv, Safe, AskingInv
    <3>2. sync.lh \in Nat
      BY DEF IInv, TypeOK, SyncType, Hgt
    <3>3. \A i, j \in Nat : i <= j => i <= j + 1
      OBVIOUS
    <3> QED
      BY <1>3, <3>1, <3>2, <3>3
  <2> QED
    BY <1>1, <1>2, <2>1 DEF IInv, Safe, AskingInv
<1>6. RollingInv'
  <2>1. ASSUME pe \in Block \ Main PROVE b \in Block \ Main
    BY <1>2, <2>1, MainIsChain, TreeAssumption DEF Below
  <2> QED
    BY <1>1, <1>2, <2>1 DEF IInv, Safe, RollingInv
<1> QED
  BY <1>4, <1>5, <1>6 DEF Safe

LEMMA StoragerSafe == ASSUME IInv, Storager PROVE Safe'
<1>1. CASE ReceiveBatchStore \/ ReceiveBlockRestore
  BY <1>1, StatusRead DEF ReceiveBatchStore, ReceiveBlockRestore, HandlerFrom
<1>2. CASE StoreMissing \/ StoreGap
  BY <1>2, Untouched DEF StoreMissing, StoreGap, IInv
<1>3. CASE Restore
  <2> DEFINE b == cache[storer.loop]
  <2>1. b \in Block
    BY <1>3 DEF Restore, IInv, TypeOK, StorerType, Top
  <2>2. UNCHANGED sync
    BY <1>3 DEF Restore
  <2>3. \/ Parent[b] = pe /\ Parent[b] = tip[Me] /\ tip' = [tip EXCEPT ![Me] = b] /\ pe' = b
        \/ UNCHANGED <<tip, pe>>
    BY <1>3 DEF Restore
  <2> QED
    BY <2>1, <2>2, <2>3, StoreSafe, Untouched DEF IInv
<1> QED
  BY <1>1, <1>2, <1>3 DEF Storager

\* While Me asks, the last block is not above the one pe shows, nor is what Me
\* told of itself.
LEMMA MeNotAhead ==
    ASSUME IInv, sync.at = "asking", pe # NoBlock
    PROVE  /\ Height(tip[Me]) <= Height(pe) /\ (Height(tip[Me]) = Height(pe) => tip[Me] = pe)
           /\ sync.answers[Me].come => /\ Height(sync.answers[Me].top) <= Height(pe)
                                       /\ Height(sync.answers[Me].top) = Height(pe) => sync.answers[Me].top = pe
<1> DEFINE top == sync.answers[Me].top
<1>1. /\ tip[Me] \in Top /\ pe \in Block /\ Height(pe) \in Nat /\ Height(pe) > 0
      /\ Height(tip[Me]) \in Nat /\ top \in Top /\ Height(top) \in Nat
  BY NodeAssumption, HeightType, HeightStep, AnswersType DEF IInv, TypeOK, Top
<1>2. Height(tip[Me]) <= Height(pe) /\ (Height(tip[Me]) = Height(pe) => tip[Me] = pe)
  BY <1>1, HeightEmpty DEF IInv, Safe, StatusIsTop
<1>3. ASSUME sync.answers[Me].come, top # NoBlock
      PROVE  Height(top) <= Height(tip[Me]) /\ (Height(top) = Height(tip[Me]) => top = tip[Me])
  BY <1>1, <1>3, HeightOnChain DEF IInv, Safe, AskingInv
<1>4. top = NoBlock => Height(top) = 0
  BY HeightEmpty
<1> QED
  BY <1>1, <1>2, <1>3, <1>4

\* A forked block of pe takes nothing of the agreed chain with it.
LEMMA ForkedTopOnly ==
    ASSUME IInv, sync.at = "asking", pe \in Block \ Main
    PROVE  \A x \in Chain[tip[Me]] : Height(x) > Height(pe) - 1 => x \notin Main
<1>1. SUFFICES ASSUME NEW x \in Chain[tip[Me]], Height(x) > Height(pe) - 1 PROVE x \notin Main
  OBVIOUS
<1>2. tip[Me] \in Top /\ pe # NoBlock /\ Height(pe) \in Nat /\ Height(tip[Me]) \in Nat
  BY NodeAssumption, HeightType, TreeAssumption DEF IInv, TypeOK
<1>3. Height(x) <= Height(tip[Me]) /\ (Height(x) = Height(tip[Me]) => x = tip[Me]) /\ Height(x) \in Nat
  BY <1>2, HeightOnChain, HeightType DEF Top
<1>4. Height(x) = Height(tip[Me]) /\ Height(tip[Me]) = Height(pe)
  BY <1>1, <1>2, <1>3, MeNotAhead
<1> QED
  BY <1>2, <1>3, <1>4, MeNotAhead

\* What the others have at the height that Me asked for.
LEMMA LeadingOnMain ==
    ASSUME IInv, sync.at = "asking", pe # NoBlock, NEW a \in Top, Height(a) > Height(pe),
           NEW l \in Top, AgreedBy(Leading(Height(a), l))
    PROVE  IF sync.lh = 0 THEN l = NoBlock ELSE l \in Main /\ Height(l) = sync.lh
<1>1. PICK n \in Node : sync.answers[n].come /\ Height(sync.answers[n].top) = Height(a)
                        /\ sync.answers[n].at = l
  BY AgreedBySomebody DEF Leading, AtHeight, Answered
<1> DEFINE top == sync.answers[n].top
<1>2. Height(pe) \in Nat /\ Height(a) \in Nat /\ sync.lh \in Nat /\ sync.lh <= Height(pe)
  BY HeightType DEF IInv, TypeOK, SyncType, Hgt, Safe, AskingInv
<1>3. n # Me
  BY <1>1, <1>2, MeNotAhead
<1>4. top \in Main \cup {NoBlock} /\ l = At(top, sync.lh)
  BY <1>1, <1>2, <1>3 DEF IInv, Safe, AskingInv
<1>5. top \in Top /\ Chain[top] \subseteq Main
  BY <1>4, MainIsChain
<1>6. CASE sync.lh = 0
  BY <1>2, <1>4, <1>5, <1>6, AtOnChain
<1>7. CASE sync.lh # 0
  <2>1. sync.lh \in 1 .. Height(top)
    BY <1>1, <1>2, <1>7
  <2> QED
    BY <1>2, <1>4, <1>5, <1>7, <2>1, AtOnChain
<1> QED
  BY <1>6, <1>7

\* A block with the same block below it is at the same height.
LEMMA SameBelow ==
    ASSUME NEW x \in Block, NEW y \in Block, Below(x) = Below(y) PROVE Height(x) = Height(y)
  BY HeightStep, TreeAssumption DEF Below

LEMMA AnalyzeSafe == ASSUME IInv, Analyze PROVE Safe'
<1>1. sync.at = "asking" /\ UNCHANGED <<tip, pe>>
  BY DEF Analyze
<1>2. pe \in Top /\ Height(pe) \in Nat /\ sync \in SyncType /\ sync' \in SyncType
  BY HeightType, AnalyzeType DEF IInv, TypeOK
<1>3. CASE \E again \in BOOLEAN : Stop(again)
  <2>1. sync'.at = "end"
    BY <1>2, <1>3 DEF Stop, SyncType
  <2> QED
    BY <1>1, <2>1 DEF IInv, Safe, OthersOnMain, StatusIsTop, AskingInv, RollingInv
<1>4. CASE \E low, high, s : Fetch(low, high, s)
  <2>1. sync'.at = "fetching"
    BY <1>2, <1>4 DEF Fetch, SyncType
  <2> QED
    BY <1>1, <2>1 DEF IInv, Safe, OthersOnMain, StatusIsTop, AskingInv, RollingInv
<1>5. ASSUME NEW to, NEW low, NEW high, NEW s, Roll(to, low, high, s),
             \/ sync.startup /\ s = Me /\ high = 0
             \/ sync.lh = 0 /\ to = 0
             \/ pe \in Block \ Main /\ to = Height(pe) - 1
      PROVE  Safe'
  <2>1. /\ sync'.at = "rolling" /\ sync'.startup = sync.startup /\ sync'.lh = sync.lh
        /\ sync'.to = to /\ sync'.server = s /\ sync'.end = high
    BY <1>2, <1>5 DEF Roll, SyncType
  <2>2. RollingInv'
    BY <1>1, <1>5, <2>1, ForkedTopOnly DEF RollingInv
  <2> QED
    BY <1>1, <2>1, <2>2 DEF IInv, Safe, OthersOnMain, StatusIsTop, AskingInv
<1>6. ASSUME NEW a \in Top, Height(a) > Height(pe), GreaterThanLocalHeight(a) PROVE Safe'
  <2>1. ASSUME NEW l \in Top, AgreedBy(Leading(Height(a), l)), pe # NoBlock, l # pe, Below(pe) = Below(l)
        PROVE  (sync.lh = 0 /\ Height(pe) - 1 = 0) \/ pe \in Block \ Main
    <3>1. pe \in Block
      BY <1>2, <2>1 DEF Top
    <3>2. CASE sync.lh = 0
      <4>1. l = NoBlock
        BY <1>1, <1>6, <2>1, <3>2, LeadingOnMain
      <4>2. Parent[pe] = NoBlock
        BY <2>1, <4>1 DEF Below
      <4> QED
        BY <3>1, <3>2, <4>2, HeightStep, HeightEmpty
    <3>3. CASE sync.lh # 0
      <4>1. l \in Main /\ l \in Block
        BY <1>1, <1>6, <2>1, <3>3, LeadingOnMain, MainAssumption
      <4>2. Height(l) = Height(pe)
        BY <2>1, <3>1, <4>1, SameBelow
      <4> QED
        BY <2>1, <3>1, <4>1, <4>2, MainIsChain
    <3> QED
      BY <3>2, <3>3
  <2>2. \/ \E again \in BOOLEAN : Stop(again)
        \/ \E low, high, s : Fetch(low, high, s)
        \/ \E l \in Top, s \in Node : /\ AgreedBy(Leading(Height(a), l)) /\ pe # NoBlock
                                     /\ l # pe /\ Below(pe) = Below(l)
                                     /\ Roll(Height(pe) - 1, Height(pe), Height(a), s)
    BY <1>6 DEF GreaterThanLocalHeight, AtTop, Answered
  <2> QED
    BY <1>3, <1>4, <1>5, <2>1, <2>2
<1>7. ASSUME NEW a \in Top, AgreedBy(AtTop(a)), Height(a) = Height(pe), EqualLocalHeight(a) PROVE Safe'
  <2>1. ASSUME pe # NoBlock, pe # a PROVE pe \in Block \ Main
    <3>1. PICK n \in Node : sync.answers[n].come /\ sync.answers[n].top = a
      BY <1>7, AgreedBySomebody DEF AtTop, Answered
    <3>2. n # Me
      BY <1>1, <1>7, <2>1, <3>1, MeNotAhead
    <3>3. a \in Main \cup {NoBlock} /\ pe \in Block
      BY <1>1, <1>2, <2>1, <3>1, <3>2 DEF IInv, Safe, AskingInv, Top
    <3>4. a \in Main
      BY <1>7, <3>3, HeightStep, HeightEmpty
    <3> QED
      BY <1>7, <2>1, <3>3, <3>4, MainIsChain
  <2>2. \/ \E again \in BOOLEAN : Stop(again)
        \/ \E low, high, s : Fetch(low, high, s)
        \/ pe # NoBlock /\ pe # a /\ \E s : Roll(Height(pe) - 1, Height(pe) - 1, Height(a), s)
    BY <1>7 DEF EqualLocalHeight
  <2> QED
    BY <1>3, <1>4, <1>5, <2>1, <2>2
<1>8. ASSUME NEW a \in Top, LessThanLocalHeight(a) PROVE Safe'
  BY <1>3, <1>5, <1>8 DEF LessThanLocalHeight
<1> QED
  BY <1>3, <1>6, <1>7, <1>8 DEF Analyze

LEMMA RollbackSafe ==
    ASSUME IInv, Rollback
    PROVE  /\ Safe'
           /\ \A b \in Main : b \in Chain[tip[Me]] /\ b \notin Chain[tip'[Me]] => sync.startup \/ sync.lh = 0
<1> DEFINE t == tip[Me]
<1>1. /\ sync.at = "rolling" /\ t \in Top /\ Height(t) \in Nat /\ sync.to \in Nat /\ UNCHANGED pe
      /\ tip'[Me] = (IF Height(t) > sync.to THEN At(t, sync.to) ELSE t)
      /\ \A n \in Node \ {Me} : tip'[n] = tip[n]
  BY NodeAssumption, HeightType DEF Rollback, IInv, TypeOK, SyncType, Hgt
<1>2. sync'.at = (IF sync.server = Me /\ sync.end = 0 THEN "reset" ELSE "fetching")
  BY DEF Rollback, IInv, TypeOK, SyncType
<1>3. OthersOnMain' /\ AskingInv' /\ RollingInv'
  BY <1>1, <1>2 DEF IInv, Safe, OthersOnMain, AskingInv, RollingInv
<1>4. CASE sync.startup /\ sync.server = Me /\ sync.end = 0
  BY <1>2, <1>3, <1>4 DEF Safe, StatusIsTop
<1>5. CASE sync.lh = 0 /\ sync.to = 0
  <2>1. tip'[Me] = NoBlock
    BY <1>1, <1>5, AtOnChain, NoBlockIsLowest
  <2> QED
    BY <1>3, <1>5, <2>1 DEF Safe, StatusIsTop
<1>6. CASE pe \in Block \ Main /\ \A x \in Chain[t] : Height(x) > sync.to => x \notin Main
  <2>1. CASE Height(t) > sync.to
    <3>1. sync.to \in 0 .. Height(t)
      BY <1>1, <2>1
    <3>2. \A b \in Main : b \in Chain[t] => b \in Chain[tip'[Me]]
      <4>1. SUFFICES ASSUME NEW b \in Main, b \in Chain[t] PROVE b \in Chain[At(t, sync.to)]
        BY <1>1, <2>1
      <4>2. Height(b) \in Nat /\ ~(Height(b) > sync.to)
        BY <1>6, <4>1, MainIsChain, HeightType
      <4> QED
        BY <1>1, <3>1, <4>1, <4>2, ChainOfAt
    <3>3. Height(tip'[Me]) < Height(t)
      BY <1>1, <2>1, AtOnChain, HeightEmpty
    <3>4. Height(t) <= Height(pe) /\ Height(pe) \in Nat
      BY <1>1, <1>6, HeightEmpty, HeightType, TreeAssumption DEF IInv, Safe, StatusIsTop, Top
    <3>5. Height(tip'[Me]) \in Nat
      BY <1>1, AtOnChain, HeightType
    <3>6. Height(tip'[Me]) < Height(pe)
      BY <1>1, <3>3, <3>4, <3>5
    <3>7. StatusIsTop'
      BY <1>1, <1>6, <3>6 DEF StatusIsTop
    <3> QED
      BY <1>3, <3>2, <3>7 DEF Safe
  <2>2. CASE ~(Height(t) > sync.to)
    BY <1>1, <1>3, <2>2 DEF IInv, Safe, StatusIsTop
  <2> QED
    BY <2>1, <2>2
<1> QED
  BY <1>1, <1>4, <1>5, <1>6 DEF IInv, Safe, RollingInv

LEMMA RequesterSafe == ASSUME IInv, Requester PROVE Safe'
<1>1. CASE ReceiveStartSync
  <2>1. PICK q \in reqs :
          /\ pe' = IF pe = NoBlock THEN tip[Me] ELSE pe
          /\ \/ sync' = [IdleSync EXCEPT !.at = "asking", !.startup = q.startup, !.lh = Height(pe')]
             \/ UNCHANGED sync
          /\ UNCHANGED tip
    BY <1>1 DEF ReceiveStartSync
  <2>2. sync.at = "idle"
    BY <1>1 DEF ReceiveStartSync
  <2>3. CASE UNCHANGED sync
    BY <2>1, <2>3, StatusRead
  <2>4. CASE sync' = [IdleSync EXCEPT !.at = "asking", !.startup = q.startup, !.lh = Height(pe')]
    <3>1. /\ sync'.at = "asking" /\ sync'.lh = Height(pe')
          /\ \A n \in Node : ~sync'.answers[n].come
      BY <2>4 DEF IdleSync, NoAnswer
    <3>2. pe' = NoBlock => tip[Me] = NoBlock
      BY <2>1
    <3>3. Height(pe') \in Nat /\ Height(pe') <= Height(pe')
      BY <2>1, HeightType, NodeAssumption DEF IInv, TypeOK
    <3>4. AskingInv'
      BY <2>1, <3>1, <3>2, <3>3, NodeAssumption DEF AskingInv
    <3>5. StatusIsTop' /\ RollingInv' /\ OthersOnMain'
      BY <2>1, <2>2, <3>1 DEF IInv, Safe, StatusIsTop, RollingInv, OthersOnMain
    <3> QED
      BY <3>4, <3>5 DEF Safe
  <2> QED
    BY <2>1, <2>3, <2>4
<1>2. CASE ReceiveSyncRequest
  <2>1. sync.at = "idle" /\ sync'.at = "fetching" /\ UNCHANGED <<tip, pe>>
    BY <1>2 DEF ReceiveSyncRequest, IdleSync
  <2> QED
    BY <2>1 DEF IInv, Safe, OthersOnMain, StatusIsTop, AskingInv, RollingInv
<1>3. CASE Rollback
  BY <1>3, RollbackSafe
<1>4. CASE ResetStatus
  <2>1. sync'.at = "end" /\ pe' = tip[Me] /\ UNCHANGED tip
    BY <1>4 DEF ResetStatus, IInv, TypeOK, SyncType
  <2> QED
    BY <2>1 DEF IInv, Safe, OthersOnMain, StatusIsTop, AskingInv, RollingInv
<1>5. CASE FetchBlock
  <2>1. sync.at = "fetching" /\ sync'.at = "fetching" /\ UNCHANGED <<tip, pe>>
    BY <1>5 DEF FetchBlock, IInv, TypeOK, SyncType
  <2> QED
    BY <2>1 DEF IInv, Safe, OthersOnMain, StatusIsTop, AskingInv, RollingInv
<1>6. CASE SyncEnd
  <2>1. sync.at # "reset" /\ sync'.at = "idle" /\ UNCHANGED <<tip, pe>>
    BY <1>6 DEF SyncEnd, IdleSync
  <2> QED
    BY <2>1 DEF IInv, Safe, OthersOnMain, StatusIsTop, AskingInv, RollingInv
<1> QED
  BY <1>1, <1>2, <1>3, <1>4, <1>5, <1>6, AnalyzeSafe DEF Requester

LEMMA NextSafe == ASSUME IInv, Next PROVE Safe'
<1>1. ASSUME NEW n \in Node, Produce(n) \/ Follow(n) PROVE Safe'
  BY <1>1, OthersSafe DEF Produce, Follow
<1>2. ASSUME NEW n \in Node, Answer(n) PROVE Safe'
  <2> DEFINE ans == [top |-> tip[n], come |-> TRUE,
                     at |-> IF sync.lh < Height(tip[n]) THEN At(tip[n], sync.lh) ELSE NoBlock]
  <2>1. /\ sync.at = "asking" /\ sync'.at = "asking" /\ sync'.lh = sync.lh /\ UNCHANGED <<tip, pe>>
        /\ \A k \in Node : sync'.answers[k] = IF k = n THEN ans ELSE sync.answers[k]
    BY <1>2 DEF Answer, IInv, TypeOK, SyncType
  <2>2. tip[Me] \in Chain[tip[Me]] \cup {NoBlock}
    BY NodeAssumption, ChainClosed DEF IInv, TypeOK, Top
  <2>3. AskingInv'
    BY <2>1, <2>2, NodeAssumption DEF IInv, Safe, OthersOnMain, AskingInv
  <2> QED
    BY <2>1, <2>3 DEF IInv, Safe, OthersOnMain, StatusIsTop, RollingInv
<1>3. ASSUME NEW b \in Block, Confirm(b) PROVE Safe'
  BY <1>3, Untouched DEF Confirm, IInv
<1>4. CASE Retry \/ Join \/ Prompt
  BY <1>4, Untouched DEF Retry, Join, Prompt, IInv
<1>5. CASE Restart
  <2>1. sync'.at = "idle" /\ pe' = NoBlock /\ UNCHANGED tip
    BY <1>5 DEF Restart, IdleSync
  <2> QED
    BY <2>1 DEF IInv, Safe, OthersOnMain, StatusIsTop, AskingInv, RollingInv
<1> QED
  BY <1>1, <1>2, <1>3, <1>4, <1>5, StoragerSafe, RequesterSafe DEF Next

\* The databases of the others, what they told, pe and the progress of the
\* requester fit together in every state.
THEOREM InvariantHolds == Spec => []IInv
<1>1. Init => IInv
  BY InitType, InitSafe DEF IInv
<1>2. IInv /\ [Next]_vars => IInv'
  <2>1. ASSUME IInv, UNCHANGED vars PROVE IInv'
    BY <2>1, Untouched DEF IInv, vars, TypeOK, store, life
  <2>2. ASSUME IInv, Next PROVE IInv'
    BY <2>2, NextType, NextSafe DEF IInv
  <2> QED
    BY <2>1, <2>2
<1> QED
  BY <1>1, <1>2, PTL DEF Spec

\* Unless the requester resets it just now, PeerExtension shows the top of the
\* database, nothing, a forked block that was rolled back, or the database is empty.
THEOREM StatusShowsTop == Spec => []StatusIsTop
<1>1. IInv => StatusIsTop
  BY DEF IInv, Safe
<1> QED
  BY <1>1, InvariantHolds, PTL

\* No step takes an agreed block from the database of Me, but a rollback at the
\* start or of a node that had nothing when it asked.
LEMMA StepKeeps ==
    ASSUME IInv, Next, NEW b \in Main, b \in Chain[tip[Me]], b \notin Chain[tip'[Me]]
    PROVE  sync.at = "rolling" /\ (sync.startup \/ sync.lh = 0)
<1>1. CASE Rollback
  BY <1>1, RollbackSafe DEF Rollback
<1>2. CASE Restore
  <2> DEFINE c == cache[storer.loop]
  <2>1. c \in Block
    BY <1>2 DEF Restore, IInv, TypeOK, StorerType, Top
  <2>2. tip'[Me] = tip[Me] \/ (Parent[c] = tip[Me] /\ tip'[Me] = c)
    BY <1>2, NodeAssumption DEF Restore, IInv, TypeOK
  <2> QED
    BY <2>1, <2>2, ChainStep
<1>3. ASSUME NEW n \in Node, Produce(n) \/ Follow(n) PROVE tip'[Me] = tip[Me]
  BY <1>3, NodeAssumption DEF Produce, Follow, IInv, TypeOK
<1>4. CASE UNCHANGED tip
  BY <1>4
<1> QED
  BY <1>1, <1>2, <1>3, <1>4
  DEF Next, Storager, Requester, ReceiveBatchStore, ReceiveBlockRestore, StoreMissing, StoreGap,
      ReceiveStartSync, ReceiveSyncRequest, Analyze, ResetStatus, FetchBlock, SyncEnd, Answer,
      Confirm, Retry, Join, Prompt, Restart

THEOREM AgreedBlocksAreKept == Spec => AgreedBlockKept
<1>1. IInv /\ [Next]_vars =>
        [\A b \in Main : b \in Chain[tip[Me]] /\ b \notin Chain[tip'[Me]]
                        => sync.at = "rolling" /\ (sync.startup \/ sync.lh = 0)]_vars
  BY StepKeeps
<1> QED
  BY <1>1, InvariantHolds, PTL DEF Spec, AgreedBlockKept
=============================================================================
