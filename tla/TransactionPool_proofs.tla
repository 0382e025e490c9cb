----------------------- MODULE TransactionPool_proofs -----------------------
(***************************************************************************)
(* Proofs about TransactionPool, for every set of transactions and threads, *)
(* all sizes and all settings.                                              *)
(***************************************************************************)
EXTENDS TransactionPool, FiniteSetTheorems, SequenceTheorems, TLAPS

-----------------------------------------------------------------------------
(* The operators.                                                           *)

\* What a sequence without some elements keeps: the others, each as often.
LEMMA WithoutFacts ==
    ASSUME NEW s \in Seq(Tx), NEW S
    PROVE  /\ Without(s, S) \in Seq(Tx)
           /\ ToSet(Without(s, S)) = ToSet(s) \ S
           /\ Len(Without(s, S)) <= Len(s)
           /\ IsInjective(s) => IsInjective(Without(s, S))
<1> DEFINE left == {i \in DOMAIN s : s[i] \notin S}
           Rank(i) == Cardinality({j \in left : j <= i})
           n == Cardinality(left)
           at == [k \in 1 .. n |-> CHOOSE i \in left : Rank(i) = k]
           rank == [i \in left |-> Rank(i)]
<1>0. Len(s) \in Nat /\ DOMAIN s = 1 .. Len(s) /\ \A i \in 1 .. Len(s) : s[i] \in Tx
  BY LenProperties, ElementOfSeq
<1>1. left \in SUBSET (1 .. Len(s))
  BY <1>0
<1>2. IsFiniteSet(left) /\ n \in Nat /\ n <= Len(s)
  <2>1. IsFiniteSet(1 .. Len(s)) /\ Cardinality(1 .. Len(s)) = Len(s)
    <3>1. 1 \in Int /\ Len(s) \in Int
      BY <1>0
    <3>2. /\ IsFiniteSet(1 .. Len(s))
          /\ Cardinality(1 .. Len(s)) = IF 1 > Len(s) THEN 0 ELSE Len(s) - 1 + 1
      BY <3>1, FS_Interval
    <3> QED
      BY <1>0, <3>2
  <2> HIDE DEF left
  <2> QED
    BY <1>1, <2>1, FS_Subset, FS_CardinalityType
<1>3. \A i \in left : Rank(i) \in 1 .. n
  <2> TAKE i \in left
  <2> DEFINE below == {j \in left : j <= i}
  <2>1. below \in SUBSET left /\ i \in below /\ i \in Int
    BY <1>1
  <2> HIDE DEF below, left
  <2>2. IsFiniteSet(below) /\ Cardinality(below) <= n /\ Cardinality(below) \in Nat
    BY <1>2, <2>1, FS_Subset, FS_CardinalityType
  <2>3. Cardinality(below) # 0
    BY <2>1, <2>2, FS_EmptySet
  <2>4. Cardinality(below) \in 1 .. n
    BY <1>2, <2>2, <2>3
  <2> QED
    BY <2>4 DEF below
<1>4. \A i, k \in left : i < k => Rank(i) < Rank(k)
  <2> SUFFICES ASSUME NEW i \in left, NEW k \in left, i < k PROVE Rank(i) < Rank(k)
    OBVIOUS
  <2> DEFINE A == {j \in left : j <= i}
             B == {j \in left : j <= k}
  <2>1. \A j \in left : j \in Int
    BY <1>1
  <2>2. A \in SUBSET B /\ k \in B /\ k \notin A /\ B \in SUBSET left
    BY <2>1
  <2> HIDE DEF A, B, left
  <2>3. IsFiniteSet(B) /\ Cardinality(B) \in Nat
    BY <1>2, <2>2, FS_Subset, FS_CardinalityType
  <2>4. /\ IsFiniteSet(A) /\ Cardinality(A) <= Cardinality(B)
        /\ (Cardinality(B) = Cardinality(A) => B = A)
    BY <2>2, <2>3, FS_Subset
  <2>5. Cardinality(A) \in Nat
    BY <2>4, FS_CardinalityType
  <2>6. Cardinality(A) < Cardinality(B)
    BY <2>2, <2>3, <2>4, <2>5
  <2> QED
    BY <2>6 DEF A, B
<1>5. \A i, k \in left : Rank(i) = Rank(k) => i = k
  <2> HIDE DEF Rank
  <2>1. \A i \in left : i \in Int /\ Rank(i) \in Int
    BY <1>1, <1>2, <1>3
  <2> HIDE DEF left
  <2> QED
    BY <1>4, <2>1
<1>6. \A k \in 1 .. n : \E i \in left : Rank(i) = k
  <2> HIDE DEF Rank, left
  <2>1. rank \in Injection(left, 1 .. n)
    BY <1>3, <1>5 DEF Injection, IsInjective
  <2>2. IsFiniteSet(1 .. n) /\ Cardinality(1 .. n) = n
    <3>1. 1 \in Int /\ n \in Int
      BY <1>2
    <3>2. /\ IsFiniteSet(1 .. n)
          /\ Cardinality(1 .. n) = IF 1 > n THEN 0 ELSE n - 1 + 1
      BY <3>1, FS_Interval
    <3> QED
      BY <1>2, <3>2
  <2>3. rank \in Surjection(left, 1 .. n)
    BY <2>1, <2>2, FS_Injection
  <2> QED
    BY <2>3 DEF Surjection
<1>7. /\ \A k \in 1 .. n : at[k] \in left /\ Rank(at[k]) = k
      /\ \A i \in left : Rank(i) \in 1 .. n /\ at[Rank(i)] = i
  <2> HIDE DEF Rank, left
  <2>1. \A k \in 1 .. n : at[k] \in left /\ Rank(at[k]) = k
    BY <1>6
  <2> QED
    BY <1>3, <1>5, <2>1
<1> DEFINE r == [k \in 1 .. n |-> s[at[k]]]
<1>8. Without(s, S) = r
  BY DEF Without
<1>9. \A i \in left : i \in 1 .. Len(s) /\ s[i] \notin S
  BY <1>1
<1>10. \A i \in 1 .. Len(s) : s[i] \notin S => i \in left
  BY <1>0
<1> HIDE DEF at, Rank, left
<1>11. r \in [1 .. n -> Tx] /\ \A k \in 1 .. n : at[k] \in 1 .. Len(s)
  BY <1>0, <1>7, <1>9
<1> HIDE DEF n
<1>12. r \in Seq(Tx) /\ Len(r) = n /\ DOMAIN r = 1 .. n
  BY <1>2, <1>11, SeqDef
<1>13. ToSet(r) = ToSet(s) \ S
  <2>1. \A x \in ToSet(r) : x \in ToSet(s) \ S
    BY <1>0, <1>7, <1>9, <1>11, <1>12 DEF ToSet
  <2>2. \A x \in ToSet(s) \ S : x \in ToSet(r)
    BY <1>0, <1>7, <1>10, <1>12 DEF ToSet
  <2> QED
    BY <2>1, <2>2
<1>14. ASSUME IsInjective(s) PROVE IsInjective(r)
  BY <1>0, <1>7, <1>11, <1>12, <1>14 DEF IsInjective
<1> QED
  BY <1>2, <1>8, <1>12, <1>13, <1>14

\* What a sequence with one more element at its end holds.
LEMMA AppendFacts ==
    ASSUME NEW s \in Seq(Tx), NEW t \in Tx
    PROVE  /\ Append(s, t) \in Seq(Tx) /\ Len(Append(s, t)) = Len(s) + 1
           /\ ToSet(Append(s, t)) = ToSet(s) \cup {t}
           /\ (IsInjective(s) /\ t \notin ToSet(s)) => IsInjective(Append(s, t))
<1> DEFINE r == Append(s, t)
<1>1. /\ r \in Seq(Tx) /\ Len(r) = Len(s) + 1 /\ \A i \in 1 .. Len(s) : r[i] = s[i]
      /\ r[Len(s) + 1] = t
  BY AppendProperties
<1>2. Len(s) \in Nat /\ DOMAIN s = 1 .. Len(s) /\ DOMAIN r = 1 .. Len(s) + 1
  BY <1>1, LenProperties
<1> HIDE DEF r
<1>3. \A i \in 1 .. Len(s) + 1 : i \in 1 .. Len(s) \/ i = Len(s) + 1
  BY <1>2
<1>4. \A i \in 1 .. Len(s) : i \in 1 .. Len(s) + 1
  BY <1>2
<1>5. Len(s) + 1 \in 1 .. Len(s) + 1
  BY <1>2
<1>6. ToSet(r) = ToSet(s) \cup {t}
  <2>1. \A x \in ToSet(r) : x \in ToSet(s) \cup {t}
    BY <1>1, <1>2, <1>3 DEF ToSet
  <2>2. \A x \in ToSet(s) \cup {t} : x \in ToSet(r)
    BY <1>1, <1>2, <1>4, <1>5 DEF ToSet
  <2> QED
    BY <2>1, <2>2
<1>7. ASSUME IsInjective(s), t \notin ToSet(s) PROVE IsInjective(r)
  BY <1>1, <1>2, <1>3, <1>7 DEF IsInjective, ToSet
<1> QED
  BY <1>1, <1>6, <1>7 DEF r

\* The pool after putTran: no entry twice, and at most one more.
LEMMA PutTranFacts ==
    ASSUME NEW s \in Seq(Tx), NEW t \in Tx
    PROVE  /\ PutTran(s, t) \in Seq(Tx) /\ ToSet(PutTran(s, t)) = ToSet(s) \cup {t}
           /\ Len(PutTran(s, t)) <= Len(s) + 1
           /\ IsInjective(s) => IsInjective(PutTran(s, t))
<1>1. Len(s) \in Nat
  BY LenProperties
<1>2. CASE t \in ToSet(s)
  <2>1. PutTran(s, t) = s /\ ToSet(s) = ToSet(s) \cup {t}
    BY <1>2 DEF PutTran
  <2>2. Len(s) <= Len(s) + 1
    BY <1>1
  <2> QED
    BY <2>1, <2>2
<1>3. CASE t \notin ToSet(s)
  <2>1. PutTran(s, t) = Append(s, t)
    BY <1>3 DEF PutTran
  <2>2. Len(s) + 1 <= Len(s) + 1
    BY <1>1
  <2> QED
    BY <1>3, <2>1, <2>2, AppendFacts
<1> QED
  BY <1>2, <1>3

\* What a part of a sequence holds.
LEMMA PartFacts ==
    ASSUME NEW s \in Seq(Tx), NEW m \in Nat \ {0}, NEW n \in Int, n <= Len(s)
    PROVE  SubSeq(s, m, n) \in Seq(Tx) /\ ToSet(SubSeq(s, m, n)) \subseteq ToSet(s)
<1> DEFINE r == SubSeq(s, m, n)
<1>1. Len(s) \in Nat /\ DOMAIN s = 1 .. Len(s) /\ \A i \in 1 .. Len(s) : s[i] \in Tx
  BY LenProperties, ElementOfSeq
<1>2. \A i \in m .. n : i \in 1 .. Len(s)
  BY <1>1
<1>3. m \in Int
  OBVIOUS
<1>4. /\ r \in Seq(Tx) /\ Len(r) = (IF m <= n THEN n - m + 1 ELSE 0)
      /\ \A i \in 1 .. n - m + 1 : r[i] = s[m + i - 1]
  BY <1>1, <1>2, <1>3, SubSeqProperties
<1> HIDE DEF r
<1>5. DOMAIN r = 1 .. Len(r)
  BY <1>4, LenProperties
<1>6. \A i \in 1 .. Len(r) : i \in 1 .. n - m + 1 /\ m + i - 1 \in 1 .. Len(s)
  BY <1>1, <1>4
<1>7. \A x \in ToSet(r) : x \in ToSet(s)
  BY <1>1, <1>4, <1>5, <1>6 DEF ToSet
<1> QED
  BY <1>4, <1>7 DEF r

\* What CollectedTransOfBlock takes is a part of what is neither aged nor stored.
LEMMA FittingFacts ==
    ASSUME pool \in Seq(Tx), NEW start \in Nat
    PROVE  LET txs == Fitting(Page(start, Limit)) IN
           txs \in Seq(Tx) /\ ToSet(txs) \subseteq ToSet(pool) /\ ToSet(txs) \cap Stored = {}
<1> DEFINE page == Page(start, Limit)
<1>1. Fresh \in Seq(Tx) /\ ToSet(Fresh) = ToSet(pool) \ (aged \cup Stored) /\ Len(Fresh) \in Nat
  BY WithoutFacts, LenProperties DEF Fresh
<1>2. page \in Seq(Tx) /\ ToSet(page) \subseteq ToSet(Fresh)
  <2> DEFINE last == IF Len(Fresh) < start + Limit + 1 THEN Len(Fresh) ELSE start + Limit + 1
  <2>1. last \in Int /\ last <= Len(Fresh) /\ start + 1 \in Nat \ {0}
    BY <1>1, PoolAssumption
  <2>2. page = SubSeq(Fresh, start + 1, last)
    BY DEF Page
  <2> HIDE DEF last, page
  <2> QED
    BY <1>1, <2>1, <2>2, PartFacts
<1>3. ASSUME NEW fit \in SUBSET (1 .. Len(page))
      PROVE  Cardinality(fit) \in Int /\ Cardinality(fit) <= Len(page)
  <2> HIDE DEF page
  <2>1. Len(page) \in Nat
    BY <1>2, LenProperties
  <2>2. 1 \in Int /\ Len(page) \in Int
    BY <2>1
  <2>3. /\ IsFiniteSet(1 .. Len(page))
        /\ Cardinality(1 .. Len(page)) = IF 1 > Len(page) THEN 0 ELSE Len(page) - 1 + 1
    BY <2>2, FS_Interval
  <2>4. IsFiniteSet(fit) /\ Cardinality(fit) <= Cardinality(1 .. Len(page))
    BY <1>3, <2>3, FS_Subset
  <2>5. Cardinality(fit) \in Nat
    BY <2>4, FS_CardinalityType
  <2> QED
    BY <2>1, <2>3, <2>4, <2>5
<1>4. PICK n \in Int : n <= Len(page) /\ Fitting(page) = SubSeq(page, 1, n)
  <2> DEFINE Bytes(n) == MapThenSumSet(LAMBDA i : Size[page[i]], 1 .. n)
             fit == {n \in 1 .. Len(page) : 3 * Bytes(n) <= BlockLength}
  <2>1. fit \in SUBSET (1 .. Len(page))
    OBVIOUS
  <2>2. Fitting(page) = SubSeq(page, 1, Cardinality(fit))
    BY DEF Fitting
  <2> HIDE DEF fit, page
  <2> QED
    BY <1>3, <2>1, <2>2
<1>5. 1 \in Nat \ {0}
  OBVIOUS
<1> HIDE DEF page
<1>6. Fitting(page) \in Seq(Tx) /\ ToSet(Fitting(page)) \subseteq ToSet(page)
  BY <1>2, <1>4, <1>5, PartFacts
<1>7. Fitting(page) \in Seq(Tx) /\ ToSet(Fitting(page)) \subseteq ToSet(pool) /\ ToSet(Fitting(page)) \cap Stored = {}
  BY <1>1, <1>2, <1>6
<1> QED
  BY <1>7 DEF page

\* ... and all that the page removes is aged or stored.
LEMMA PurgedFacts == \A start, num : Purged(start, num) \subseteq aged \cup Stored
  BY DEF Purged
-----------------------------------------------------------------------------
(* The inductive invariant.                                                 *)

\* While the node is down nothing of it is left but the database.
InvDown ==
    status = "down" =>
        /\ pool = <<>> /\ aged = {} /\ tasks = <<>> /\ work = [w \in Worker |-> Idle]
        /\ pack.at = "idle" /\ storer.at = "idle"

\* What was collected for a block repeats nothing of the blocks stored then.
InvPack ==
    pack.at = "collected" => /\ pack.from \in 1 .. Len(chain)
                             /\ ToSet(pack.txs) \cap StoredTo(pack.from) = {}

\* The transactions that the storager removes from the pool are stored, and what
\* it keeps to be saved holds no transaction twice.
InvStorer ==
    /\ storer.at \in {"saved", "removed"} => storer.txs \subseteq Stored
    /\ IsInjective(storer.kept)

\* The threads that have seen room in the pool and are about to put.
AtRoom == {w \in Worker : work[w].at = "room"}

\* Every thread that has seen room in the pool counts as if it had put already;
\* the pools that were saved kept to the same limit.
InvLimit ==
    MaxCache > 0 =>
        /\ mode = "pool" => /\ tasks = <<>> /\ work = [w \in Worker |-> Idle]
                            /\ \A s \in {pool, saved, storer.kept} : Len(s) <= MaxCache
        /\ mode = "worker" =>
              /\ Len(pool) + Cardinality(AtRoom) <= MaxCache + Cardinality(Worker) - 1
              /\ \A s \in {saved, storer.kept} : Len(s) <= MaxCache + Cardinality(Worker) - 1

IInv == TypeOK /\ InvDown /\ InvPack /\ InvStorer /\ InvLimit /\ FreshUnlessOvertaken

-----------------------------------------------------------------------------
(* Types.                                                                   *)

LEMMA EmptyFacts == <<>> \in Seq(Tx) /\ IsInjective(<<>>) /\ ToSet(<<>>) = {} /\ Len(<<>>) = 0
<1>1. DOMAIN <<>> = {} /\ \A i \in DOMAIN <<>> : FALSE
  OBVIOUS
<1> QED
  BY <1>1 DEF IsInjective, ToSet

LEMMA InitType == Init => TypeOK
<1> SUFFICES ASSUME Init PROVE TypeOK
  OBVIOUS
<1>1. chain \in Seq(SUBSET Tx) /\ pe \in 1 .. Len(chain)
  BY DEF Init
<1>2. draw \in [on : 0 .. pe, me : BOOLEAN]
  BY DEF Init
<1>3. counts \in [received : 0 .. MaxReceived, faults : 0 .. MaxFaults, stops : 0 .. MaxStops]
  BY PoolAssumption DEF Init
<1>4. blocks \subseteq [on : 1 .. pe, txs : Seq(Tx), from : 1 .. Len(chain)]
  BY DEF Init
<1> QED
  BY <1>1, <1>2, <1>3, <1>4, EmptyFacts DEF Init, TypeOK, Idle, IdlePack, NoBlock, IdleStorer

\* A bounded count stays a count below its bound.
LEMMA CountType ==
    ASSUME TypeOK,
           Count("received", MaxReceived) \/ Count("faults", MaxFaults) \/ Count("stops", MaxStops)
    PROVE  counts' \in [received : 0 .. MaxReceived, faults : 0 .. MaxFaults, stops : 0 .. MaxStops]
<1>1. \A m \in Nat : \A i \in 0 .. m : i < m => i + 1 \in 0 .. m
  OBVIOUS
<1>2. CASE Count("received", MaxReceived)
  BY <1>1, <1>2, PoolAssumption DEF TypeOK, Count
<1>3. CASE Count("faults", MaxFaults)
  BY <1>1, <1>3, PoolAssumption DEF TypeOK, Count
<1>4. CASE Count("stops", MaxStops)
  BY <1>1, <1>4, PoolAssumption DEF TypeOK, Count
<1> QED
  BY <1>2, <1>3, <1>4

\* The storager begins with transactions.
LEMMA BeginTx ==
    ASSUME TypeOK, BeginOwn \/ BeginOther
    PROVE  \E txs \in SUBSET Tx : Begin(txs)
<1>1. CASE BeginOwn
  <2>1. PICK b \in blocks : Begin(ToSet(b.txs))
    BY <1>1 DEF BeginOwn
  <2>2. b.txs \in Seq(Tx)
    BY DEF TypeOK
  <2>3. ToSet(b.txs) \subseteq Tx
    BY <2>2, LenProperties, ElementOfSeq DEF ToSet
  <2> QED
    BY <2>1, <2>3
<1>2. CASE BeginOther
  BY <1>2, PoolAssumption DEF BeginOther
<1> QED
  BY <1>1, <1>2

\* The pool and those aged in it, under every action that touches them.
LEMMA PoolType ==
    ASSUME TypeOK, InvDown, InvStorer, [Next]_vars
    PROVE  /\ pool' \in Seq(Tx) /\ IsInjective(pool') /\ aged' \subseteq ToSet(pool')
           /\ saved' \in Seq(Tx) /\ IsInjective(saved')
<1>0. pool \in Seq(Tx) /\ IsInjective(pool) /\ aged \subseteq ToSet(pool)
      /\ saved \in Seq(Tx) /\ IsInjective(saved) /\ storer.kept \in Seq(Tx) /\ IsInjective(storer.kept)
  BY DEF TypeOK, InvStorer
<1>1. CASE UNCHANGED <<pool, aged, saved>>
  BY <1>0, <1>1
<1>2. ASSUME NEW t \in Tx, pool' = PutTran(pool, t), UNCHANGED <<aged, saved>>
      PROVE  /\ pool' \in Seq(Tx) /\ IsInjective(pool') /\ aged' \subseteq ToSet(pool')
             /\ saved' \in Seq(Tx) /\ IsInjective(saved')
  BY <1>0, <1>2, PutTranFacts
<1>3. ASSUME NEW S, pool' = Without(pool, S), aged' = aged \cap ToSet(pool') \/ aged' = aged \ S, UNCHANGED saved
      PROVE  /\ pool' \in Seq(Tx) /\ IsInjective(pool') /\ aged' \subseteq ToSet(pool')
             /\ saved' \in Seq(Tx) /\ IsInjective(saved')
  BY <1>0, <1>3, WithoutFacts
<1>4. ASSUME NEW t \in Tx, Receive(t)
      PROVE  UNCHANGED <<pool, aged, saved>> \/ (pool' = PutTran(pool, t) /\ UNCHANGED <<aged, saved>>)
  BY <1>4 DEF Receive
<1>5. ASSUME NEW w \in Worker, WorkPut(w) PROVE \E u \in Tx : pool' = PutTran(pool, u) /\ UNCHANGED <<aged, saved>>
  BY <1>5 DEF WorkPut, TypeOK
<1>6. CASE Age
  <2> DEFINE rest == Without(pool, aged)
  <2>1. rest \in Seq(Tx) /\ ToSet(rest) = ToSet(pool) \ aged /\ rest # <<>>
    BY <1>0, <1>6, WithoutFacts DEF Age
  <2> HIDE DEF rest
  <2>2. 1 \in DOMAIN rest /\ Head(rest) = rest[1]
    BY <2>1
  <2>3. Head(rest) \in ToSet(pool)
    BY <2>1, <2>2 DEF ToSet
  <2>4. aged' = aged \cup {Head(rest)} /\ UNCHANGED <<pool, saved>>
    BY <1>6 DEF Age, rest
  <2> QED
    BY <1>0, <2>3, <2>4
<1>7. CASE Collect
  BY <1>3, <1>7 DEF Collect
<1>8. CASE RemoveTrans
  BY <1>3, <1>8 DEF RemoveTrans
<1>9. CASE SaveCommit
  BY <1>0, <1>9 DEF SaveCommit
<1>10. CASE SavePool
  BY <1>0, <1>10 DEF SavePool
<1>11. CASE Stop
  BY <1>0, <1>11, EmptyFacts DEF Stop
<1>12. CASE Start
  BY <1>0, <1>12, EmptyFacts DEF Start, InvDown
<1>13. CASE Pool
  BY <1>1, <1>2, <1>5, <1>13 DEF Pool, WorkCheck, WorkRoom
<1>14. CASE BeginOwn \/ BeginOther
  BY <1>1, <1>14, BeginTx DEF Begin
<1>15. CASE (\E me \in BOOLEAN : Vote(me)) \/ CreateBlock \/ Pack \/ PackAgain \/ SaveFail \/ SetStatus \/ UNCHANGED vars
  BY <1>1, <1>15 DEF Vote, CreateBlock, Pack, PackAgain, SaveFail, SetStatus, vars
<1> QED
  BY <1>1, <1>2, <1>4, <1>6, <1>7, <1>8, <1>9, <1>10, <1>11, <1>12, <1>13, <1>14, <1>15
  DEF Next, Blocker, Storager, Process

\* Nothing is taken back from the database.
LEMMA ChainType ==
    ASSUME TypeOK, [Next]_vars
    PROVE  /\ chain' \in Seq(SUBSET Tx) /\ Len(chain') \in Nat /\ Len(chain) <= Len(chain')
           /\ \A h \in 1 .. Len(chain) : h \in 1 .. Len(chain') /\ chain'[h] = chain[h]
<1>1. chain \in Seq(SUBSET Tx) /\ Len(chain) \in Nat /\ storer.txs \in SUBSET Tx
  BY LenProperties DEF TypeOK
<1>2. CASE UNCHANGED chain
  BY <1>1, <1>2
<1>3. CASE SaveCommit
  <2>1. chain' = Append(chain, storer.txs)
    BY <1>3 DEF SaveCommit
  <2>2. /\ chain' \in Seq(SUBSET Tx) /\ Len(chain') = Len(chain) + 1
        /\ \A h \in 1 .. Len(chain) : chain'[h] = chain[h]
    BY <1>1, <2>1, AppendProperties
  <2> QED
    BY <1>1, <2>2
<1>4. CASE \E t \in Tx : Receive(t)
  BY <1>2, <1>4 DEF Receive, base
<1>5. CASE Pool \/ Age \/ Blocker
  BY <1>2, <1>5 DEF Pool, WorkCheck, WorkRoom, WorkPut, Age, Blocker, Collect, Pack, PackAgain, base
<1>6. CASE (\E me \in BOOLEAN : Vote(me)) \/ CreateBlock \/ UNCHANGED vars
  BY <1>2, <1>6 DEF Vote, CreateBlock, base, vars
<1>7. CASE BeginOwn \/ BeginOther
  BY <1>2, <1>7, BeginTx DEF Begin
<1>8. CASE SaveFail \/ RemoveTrans \/ SetStatus
  BY <1>2, <1>8 DEF SaveFail, RemoveTrans, SetStatus
<1>9. CASE Process
  BY <1>2, <1>9 DEF Process, SavePool, Stop, Start
<1> QED
  BY <1>3, <1>4, <1>5, <1>6, <1>7, <1>8, <1>9 DEF Next, Storager

\* Every step keeps the types.
LEMMA TypeStep ==
    ASSUME TypeOK, InvDown, InvPack, InvStorer, [Next]_vars
    PROVE  TypeOK'
<1> DEFINE PoolT == /\ pool \in Seq(Tx) /\ IsInjective(pool) /\ aged \subseteq ToSet(pool)
                    /\ saved \in Seq(Tx) /\ IsInjective(saved)
           SetT == mode \in Modes /\ status \in {"up", "leaving", "down"}
           EntryT == /\ tasks \in Seq(Tx)
                     /\ work \in [Worker -> [at : {"idle", "checked", "room"}, tx : SUBSET Tx]]
           ChainT == chain \in Seq(SUBSET Tx) /\ pe \in 1 .. Len(chain)
           DrawT == draw \in [on : 0 .. pe, me : BOOLEAN]
           PackT == /\ pack \in [at : {"idle", "collecting", "collected"}, start : Nat, txs : Seq(Tx), from : Nat]
                    /\ preblock \in [on : Nat, txs : Seq(Tx), from : Nat]
           BlocksT == blocks \subseteq [on : 1 .. pe, txs : Seq(Tx), from : 1 .. Len(chain)]
           StorerT == storer \in [at : {"idle", "open", "saved", "removed"}, txs : SUBSET Tx, kept : Seq(Tx)]
           CountT == counts \in [received : 0 .. MaxReceived, faults : 0 .. MaxFaults, stops : 0 .. MaxStops]
<1>0. PoolT /\ SetT /\ EntryT /\ ChainT /\ DrawT /\ PackT /\ BlocksT /\ StorerT /\ CountT
  BY DEF TypeOK
<1>1. PoolT'
  BY PoolType
<1>2. SetT'
  BY <1>0, BeginTx
  DEF Next, Receive, Pool, WorkCheck, WorkRoom, WorkPut, Age, Vote, CreateBlock, Blocker, Collect, Pack, PackAgain,
      Begin, Storager, SaveCommit, SaveFail, RemoveTrans, SetStatus, Process, SavePool, Stop, Start, vars
<1>3. EntryT'
  <2>1. CASE UNCHANGED <<tasks, work>>
    BY <1>0, <2>1
  <2>2. ASSUME NEW t \in Tx, Receive(t) PROVE EntryT'
    <3>1. tasks \in Seq(Tx) /\ work \in [Worker -> [at : {"idle", "checked", "room"}, tx : SUBSET Tx]]
      BY <1>0
    <3>2. tasks' = tasks \/ tasks' = Append(tasks, t)
      BY <2>2 DEF Receive
    <3>3. work' = work
      BY <2>2 DEF Receive
    <3> QED
      BY <3>1, <3>2, <3>3, AppendFacts
  <2>3. ASSUME NEW w \in Worker, WorkCheck(w) PROVE EntryT'
    <3>1. tasks' \in Seq(Tx) /\ Head(tasks) \in Tx
      BY <1>0, <2>3, HeadTailProperties DEF WorkCheck
    <3>2. work' = work \/ work' = [work EXCEPT ![w] = [at |-> "checked", tx |-> {Head(tasks)}]]
      BY <2>3 DEF WorkCheck
    <3> DEFINE T == [at : {"idle", "checked", "room"}, tx : SUBSET Tx]
               taken == [at |-> "checked", tx |-> {Head(tasks)}]
    <3>3. work \in [Worker -> T] /\ taken \in T
      BY <1>0, <3>1
    <3>4. work' = work \/ work' = [work EXCEPT ![w] = taken]
      BY <3>2
    <3> HIDE DEF T, taken
    <3>5. work' \in [Worker -> T]
      BY <3>3, <3>4
    <3> QED
      BY <3>1, <3>5 DEF T
  <2>4. ASSUME NEW w \in Worker, WorkRoom(w) \/ WorkPut(w) PROVE EntryT'
    <3> DEFINE T == [at : {"idle", "checked", "room"}, tx : SUBSET Tx]
    <3>1. work \in [Worker -> T] /\ tasks \in Seq(Tx) /\ tasks' = tasks
      BY <1>0, <2>4 DEF WorkRoom, WorkPut
    <3>2. Idle \in T /\ [work[w] EXCEPT !.at = "room"] \in T
      BY <3>1 DEF Idle
    <3> HIDE DEF T
    <3>3. work' = [work EXCEPT ![w] = Idle] \/ work' = [work EXCEPT ![w] = [work[w] EXCEPT !.at = "room"]]
      BY <2>4 DEF WorkRoom, WorkPut
    <3>4. work' \in [Worker -> T]
      BY <3>1, <3>2, <3>3
    <3> QED
      BY <3>1, <3>4 DEF T
  <2>5. CASE Stop
    BY <1>0, <2>5, EmptyFacts DEF Stop, Idle
  <2>6. CASE Age \/ CreateBlock \/ Blocker \/ (\E me \in BOOLEAN : Vote(me)) \/ UNCHANGED vars
    BY <2>1, <2>6 DEF Age, CreateBlock, Blocker, Collect, Pack, PackAgain, Vote, entry, vars
  <2>7. CASE BeginOwn \/ BeginOther
    BY <2>1, <2>7, BeginTx DEF Begin, entry
  <2>8. CASE Storager \/ SavePool \/ Start
    BY <2>1, <2>8 DEF Storager, SaveCommit, SaveFail, RemoveTrans, SetStatus, SavePool, Start, entry
  <2> QED
    BY <2>2, <2>3, <2>4, <2>5, <2>6, <2>7, <2>8 DEF Next, Pool, Process
<1>4. ChainT' /\ pe <= pe' /\ (pe' = pe \/ pe' = Len(chain'))
  <2>0. Len(chain) \in Nat
    BY <1>0, LenProperties
  <2>1. CASE UNCHANGED pe
    BY <1>0, <2>0, <2>1, ChainType
  <2>2. CASE SetStatus \/ Start
    <3>1. pe' = Len(chain) /\ chain' = chain
      BY <2>2 DEF SetStatus, Start
    <3> QED
      BY <1>0, <2>0, <3>1
  <2>3. CASE (\E t \in Tx : Receive(t)) \/ (\E me \in BOOLEAN : Vote(me)) \/ Pool \/ Age \/ CreateBlock
    BY <2>1, <2>3 DEF Receive, Vote, Pool, WorkCheck, WorkRoom, WorkPut, Age, CreateBlock, base
  <2>4. CASE Blocker \/ SaveCommit \/ SaveFail \/ RemoveTrans \/ SavePool \/ Stop \/ UNCHANGED vars
    BY <2>1, <2>4 DEF Blocker, Collect, Pack, PackAgain, SaveCommit, SaveFail, RemoveTrans, SavePool, Stop, base, vars
  <2>5. CASE BeginOwn \/ BeginOther
    BY <2>1, <2>5, BeginTx DEF Begin
  <2> QED
    BY <2>2, <2>3, <2>4, <2>5 DEF Next, Storager, Process
<1>5. pe \in Nat /\ pe' \in Nat /\ Len(chain) \in Nat /\ Len(chain') \in Nat
  BY <1>0, <1>4, LenProperties
<1>6. DrawT'
  <2>1. CASE UNCHANGED draw
    BY <1>0, <1>4, <1>5, <2>1, SMTT(40)
  <2>2. CASE Stop
    BY <1>5, <2>2 DEF Stop
  <2>3. ASSUME NEW me \in BOOLEAN, Vote(me) PROVE DrawT'
    BY <1>5, <2>3 DEF Vote, base
  <2>4. CASE (\E t \in Tx : Receive(t)) \/ Pool \/ Age \/ CreateBlock
    BY <2>1, <2>4 DEF Receive, Pool, WorkCheck, WorkRoom, WorkPut, Age, CreateBlock, block
  <2>5. CASE Blocker \/ Storager \/ SavePool \/ Start \/ UNCHANGED vars
    BY <2>1, <2>5 DEF Blocker, Collect, Pack, PackAgain, Storager, SaveCommit, SaveFail, RemoveTrans, SetStatus,
                      SavePool, Start, block, vars
  <2>6. CASE BeginOwn \/ BeginOther
    BY <2>1, <2>6, BeginTx DEF Begin, block
  <2> QED
    BY <2>2, <2>3, <2>4, <2>5, <2>6 DEF Next, Process
<1>7. PackT' /\ BlocksT'
  <2>0. \A b \in blocks : b \in [on : 1 .. pe', txs : Seq(Tx), from : 1 .. Len(chain')]
    <3>1. 1 .. pe \subseteq 1 .. pe' /\ 1 .. Len(chain) \subseteq 1 .. Len(chain')
      BY <1>4, <1>5, ChainType
    <3> QED
      BY <1>0, <3>1
  <2>1. CASE UNCHANGED <<pack, preblock, blocks>>
    BY <1>0, <2>0, <2>1
  <2>2. CASE Collect
    <3>1. Fitting(Page(pack.start, Limit)) \in Seq(Tx)
      BY <1>0, FittingFacts
    <3>2. pack.start + Limit \in Nat
      <4>1. pack.start \in Nat
        BY <1>0
      <4>2. Limit \in Nat
        BY PoolAssumption
      <4> QED
        BY <4>1, <4>2
    <3> DEFINE txs == Fitting(Page(pack.start, Limit))
    <3>3. \/ pack' = [pack EXCEPT !.start = pack.start + Limit]
          \/ pack' = [pack EXCEPT !.at = "collected", !.txs = txs, !.from = Len(chain)]
          \/ pack' = IdlePack
      BY <2>2 DEF Collect
    <3> HIDE DEF txs
    <3>4. pack' \in [at : {"idle", "collecting", "collected"}, start : Nat, txs : Seq(Tx), from : Nat]
      <4>1. pack \in [at : {"idle", "collecting", "collected"}, start : Nat, txs : Seq(Tx), from : Nat]
        BY <1>0
      <4>2. txs \in Seq(Tx) /\ <<>> \in Seq(Tx)
        BY <3>1, EmptyFacts DEF txs
      <4>3. CASE pack' = [pack EXCEPT !.start = pack.start + Limit]
        BY <3>2, <4>1, <4>3
      <4>4. CASE pack' = [pack EXCEPT !.at = "collected", !.txs = txs, !.from = Len(chain)]
        BY <1>5, <4>1, <4>2, <4>4
      <4>5. CASE pack' = IdlePack
        BY <4>2, <4>5 DEF IdlePack
      <4> QED
        BY <3>3, <4>3, <4>4, <4>5
    <3>5. UNCHANGED <<preblock, blocks>>
      BY <2>2 DEF Collect
    <3> QED
      BY <1>0, <2>0, <3>4, <3>5
  <2>3. CASE Pack
    <3>1. preblock' = [on |-> pe, txs |-> pack.txs, from |-> pack.from] /\ blocks' = blocks \cup {preblock'}
          /\ pack' = IdlePack /\ pe' = pe /\ chain' = chain /\ pack.from \in 1 .. Len(chain)
      BY <2>3 DEF Pack, base, InvPack
    <3>2. preblock' \in [on : 1 .. pe', txs : Seq(Tx), from : 1 .. Len(chain')]
      BY <1>0, <1>5, <3>1
    <3> QED
      BY <1>0, <1>5, <2>0, <3>1, <3>2, EmptyFacts DEF IdlePack
  <2>4. CASE PackAgain
    <3>1. pack.start + Len(pack.txs) \in Nat
      BY <1>0, LenProperties
    <3> QED
      BY <1>0, <2>0, <2>4, <3>1, EmptyFacts DEF PackAgain, IdlePack
  <2>5. CASE CreateBlock
    BY <1>0, <2>0, <2>5, EmptyFacts DEF CreateBlock, IdlePack
  <2>6. CASE Stop
    BY <1>0, <2>0, <2>6, EmptyFacts DEF Stop, IdlePack, NoBlock
  <2>7. CASE (\E t \in Tx : Receive(t)) \/ Pool \/ Age \/ (\E me \in BOOLEAN : Vote(me))
    BY <2>1, <2>7 DEF Receive, Pool, WorkCheck, WorkRoom, WorkPut, Age, Vote, block
  <2>8. CASE Storager \/ SavePool \/ Start \/ UNCHANGED vars
    BY <2>1, <2>8 DEF Storager, SaveCommit, SaveFail, RemoveTrans, SetStatus, SavePool, Start, block, vars
  <2>9. CASE BeginOwn \/ BeginOther
    BY <2>1, <2>9, BeginTx DEF Begin, block
  <2> QED
    BY <2>2, <2>3, <2>4, <2>5, <2>6, <2>7, <2>8, <2>9 DEF Next, Blocker, Process
<1>8. StorerT'
  <2>1. CASE UNCHANGED storer
    BY <1>0, <2>1
  <2>2. CASE (\E t \in Tx : Receive(t)) \/ Pool \/ Age \/ (\E me \in BOOLEAN : Vote(me)) \/ CreateBlock
    BY <2>1, <2>2 DEF Receive, Pool, WorkCheck, WorkRoom, WorkPut, Age, Vote, CreateBlock, base
  <2>3. CASE Blocker \/ Start \/ UNCHANGED vars
    BY <2>1, <2>3 DEF Blocker, Collect, Pack, PackAgain, Start, base, vars
  <2>4. CASE BeginOwn \/ BeginOther
    BY <1>0, <2>4, BeginTx, EmptyFacts DEF Begin, IdleStorer
  <2>5. CASE Storager \/ SavePool \/ Stop
    <3> DEFINE T == [at : {"idle", "open", "saved", "removed"}, txs : SUBSET Tx, kept : Seq(Tx)]
    <3>1. storer \in T /\ <<>> \in Seq(Tx) /\ pool \in Seq(Tx)
      BY <1>0, EmptyFacts
    <3>2. CASE storer' = IdleStorer
      BY <3>1, <3>2 DEF IdleStorer
    <3>3. CASE SaveCommit
      BY <3>1, <3>3 DEF SaveCommit
    <3>4. CASE RemoveTrans
      BY <3>1, <3>4 DEF RemoveTrans
    <3>5. CASE SavePool
      BY <3>1, <3>5 DEF SavePool
    <3>6. SaveFail \/ SetStatus \/ Stop => storer' = IdleStorer
      BY DEF SaveFail, SetStatus, Stop
    <3> QED
      BY <2>5, <3>2, <3>3, <3>4, <3>5, <3>6 DEF Storager
  <2> QED
    BY <2>2, <2>3, <2>4, <2>5 DEF Next, Process
<1>9. CountT'
  <2>1. CASE UNCHANGED counts
    BY <1>0, <2>1
  <2>2. CASE (\E t \in Tx : Receive(t)) \/ SaveFail \/ Stop
    BY <2>2, CountType DEF Receive, SaveFail, Stop
  <2>3. CASE Pool \/ Age \/ (\E me \in BOOLEAN : Vote(me)) \/ CreateBlock \/ Blocker
    BY <2>1, <2>3 DEF Pool, WorkCheck, WorkRoom, WorkPut, Age, Vote, CreateBlock, Blocker, Collect, Pack, PackAgain
  <2>4. CASE SaveCommit \/ RemoveTrans \/ SetStatus \/ SavePool \/ Start \/ UNCHANGED vars
    BY <2>1, <2>4 DEF SaveCommit, RemoveTrans, SetStatus, SavePool, Start, vars
  <2>5. CASE BeginOwn \/ BeginOther
    BY <2>1, <2>5, BeginTx DEF Begin
  <2> QED
    BY <2>2, <2>3, <2>4, <2>5 DEF Next, Storager, Process
<1> QED
  BY <1>1, <1>2, <1>3, <1>4, <1>6, <1>7, <1>8, <1>9 DEF TypeOK

-----------------------------------------------------------------------------
(* The other parts.                                                         *)

\* What is stored stays stored, under the same height.
LEMMA StoredGrows ==
    ASSUME TypeOK, [Next]_vars
    PROVE  /\ Stored \subseteq Stored'
           /\ \A h \in 0 .. Len(chain) : StoredTo(h)' = StoredTo(h)
<1>1. \A h \in 0 .. Len(chain) : StoredTo(h)' = StoredTo(h)
  <2> SUFFICES ASSUME NEW h \in 0 .. Len(chain) PROVE StoredTo(h)' = StoredTo(h)
    OBVIOUS
  <2>1. \A i \in 1 .. h : i \in 1 .. Len(chain)
    BY ChainType
  <2>2. \A i \in 1 .. h : chain'[i] = chain[i]
    BY <2>1, ChainType
  <2> QED
    BY <2>2 DEF StoredTo
<1>2. Stored \subseteq Stored'
  <2>1. \A i \in 1 .. Len(chain) : i \in 1 .. Len(chain') /\ chain'[i] = chain[i]
    BY ChainType
  <2> QED
    BY <2>1 DEF Stored, StoredTo
<1> QED
  BY <1>1, <1>2

\* While the node is down nothing runs: only Start can follow.
LEMMA DownStep ==
    ASSUME TypeOK, InvDown, [Next]_vars
    PROVE  InvDown'
<1> SUFFICES ASSUME status' = "down" PROVE InvDown'
  BY DEF InvDown
<1>1. CASE Stop
  BY <1>1 DEF Stop, InvDown, IdlePack, IdleStorer
<1>2. CASE status # "down" /\ ~Stop
  <2>1. CASE (\E t \in Tx : Receive(t)) \/ Pool \/ Age \/ (\E me \in BOOLEAN : Vote(me)) \/ CreateBlock
    BY <1>2, <2>1 DEF Receive, Pool, WorkCheck, WorkRoom, WorkPut, Age, Vote, CreateBlock
  <2>2. CASE Blocker \/ Storager \/ SavePool \/ Start \/ UNCHANGED vars
    BY <1>2, <2>2 DEF Blocker, Collect, Pack, PackAgain, Storager, SaveCommit, SaveFail, RemoveTrans, SetStatus,
                      SavePool, Start, vars
  <2>3. CASE BeginOwn \/ BeginOther
    BY <1>2, <2>3, BeginTx DEF Begin
  <2> QED
    BY <1>2, <2>1, <2>2, <2>3 DEF Next, Process
<1>3. CASE status = "down"
  <2>0. /\ pool = <<>> /\ aged = {} /\ tasks = <<>> /\ work = [w \in Worker |-> Idle]
        /\ pack.at = "idle" /\ storer.at = "idle"
    BY <1>3 DEF InvDown
  <2>1. ~Pool
    BY <2>0 DEF Pool, WorkCheck, WorkRoom, WorkPut, Idle
  <2>2. ~Age
    <3> DEFINE rest == Without(pool, aged)
    <3>1. rest \in Seq(Tx) /\ ToSet(rest) = {}
      BY <2>0, WithoutFacts, EmptyFacts
    <3> HIDE DEF rest
    <3>2. rest = <<>>
      <4>1. ASSUME rest # <<>> PROVE FALSE
        <5>1. 1 \in DOMAIN rest
          BY <3>1, <4>1
        <5> QED
          BY <3>1, <5>1 DEF ToSet
      <4> QED
        BY <4>1
    <3> QED
      BY <3>2 DEF Age, rest
  <2>3. ~Blocker /\ ~Storager /\ ~SavePool /\ ~Stop /\ ~Start /\ ~CreateBlock
    BY <1>3, <2>0 DEF Blocker, Collect, Pack, PackAgain, Storager, SaveCommit, SaveFail, RemoveTrans, SetStatus,
                      SavePool, Stop, Start, CreateBlock
  <2>4. (~\E t \in Tx : Receive(t)) /\ (~\E me \in BOOLEAN : Vote(me)) /\ ~(BeginOwn \/ BeginOther)
    BY <1>3, BeginTx DEF Receive, Vote, Begin
  <2>5. UNCHANGED vars
    BY <2>1, <2>2, <2>3, <2>4 DEF Next, Process
  <2> QED
    BY <2>0, <2>5 DEF InvDown, vars, entry, base, block
<1> QED
  BY <1>1, <1>2, <1>3

\* What was collected for a block stays fresh for the height it was collected at.
LEMMA PackStep ==
    ASSUME TypeOK, InvPack, [Next]_vars
    PROVE  InvPack'
<1>0. Len(chain) \in Nat /\ Len(chain) # 0 /\ Len(chain') \in Nat /\ Len(chain) <= Len(chain')
  BY ChainType, LenProperties, SMTT(40) DEF TypeOK
<1>1. CASE UNCHANGED pack
  <2> SUFFICES ASSUME pack.at = "collected" PROVE pack'.from \in 1 .. Len(chain') /\ ToSet(pack'.txs) \cap StoredTo(pack.from)' = {}
    BY <1>1 DEF InvPack, StoredTo
  <2>1. pack.from \in 1 .. Len(chain) /\ ToSet(pack.txs) \cap StoredTo(pack.from) = {}
    BY DEF InvPack
  <2>2. pack.from \in 1 .. Len(chain') /\ pack.from \in 0 .. Len(chain)
    BY <1>0, <2>1
  <2>3. StoredTo(pack.from)' = StoredTo(pack.from)
    <3>1. \A h \in 0 .. Len(chain) : UNION {chain'[i] : i \in 1 .. h} = UNION {chain[i] : i \in 1 .. h}
      BY StoredGrows DEF StoredTo
    <3>2. UNION {chain'[i] : i \in 1 .. pack.from} = UNION {chain[i] : i \in 1 .. pack.from}
      BY <2>2, <3>1
    <3> QED
      BY <1>1, <3>2 DEF StoredTo
  <2> QED
    BY <1>1, <2>1, <2>2, <2>3
<1>2. CASE Collect
  <2> DEFINE txs == Fitting(Page(pack.start, Limit))
  <2>1. ToSet(txs) \cap Stored = {}
    BY FittingFacts DEF TypeOK
  <2>2. chain' = chain
    BY <1>2 DEF Collect, base
  <2>3. \/ pack' = [pack EXCEPT !.start = @ + Limit]
        \/ pack' = [pack EXCEPT !.at = "collected", !.txs = txs, !.from = Len(chain)]
        \/ pack' = IdlePack
    BY <1>2 DEF Collect
  <2>4. pack.at = "collecting"
    BY <1>2 DEF Collect
  <2> HIDE DEF txs
  <2>5. pack'.at = "collected" => pack'.txs = txs /\ pack'.from = Len(chain)
    <3>1. pack \in [at : {"idle", "collecting", "collected"}, start : Nat, txs : Seq(Tx), from : Nat]
      BY DEF TypeOK
    <3>2. CASE pack' = [pack EXCEPT !.start = @ + Limit]
      BY <2>4, <3>1, <3>2
    <3>3. CASE pack' = [pack EXCEPT !.at = "collected", !.txs = txs, !.from = Len(chain)]
      BY <3>1, <3>3
    <3>4. CASE pack' = IdlePack
      BY <3>4 DEF IdlePack
    <3> QED
      BY <2>3, <3>2, <3>3, <3>4
  <2> QED
    BY <1>0, <2>1, <2>2, <2>5 DEF InvPack, Stored, StoredTo
<1>3. CASE Pack \/ PackAgain \/ CreateBlock \/ Stop
  <2>1. CASE PackAgain \/ CreateBlock
    <3>1. pack'.at = "collecting"
      BY <2>1 DEF PackAgain, CreateBlock, IdlePack
    <3> QED
      BY <3>1 DEF InvPack
  <2>2. CASE Pack \/ Stop
    <3>1. pack'.at = "idle"
      BY <2>2 DEF Pack, Stop, IdlePack
    <3> QED
      BY <3>1 DEF InvPack
  <2> QED
    BY <1>3, <2>1, <2>2
<1>4. CASE (\E t \in Tx : Receive(t)) \/ Pool \/ Age \/ (\E me \in BOOLEAN : Vote(me))
  BY <1>1, <1>4 DEF Receive, Pool, WorkCheck, WorkRoom, WorkPut, Age, Vote, block
<1>5. CASE Storager \/ SavePool \/ Start \/ UNCHANGED vars
  BY <1>1, <1>5 DEF Storager, SaveCommit, SaveFail, RemoveTrans, SetStatus, SavePool, Start, block, vars
<1>6. CASE BeginOwn \/ BeginOther
  BY <1>1, <1>6, BeginTx DEF Begin, block
<1> QED
  BY <1>2, <1>3, <1>4, <1>5, <1>6 DEF Next, Blocker, Process

\* What the storager removes is stored, and what it keeps to be saved is a pool.
LEMMA StorerStep ==
    ASSUME TypeOK, InvStorer, [Next]_vars
    PROVE  InvStorer'
<1>0. storer \in [at : {"idle", "open", "saved", "removed"}, txs : SUBSET Tx, kept : Seq(Tx)]
  BY DEF TypeOK
<1>1. CASE UNCHANGED storer
  BY <1>1, StoredGrows DEF InvStorer
<1>2. CASE storer' = IdleStorer
  BY <1>2, EmptyFacts DEF InvStorer, IdleStorer
<1>3. CASE SaveCommit
  <2>1. chain' = Append(chain, storer.txs) /\ storer' = [storer EXCEPT !.at = "saved", !.kept = <<>>]
    BY <1>3 DEF SaveCommit
  <2>2. /\ Len(chain) \in Nat /\ Len(chain') = Len(chain) + 1
        /\ chain'[Len(chain) + 1] = storer.txs
    BY <1>0, <2>1, AppendProperties, LenProperties DEF TypeOK
  <2>3. Len(chain) + 1 \in 1 .. Len(chain')
    BY <2>2
  <2>4. storer.txs \subseteq Stored'
    BY <2>2, <2>3 DEF Stored, StoredTo
  <2>5. storer'.txs = storer.txs /\ storer'.kept = <<>>
    BY <1>0, <2>1
  <2> QED
    BY <2>4, <2>5, EmptyFacts DEF InvStorer
<1>4. CASE RemoveTrans
  <2>1. storer.at = "saved" /\ storer'.txs = storer.txs /\ storer'.kept = storer.kept
    BY <1>0, <1>4 DEF RemoveTrans
  <2> QED
    BY <2>1, StoredGrows DEF InvStorer
<1>5. CASE SavePool
  <2>1. CASE storer' = [storer EXCEPT !.kept = pool]
    <3>1. storer'.at = storer.at /\ storer'.txs = storer.txs /\ storer'.kept = pool /\ IsInjective(pool)
      BY <1>0, <2>1 DEF TypeOK
    <3> QED
      BY <3>1, StoredGrows DEF InvStorer
  <2> QED
    BY <1>1, <1>5, <2>1 DEF SavePool
<1>6. CASE SaveFail \/ SetStatus \/ Stop
  BY <1>2, <1>6 DEF SaveFail, SetStatus, Stop
<1>7. CASE BeginOwn \/ BeginOther
  <2>1. storer'.at = "open" /\ storer'.kept = <<>>
    BY <1>7, BeginTx DEF Begin, IdleStorer
  <2> QED
    BY <2>1, EmptyFacts DEF InvStorer
<1>8. CASE (\E t \in Tx : Receive(t)) \/ Pool \/ Age \/ (\E me \in BOOLEAN : Vote(me)) \/ CreateBlock
  BY <1>1, <1>8 DEF Receive, Pool, WorkCheck, WorkRoom, WorkPut, Age, Vote, CreateBlock, base
<1>9. CASE Blocker \/ Start \/ UNCHANGED vars
  BY <1>1, <1>9 DEF Blocker, Collect, Pack, PackAgain, Start, base, vars
<1> QED
  BY <1>3, <1>4, <1>5, <1>6, <1>7, <1>8, <1>9 DEF Next, Storager, Process

\* A block of Me stays as fresh as it was when it was packed.
LEMMA FreshStep ==
    ASSUME TypeOK, InvPack, FreshUnlessOvertaken, [Next]_vars
    PROVE  FreshUnlessOvertaken'
<1>0. Len(chain) \in Nat
  BY LenProperties DEF TypeOK
<1>1. \A h \in 1 .. Len(chain) : UNION {chain'[i] : i \in 1 .. h} = UNION {chain[i] : i \in 1 .. h}
  <2>1. \A h \in 1 .. Len(chain) : h \in 0 .. Len(chain)
    BY <1>0
  <2> QED
    BY <2>1, StoredGrows DEF StoredTo
<1>2. \A b \in blocks : ToSet(b.txs) \cap UNION {chain'[i] : i \in 1 .. b.from} = {}
  <2>1. \A b \in blocks : b.from \in 1 .. Len(chain)
    BY DEF TypeOK
  <2> QED
    BY <1>1, <2>1 DEF FreshUnlessOvertaken, StoredTo
<1>3. CASE UNCHANGED blocks
  BY <1>2, <1>3 DEF FreshUnlessOvertaken, StoredTo
<1>4. CASE Pack
  <2>1. /\ blocks' = blocks \cup {preblock'} /\ preblock' = [on |-> draw.on, txs |-> pack.txs, from |-> pack.from]
        /\ pack.at = "collected"
    BY <1>4 DEF Pack
  <2>2. preblock'.txs = pack.txs /\ preblock'.from = pack.from
    BY <2>1
  <2>3. ToSet(pack.txs) \cap UNION {chain'[i] : i \in 1 .. pack.from} = {}
    BY <1>1, <2>1 DEF InvPack, StoredTo
  <2>4. \A b \in blocks' : ToSet(b.txs) \cap UNION {chain'[i] : i \in 1 .. b.from} = {}
    BY <1>2, <2>1, <2>2, <2>3
  <2> QED
    BY <2>4 DEF FreshUnlessOvertaken, StoredTo
<1>5. CASE (\E t \in Tx : Receive(t)) \/ Pool \/ Age \/ (\E me \in BOOLEAN : Vote(me)) \/ CreateBlock
  BY <1>3, <1>5 DEF Receive, Pool, WorkCheck, WorkRoom, WorkPut, Age, Vote, CreateBlock, block
<1>6. CASE Collect \/ PackAgain \/ Storager \/ Process \/ UNCHANGED vars
  BY <1>3, <1>6 DEF Collect, PackAgain, Storager, SaveCommit, SaveFail, RemoveTrans, SetStatus,
                    Process, SavePool, Stop, Start, block, vars
<1>7. CASE BeginOwn \/ BeginOther
  BY <1>3, <1>7, BeginTx DEF Begin, block
<1> QED
  BY <1>4, <1>5, <1>6, <1>7 DEF Next, Blocker

-----------------------------------------------------------------------------
(* The size of the pool.                                                    *)

\* The mode is a setting.
LEMMA ModeKept == ASSUME TypeOK, [Next]_vars PROVE mode' = mode
<1>1. CASE (\E t \in Tx : Receive(t)) \/ Pool \/ Age \/ (\E me \in BOOLEAN : Vote(me)) \/ CreateBlock
  BY <1>1 DEF Receive, Pool, WorkCheck, WorkRoom, WorkPut, Age, Vote, CreateBlock
<1>2. CASE Blocker \/ Storager \/ Process \/ UNCHANGED vars
  BY <1>2 DEF Blocker, Collect, Pack, PackAgain, Storager, SaveCommit, SaveFail, RemoveTrans, SetStatus,
              Process, SavePool, Stop, Start, vars
<1>3. CASE BeginOwn \/ BeginOther
  BY <1>3, BeginTx DEF Begin
<1> QED
  BY <1>1, <1>2, <1>3 DEF Next

\* How many threads are about to put.
LEMMA AtRoomFacts ==
    /\ IsFiniteSet(Worker) /\ Cardinality(Worker) \in Nat
    /\ \A S \in SUBSET Worker : /\ IsFiniteSet(S) /\ Cardinality(S) \in Nat /\ Cardinality(S) <= Cardinality(Worker)
                                /\ \A w \in S : Cardinality(S \ {w}) = Cardinality(S) - 1
<1>1. IsFiniteSet(Worker) /\ Cardinality(Worker) \in Nat
  BY PoolAssumption, FS_CardinalityType
<1>2. ASSUME NEW S \in SUBSET Worker
      PROVE  /\ IsFiniteSet(S) /\ Cardinality(S) \in Nat /\ Cardinality(S) <= Cardinality(Worker)
             /\ \A w \in S : Cardinality(S \ {w}) = Cardinality(S) - 1
  <2>1. IsFiniteSet(S) /\ Cardinality(S) <= Cardinality(Worker)
    BY <1>1, FS_Subset
  <2> QED
    BY <2>1, FS_CardinalityType, FS_RemoveElement
<1> QED
  BY <1>1, <1>2

\* The lengths of the pools, before and after a step.
LEMMA Lengths ==
    ASSUME TypeOK, InvDown, InvStorer, [Next]_vars
    PROVE  /\ Len(pool) \in Nat /\ Len(saved) \in Nat /\ Len(storer.kept) \in Nat
           /\ Len(pool') \in Nat /\ Len(saved') \in Nat
<1>1. pool \in Seq(Tx) /\ saved \in Seq(Tx) /\ storer.kept \in Seq(Tx) /\ pool' \in Seq(Tx) /\ saved' \in Seq(Tx)
  BY PoolType DEF TypeOK
<1> QED
  BY <1>1, LenProperties

\* A pool that is saved, or kept to be saved, is one there was.
LEMMA SavedFrom ==
    ASSUME TypeOK, InvDown, InvStorer, [Next]_vars
    PROVE  /\ saved' \in {pool, saved, storer.kept, <<>>}
           /\ storer'.kept \in {pool, storer.kept, <<>>}
<1>0. storer \in [at : {"idle", "open", "saved", "removed"}, txs : SUBSET Tx, kept : Seq(Tx)]
  BY DEF TypeOK
<1>1. CASE UNCHANGED <<saved, storer>>
  BY <1>1
<1>2. CASE UNCHANGED saved /\ storer' = IdleStorer
  BY <1>2 DEF IdleStorer
<1>3. CASE SaveCommit
  BY <1>0, <1>3 DEF SaveCommit
<1>4. CASE RemoveTrans
  BY <1>0, <1>4 DEF RemoveTrans
<1>5. CASE SavePool
  <2>1. CASE storer' = [storer EXCEPT !.kept = pool] /\ UNCHANGED saved
    BY <1>0, <2>1
  <2>2. CASE UNCHANGED storer /\ saved' = pool
    BY <2>2
  <2> QED
    BY <1>1, <1>5, <2>1, <2>2 DEF SavePool
<1>6. CASE SaveFail \/ SetStatus \/ Stop
  BY <1>2, <1>6 DEF SaveFail, SetStatus, Stop
<1>7. CASE BeginOwn \/ BeginOther
  BY <1>7, BeginTx DEF Begin, IdleStorer
<1>8. CASE (\E t \in Tx : Receive(t)) \/ Pool \/ Age \/ (\E me \in BOOLEAN : Vote(me)) \/ CreateBlock
  BY <1>1, <1>8 DEF Receive, Pool, WorkCheck, WorkRoom, WorkPut, Age, Vote, CreateBlock, base
<1>9. CASE Blocker \/ UNCHANGED vars
  BY <1>1, <1>9 DEF Blocker, Collect, Pack, PackAgain, base, vars
<1>10. CASE Start
  BY <1>10 DEF Start
<1> QED
  BY <1>3, <1>4, <1>5, <1>6, <1>7, <1>8, <1>9, <1>10 DEF Next, Storager, Process

\* The pool filled by its actor alone.
LEMMA PoolModeStep ==
    ASSUME TypeOK, InvDown, InvStorer, InvLimit, [Next]_vars, MaxCache > 0, mode = "pool"
    PROVE  /\ tasks' = <<>> /\ work' = [w \in Worker |-> Idle]
           /\ \A s \in {pool', saved', storer'.kept} : Len(s) <= MaxCache
<1>0. /\ tasks = <<>> /\ work = [w \in Worker |-> Idle] /\ MaxCache \in Nat
      /\ Len(pool) <= MaxCache /\ Len(saved) <= MaxCache /\ Len(storer.kept) <= MaxCache
  BY PoolAssumption DEF InvLimit
<1>1. Len(saved') <= MaxCache /\ Len(storer'.kept) <= MaxCache
  <2>1. \A s \in {pool, saved, storer.kept, <<>>} : Len(s) <= MaxCache
    BY <1>0, EmptyFacts
  <2> QED
    BY <2>1, SavedFrom
<1>2. ~Pool
  BY <1>0 DEF Pool, WorkCheck, WorkRoom, WorkPut, Idle
<1>3. tasks' = <<>> /\ work' = [w \in Worker |-> Idle]
  <2>1. CASE UNCHANGED <<tasks, work>>
    BY <1>0, <2>1
  <2>2. CASE \E t \in Tx : Receive(t)
    BY <1>0, <2>2 DEF Receive
  <2>3. CASE Stop
    BY <2>3 DEF Stop
  <2>4. CASE Age \/ (\E me \in BOOLEAN : Vote(me)) \/ CreateBlock \/ Blocker
    BY <2>1, <2>4 DEF Age, Vote, CreateBlock, Blocker, Collect, Pack, PackAgain, entry
  <2>5. CASE BeginOwn \/ BeginOther
    BY <2>1, <2>5, BeginTx DEF Begin, entry
  <2>6. CASE Storager \/ SavePool \/ Start \/ UNCHANGED vars
    BY <2>1, <2>6 DEF Storager, SaveCommit, SaveFail, RemoveTrans, SetStatus, SavePool, Start, entry, vars
  <2> QED
    BY <1>2, <2>2, <2>3, <2>4, <2>5, <2>6 DEF Next, Process
<1>4. Len(pool') <= MaxCache
  <2>1. CASE UNCHANGED pool
    BY <1>0, <2>1
  <2>2. ASSUME NEW t \in Tx, Receive(t) PROVE Len(pool') <= MaxCache
    <3>1. pool' = pool \/ (Len(pool) < MaxCache /\ pool' = PutTran(pool, t))
      BY <1>0, <2>2 DEF Receive, HasRoom
    <3>2. pool \in Seq(Tx)
      BY DEF TypeOK
    <3>3. Len(PutTran(pool, t)) <= Len(pool) + 1 /\ PutTran(pool, t) \in Seq(Tx)
      BY <3>2, PutTranFacts
    <3>4. Len(pool) \in Nat /\ Len(PutTran(pool, t)) \in Nat
      BY <3>2, <3>3, LenProperties
    <3> QED
      BY <1>0, <3>1, <3>3, <3>4
  <2>3. ASSUME NEW S, pool' = Without(pool, S) PROVE Len(pool') <= MaxCache
    <3>1. Len(pool') <= Len(pool)
      BY <2>3, WithoutFacts DEF TypeOK
    <3> QED
      BY <1>0, <3>1, Lengths
  <2>4. CASE Collect
    BY <2>3, <2>4 DEF Collect
  <2>5. CASE RemoveTrans
    BY <2>3, <2>5 DEF RemoveTrans
  <2>6. CASE Stop
    BY <1>0, <2>6, EmptyFacts DEF Stop
  <2>7. CASE Start
    BY <1>0, <2>7 DEF Start
  <2>8. CASE Age \/ (\E me \in BOOLEAN : Vote(me)) \/ CreateBlock \/ Pack \/ PackAgain
    BY <2>1, <2>8 DEF Age, Vote, CreateBlock, Pack, PackAgain
  <2>9. CASE BeginOwn \/ BeginOther
    BY <2>1, <2>9, BeginTx DEF Begin
  <2>10. CASE SaveCommit \/ SaveFail \/ SetStatus \/ SavePool \/ UNCHANGED vars
    BY <2>1, <2>10 DEF SaveCommit, SaveFail, SetStatus, SavePool, vars
  <2> QED
    BY <1>2, <2>2, <2>4, <2>5, <2>6, <2>7, <2>8, <2>9, <2>10 DEF Next, Blocker, Storager, Process
<1> QED
  BY <1>1, <1>3, <1>4

\* The pool filled by threads.
LEMMA WorkerModeStep ==
    ASSUME TypeOK, InvDown, InvStorer, InvLimit, [Next]_vars, MaxCache > 0, mode = "worker"
    PROVE  /\ Len(pool') + Cardinality(AtRoom') <= MaxCache + Cardinality(Worker) - 1
           /\ \A s \in {saved', storer'.kept} : Len(s) <= MaxCache + Cardinality(Worker) - 1
<1> DEFINE max == MaxCache + Cardinality(Worker) - 1
           room == Cardinality(AtRoom)
           W == Cardinality(Worker)
<1>0. /\ MaxCache \in Nat /\ MaxCache > 0 /\ W \in Nat /\ max \in Nat /\ max = MaxCache + W - 1
      /\ room \in Nat /\ room <= W
      /\ Len(pool) + room <= max /\ Len(saved) <= max /\ Len(storer.kept) <= max
  <2>1. AtRoom \in SUBSET Worker
    BY DEF AtRoom
  <2> QED
    BY <2>1, AtRoomFacts, PoolAssumption DEF InvLimit
<1>1. /\ Len(pool) \in Nat /\ Len(pool') \in Nat
      /\ pool \in Seq(Tx) /\ work \in [Worker -> [at : {"idle", "checked", "room"}, tx : SUBSET Tx]]
  BY Lengths DEF TypeOK
<1>2. Len(saved') <= max /\ Len(storer'.kept) <= max
  <2>1. Len(pool) <= max
    BY <1>0, <1>1
  <2>2. \A s \in {pool, saved, storer.kept, <<>>} : Len(s) <= max
    BY <1>0, <2>1, EmptyFacts
  <2> QED
    BY <2>2, SavedFrom
<1>3. Len(pool') + Cardinality(AtRoom') <= max
  <2>1. ASSUME Len(pool') <= Len(pool), AtRoom' = AtRoom PROVE Len(pool') + Cardinality(AtRoom') <= max
    BY <1>0, <1>1, <2>1
  <2>2. CASE UNCHANGED <<pool, work>>
    <3>1. AtRoom' = AtRoom
      BY <2>2 DEF AtRoom
    <3>2. Len(pool') <= Len(pool)
      BY <1>1, <2>2
    <3> QED
      BY <2>1, <3>1, <3>2
  <2>3. ASSUME NEW S, pool' = Without(pool, S), UNCHANGED work PROVE Len(pool') + Cardinality(AtRoom') <= max
    <3>1. AtRoom' = AtRoom
      BY <2>3 DEF AtRoom
    <3>2. Len(pool') <= Len(pool)
      BY <1>1, <2>3, WithoutFacts
    <3> QED
      BY <2>1, <3>1, <3>2
  <2>4. ASSUME NEW t \in Tx, Receive(t) PROVE Len(pool') + Cardinality(AtRoom') <= max
    BY <2>2, <2>4 DEF Receive
  <2>5. ASSUME NEW w \in Worker, WorkCheck(w) PROVE Len(pool') + Cardinality(AtRoom') <= max
    <3>1. work[w].at # "room" /\ work'[w].at # "room" /\ \A v \in Worker \ {w} : work'[v] = work[v]
      BY <1>1, <2>5 DEF WorkCheck
    <3>2. AtRoom' = AtRoom
      BY <3>1 DEF AtRoom
    <3>3. Len(pool') <= Len(pool)
      BY <1>1, <2>5 DEF WorkCheck
    <3> QED
      BY <2>1, <3>2, <3>3
  <2>6. ASSUME NEW w \in Worker, WorkRoom(w) PROVE Len(pool') + Cardinality(AtRoom') <= max
    <3>1. CASE HasRoom
      <4>1. Len(pool') <= MaxCache - 1
        BY <1>0, <1>1, <2>6, <3>1 DEF HasRoom, WorkRoom
      <4>2. Cardinality(AtRoom') \in Nat /\ Cardinality(AtRoom') <= W
        <5>1. AtRoom' \in SUBSET Worker
          BY DEF AtRoom
        <5> QED
          BY <5>1, AtRoomFacts
      <4> QED
        BY <1>0, <1>1, <4>1, <4>2
    <3>2. CASE ~HasRoom
      <4>1. work[w].at = "checked" /\ work'[w].at = "idle" /\ \A v \in Worker \ {w} : work'[v] = work[v]
        BY <1>1, <2>6, <3>2 DEF WorkRoom, Idle
      <4>2. AtRoom' = AtRoom
        BY <4>1 DEF AtRoom
      <4>3. Len(pool') <= Len(pool)
        BY <1>1, <2>6 DEF WorkRoom
      <4> QED
        BY <2>1, <4>2, <4>3
    <3> QED
      BY <3>1, <3>2
  <2>7. ASSUME NEW w \in Worker, WorkPut(w) PROVE Len(pool') + Cardinality(AtRoom') <= max
    <3>1. work[w].at = "room" /\ work'[w].at = "idle" /\ \A v \in Worker \ {w} : work'[v] = work[v]
      BY <1>1, <2>7 DEF WorkPut, Idle
    <3>2. w \in AtRoom /\ AtRoom' = AtRoom \ {w} /\ AtRoom \in SUBSET Worker
      BY <3>1 DEF AtRoom
    <3>3. Cardinality(AtRoom') = room - 1
      BY <3>2, AtRoomFacts
    <3>4. Len(pool') <= Len(pool) + 1
      <4>1. PICK t \in Tx : pool' = PutTran(pool, t)
        BY <1>1, <2>7 DEF WorkPut
      <4> QED
        BY <1>1, <4>1, PutTranFacts
    <3> QED
      BY <1>0, <1>1, <3>3, <3>4
  <2>8. CASE Collect
    BY <2>3, <2>8 DEF Collect, entry
  <2>9. CASE RemoveTrans
    BY <2>3, <2>9 DEF RemoveTrans, entry
  <2>10. CASE Stop
    <3>1. AtRoom' = {} /\ Len(pool') = 0
      BY <2>10, EmptyFacts DEF Stop, AtRoom, Idle
    <3> QED
      BY <1>0, <3>1, FS_EmptySet
  <2>11. CASE Start
    <3>1. work' = [w \in Worker |-> Idle] /\ pool' = saved
      BY <2>11 DEF Start, InvDown, entry
    <3>2. AtRoom' = {}
      BY <3>1 DEF AtRoom, Idle
    <3>3. Cardinality(AtRoom') = 0
      BY <3>2, FS_EmptySet
    <3> QED
      BY <1>0, <1>1, <3>1, <3>3
  <2>12. CASE Age \/ (\E me \in BOOLEAN : Vote(me)) \/ CreateBlock \/ Pack \/ PackAgain
    BY <2>2, <2>12 DEF Age, Vote, CreateBlock, Pack, PackAgain, entry
  <2>13. CASE BeginOwn \/ BeginOther
    BY <2>2, <2>13, BeginTx DEF Begin, entry
  <2>14. CASE SaveCommit \/ SaveFail \/ SetStatus \/ SavePool \/ UNCHANGED vars
    BY <2>2, <2>14 DEF SaveCommit, SaveFail, SetStatus, SavePool, entry, vars
  <2> QED
    BY <2>4, <2>5, <2>6, <2>7, <2>8, <2>9, <2>10, <2>11, <2>12, <2>13, <2>14
    DEF Next, Pool, Blocker, Storager, Process
<1> QED
  BY <1>2, <1>3

\* Saved pools and threads that have seen room keep to the limit in every step.
LEMMA LimitStep ==
    ASSUME TypeOK, InvDown, InvStorer, InvLimit, [Next]_vars
    PROVE  InvLimit'
  BY PoolModeStep, WorkerModeStep, ModeKept DEF InvLimit
-----------------------------------------------------------------------------
(* Theorems.                                                                *)

LEMMA InitInv == Init => IInv
<1> SUFFICES ASSUME Init PROVE IInv
  OBVIOUS
<1>1. TypeOK
  BY InitType
<1>2. InvDown
  BY DEF Init, InvDown
<1>3. InvPack
  BY DEF Init, InvPack, IdlePack
<1>4. InvStorer
  BY EmptyFacts DEF Init, InvStorer, IdleStorer
<1>5. FreshUnlessOvertaken
  BY DEF Init, FreshUnlessOvertaken
<1>6. InvLimit
  <2>1. pool = <<>> /\ saved = <<>> /\ storer.kept = <<>> /\ tasks = <<>> /\ work = [w \in Worker |-> Idle]
    BY DEF Init, IdleStorer
  <2>2. AtRoom = {}
    BY <2>1 DEF AtRoom, Idle
  <2>3. Cardinality(AtRoom) = 0
    BY <2>2, FS_EmptySet
  <2>4. MaxCache \in Nat /\ Cardinality(Worker) \in Nat
    BY PoolAssumption, AtRoomFacts
  <2> QED
    BY <2>1, <2>3, <2>4, EmptyFacts DEF InvLimit
<1> QED
  BY <1>1, <1>2, <1>3, <1>4, <1>5, <1>6 DEF IInv

LEMMA StepInv == IInv /\ [Next]_vars => IInv'
  BY TypeStep, DownStep, PackStep, StorerStep, LimitStep, FreshStep DEF IInv

\* The inductive invariant holds in every reachable state.
THEOREM InvariantHolds == Spec => []IInv
  BY InitInv, StepInv, PTL DEF Spec

\* Every variable keeps its type, and no pool, in use or saved, holds a transaction
\* twice, for every number of threads and every setting (putTran, removeTrans,
\* saveTransaction, readTransaction).
THEOREM TypeCorrect == Spec => []TypeOK
<1>1. IInv => TypeOK
  BY DEF IInv
<1> QED
  BY <1>1, InvariantHolds, PTL

\* The pool outgrows max_cache_num by no more than one transaction for every thread
\* but one, over all shutdowns and starts (TransactionPoolWorker.DoWork).
THEOREM PoolBounded == Spec => []PoolWithinLimit
<1>1. IInv => PoolWithinLimit
  <2> SUFFICES ASSUME IInv, MaxCache > 0
               PROVE  Len(pool) <= IF mode = "pool" THEN MaxCache ELSE MaxCache + Cardinality(Worker) - 1
    BY DEF PoolWithinLimit
  <2>1. CASE mode = "pool"
    BY <2>1 DEF IInv, InvLimit
  <2>2. CASE mode = "worker"
    <3>1. AtRoom \in SUBSET Worker
      BY DEF AtRoom
    <3>2. Cardinality(AtRoom) \in Nat /\ Cardinality(Worker) \in Nat /\ MaxCache \in Nat
      BY <3>1, AtRoomFacts, PoolAssumption
    <3>3. Len(pool) \in Nat
      BY LenProperties DEF IInv, TypeOK
    <3>4. Len(pool) + Cardinality(AtRoom) <= MaxCache + Cardinality(Worker) - 1
      BY <2>2 DEF IInv, InvLimit
    <3>5. Len(pool) <= MaxCache + Cardinality(Worker) - 1
      BY <3>2, <3>3, <3>4
    <3> QED
      BY <2>2, <3>5
  <2>3. mode \in {"pool", "worker"}
    BY PoolAssumption DEF IInv, TypeOK
  <2> QED
    BY <2>1, <2>2, <2>3
<1> QED
  BY <1>1, InvariantHolds, PTL

\* A block of the node repeats nothing that was stored when it was collected,
\* whatever threads put back and the storager commits meanwhile
\* (CollectedTransOfBlock, PackedBlock).
THEOREM FreshBlocks == Spec => []FreshUnlessOvertaken
<1>1. IInv => FreshUnlessOvertaken
  BY DEF IInv
<1> QED
  BY <1>1, InvariantHolds, PTL

\* While the node runs, what a step takes from the pool is stored or has waited too
\* long.
LEMMA LeaveStep ==
    ASSUME IInv, [Next]_vars, status' # "down"
    PROVE  ToSet(pool) \ ToSet(pool') \subseteq Stored' \cup aged
<1>0. pool \in Seq(Tx) /\ Stored \subseteq Stored'
  BY StoredGrows DEF IInv, TypeOK
<1>1. CASE ToSet(pool) \subseteq ToSet(pool')
  BY <1>1
<1>2. ASSUME NEW S \in SUBSET (Stored \cup aged), pool' = Without(pool, S)
      PROVE  ToSet(pool) \ ToSet(pool') \subseteq Stored' \cup aged
  BY <1>0, <1>2, WithoutFacts
<1>3. CASE UNCHANGED pool
  BY <1>1, <1>3
<1>4. ASSUME NEW t \in Tx, Receive(t) PROVE ToSet(pool) \subseteq ToSet(pool')
  BY <1>0, <1>4, PutTranFacts DEF Receive
<1>5. ASSUME NEW w \in Worker, WorkPut(w) PROVE ToSet(pool) \subseteq ToSet(pool')
  <2>1. PICK t \in work[w].tx : pool' = PutTran(pool, t)
    BY <1>5 DEF WorkPut
  <2>2. t \in Tx
    BY <1>5 DEF IInv, TypeOK
  <2> QED
    BY <1>0, <2>1, <2>2, PutTranFacts
<1>6. CASE Collect
  <2>1. pool' = Without(pool, Purged(pack.start, Limit))
    BY <1>6 DEF Collect
  <2> QED
    BY <1>2, <2>1, PurgedFacts
<1>7. CASE RemoveTrans
  <2>1. pool' = Without(pool, storer.txs) /\ storer.txs \subseteq Stored
    BY <1>7 DEF RemoveTrans, IInv, InvStorer
  <2> QED
    BY <1>2, <2>1
<1>8. CASE Start
  BY <1>8, EmptyFacts DEF Start, IInv, InvDown
<1>9. ~Stop
  BY DEF Stop
<1>10. CASE Pool
  BY <1>1, <1>3, <1>5, <1>10 DEF Pool, WorkCheck, WorkRoom
<1>11. CASE Age \/ (\E me \in BOOLEAN : Vote(me)) \/ CreateBlock \/ Pack \/ PackAgain
  BY <1>3, <1>11 DEF Age, Vote, CreateBlock, Pack, PackAgain
<1>12. CASE BeginOwn \/ BeginOther
  BY <1>3, <1>12, BeginTx DEF Begin, IInv
<1>13. CASE SaveCommit \/ SaveFail \/ SetStatus \/ SavePool \/ UNCHANGED vars
  BY <1>3, <1>13 DEF SaveCommit, SaveFail, SetStatus, SavePool, vars
<1>14. CASE \E t \in Tx : Receive(t)
  BY <1>1, <1>4, <1>14
<1> QED
  BY <1>6, <1>7, <1>8, <1>9, <1>10, <1>11, <1>12, <1>13, <1>14 DEF Next, Blocker, Storager, Process

\* No transaction is lost: while the node runs, it leaves the pool only if it is in
\* the database or has waited too long (getTransListClone, removeTrans).
THEOREM LeavesAreStoredOrAged == Spec => LeavesStoredOrAged
<1>1. IInv /\ [Next]_vars =>
        [status' # "down" => ToSet(pool) \ ToSet(pool') \subseteq Stored' \cup aged]_vars
  BY LeaveStep
<1> QED
  BY <1>1, InvariantHolds, PTL DEF Spec, LeavesStoredOrAged
=============================================================================
