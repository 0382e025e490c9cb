--------------------------- MODULE Preload_proofs ---------------------------
(***************************************************************************)
(* Proofs about Preload, for every set of preloaders, contracts and blocks, *)
(* every content of the blocks and every world state to begin with.         *)
(***************************************************************************)
EXTENDS Preload, SequenceTheorems, FiniteSetTheorems, NaturalsInduction, TLAPS

-----------------------------------------------------------------------------
(* Numbers, and the two recursions of the model.                            *)

\* A non-empty set of numbers has a least one.
LEMMA Least == ASSUME NEW T \in SUBSET Nat, T # {} PROVE \E x \in T : \A y \in T : x <= y
<1>1. IsWellFoundedOn(OpToRel(<, Nat), Nat)
  BY NatLessThanWellFounded
<1>2. PICK x \in T : \A y \in T : <<y, x>> \notin OpToRel(<, Nat)
  BY <1>1, WFMin
<1>3. \A y \in T : (y < x) => <<y, x>> \in OpToRel(<, Nat)
  <2> SUFFICES ASSUME NEW y \in T, y < x PROVE <<y, x>> \in OpToRel(<, Nat)
    OBVIOUS
  <2>1. x \in Nat /\ y \in Nat
    OBVIOUS
  <2> QED
    BY <2>1, Zenon DEF OpToRel
<1>4. \A y \in T : ~(y < x)
  BY <1>2, <1>3
<1> QED
  BY <1>4

\* Induction up to a bound, over the set of numbers for which something holds.
LEMMA UpTo ==
    ASSUME NEW n \in Nat, NEW T, 0 \in T, \A i \in 0 .. n : i < n /\ i \in T => i + 1 \in T
    PROVE  \A i \in 0 .. n : i \in T
<1> DEFINE Bad == {i \in 0 .. n : i \notin T}
<1> SUFFICES ASSUME Bad # {} PROVE FALSE
  OBVIOUS
<1>1. Bad \in SUBSET Nat
  OBVIOUS
<1>2. PICK x \in Bad : \A y \in Bad : x <= y
  BY <1>1, Least
<1>3. x \in Nat /\ x # 0 /\ x <= n /\ x \notin T
  BY <1>2
<1>4. x - 1 \in 0 .. n /\ x - 1 < n /\ ~(x <= x - 1) /\ (x - 1) + 1 = x
  BY <1>3
<1>5. x - 1 \in T
  BY <1>2, <1>4
<1> QED
  BY <1>3, <1>4, <1>5

\* The greatest of some numbers up to a bound.
LEMMA MaxFacts ==
    ASSUME NEW n \in Nat, NEW S \in SUBSET (0 .. n), S # {}
    PROVE  Max(S) \in S /\ Max(S) \in Nat /\ \A x \in S : x <= Max(S)
<1> DEFINE T == {n - x : x \in S}
<1>0. \A x \in S : x \in Nat /\ n - x \in Nat
  OBVIOUS
<1>1. T \in SUBSET Nat /\ T # {}
  BY <1>0
<1>2. PICK t \in T : \A u \in T : t <= u
  BY <1>1, Least
<1>3. PICK m \in S : t = n - m
  BY <1>2
<1>4. \A x \in S : m >= x
  <2> TAKE x \in S
  <2>1. n - x \in T
    OBVIOUS
  <2>2. n - m <= n - x
    BY <1>2, <1>3, <2>1
  <2> QED
    BY <2>2
<1>5. Max(S) \in S /\ \A x \in S : Max(S) >= x
  BY <1>3, <1>4 DEF Max
<1>6. \A x \in S : Max(S) \in Nat /\ (Max(S) >= x => x <= Max(S))
  BY <1>0, <1>5
<1> QED
  BY <1>5, <1>6

\* The logs of the first results, for every number of them.
LogsUpTo(rs) ==
    LET upTo[i \in 0 .. Len(rs)] == IF i = 0 THEN <<>> ELSE upTo[i - 1] \o rs[i].ol
    IN  upTo

LEMMA LogsDef ==
    ASSUME NEW rs, Len(rs) \in Nat
    PROVE  /\ Logs(rs) = LogsUpTo(rs)[Len(rs)]
           /\ LogsUpTo(rs)[0] = <<>>
           /\ \A i \in 1 .. Len(rs) : LogsUpTo(rs)[i] = LogsUpTo(rs)[i - 1] \o rs[i].ol
<1> DEFINE Up(g, k) == [i \in 0 .. k |-> IF i = 0 THEN <<>> ELSE g[i - 1] \o rs[i].ol]
           T == {k \in 0 .. Len(rs) : \E g : g = Up(g, k)}
<1>1. 0 \in T
  <2> DEFINE g == [i \in 0 .. 0 |-> <<>>]
  <2>1. g = Up(g, 0)
    OBVIOUS
  <2>2. \E f : f = Up(f, 0)
    BY <2>1
  <2> HIDE DEF Up
  <2> QED
    BY <2>2
<1>2. \A k \in 0 .. Len(rs) : k < Len(rs) /\ k \in T => k + 1 \in T
  <2> SUFFICES ASSUME NEW k \in 0 .. Len(rs), k < Len(rs), k \in T PROVE k + 1 \in T
    OBVIOUS
  <2>1. PICK g : g = Up(g, k)
    OBVIOUS
  <2> DEFINE h == [i \in 0 .. k + 1 |-> IF i <= k THEN g[i] ELSE g[k] \o rs[k + 1].ol]
  <2>2. \A i \in 0 .. k + 1 : h[i] = IF i = 0 THEN <<>> ELSE h[i - 1] \o rs[i].ol
    <3> TAKE i \in 0 .. k + 1
    <3>1. CASE i = 0
      BY <2>1, <3>1
    <3>2. CASE i # 0 /\ i <= k
      <4>1. i \in 0 .. k /\ i - 1 \in 0 .. k + 1 /\ i - 1 <= k
        BY <3>2
      <4>2. g[i] = g[i - 1] \o rs[i].ol
        BY <2>1, <3>2, <4>1
      <4> QED
        BY <3>2, <4>1, <4>2
    <3>3. CASE i = k + 1
      <4>1. i - 1 = k /\ k \in 0 .. k + 1 /\ k <= k /\ ~(i <= k) /\ i # 0
        BY <3>3
      <4>2. h[i] = g[k] \o rs[k + 1].ol /\ h[k] = g[k]
        BY <4>1
      <4> QED
        BY <3>3, <4>1, <4>2
    <3> QED
      BY <3>1, <3>2, <3>3
  <2>3. h = Up(h, k + 1)
    <3> HIDE DEF h
    <3>1. h = [i \in 0 .. k + 1 |-> h[i]]
      BY DEF h
    <3> QED
      BY <2>2, <3>1
  <2>4. k + 1 \in 0 .. Len(rs)
    OBVIOUS
  <2> HIDE DEF Up, h
  <2>5. \E f : f = Up(f, k + 1)
    BY <2>3
  <2> QED
    BY <2>4, <2>5
<1>3. Len(rs) \in T
  <2> HIDE DEF T
  <2>1. \A i \in 0 .. Len(rs) : i \in T
    BY <1>1, <1>2, UpTo
  <2> QED
    BY <2>1
<1> DEFINE f == LogsUpTo(rs)
<1>4. f = CHOOSE g : g = Up(g, Len(rs))
  BY DEF LogsUpTo
<1>5. f = Up(f, Len(rs))
  BY <1>3, <1>4
<1>6. Logs(rs) = f[Len(rs)]
  BY DEF Logs, LogsUpTo
<1> HIDE DEF f
<1> QED
  BY <1>5, <1>6 DEF f

\* The reference after each of its transactions.
Start0(w) == [rs |-> <<>>, view |-> w, cls |-> [c \in Contract |-> None], mode |-> "none"]
IsolatedUpTo(w, b) ==
    LET after[i \in 0 .. Len(Txs[b])] ==
            IF i = 0 THEN [rs |-> <<>>, view |-> w, cls |-> [c \in Contract |-> None], mode |-> "none"]
            ELSE IsolatedStep(w, Txs[b], after[i - 1], i)
    IN  after

LEMMA IsolatedDef ==
    ASSUME NEW w, NEW b \in Block
    PROVE  /\ Isolated(w, b) = IsolatedUpTo(w, b)[Len(Txs[b])]
           /\ IsolatedUpTo(w, b)[0] = Start0(w)
           /\ \A i \in 1 .. Len(Txs[b]) :
                 IsolatedUpTo(w, b)[i] = IsolatedStep(w, Txs[b], IsolatedUpTo(w, b)[i - 1], i)
<1> DEFINE n == Len(Txs[b])
           Up(g, k) == [i \in 0 .. k |-> IF i = 0 THEN Start0(w) ELSE IsolatedStep(w, Txs[b], g[i - 1], i)]
           T == {k \in 0 .. n : \E g : g = Up(g, k)}
<1>0. n \in Nat
  BY PreloadAssumption, LenProperties
<1> HIDE DEF n
<1>1. 0 \in T
  <2> DEFINE g == [i \in 0 .. 0 |-> Start0(w)]
  <2>1. g = Up(g, 0)
    OBVIOUS
  <2>2. \E f : f = Up(f, 0)
    BY <2>1
  <2> HIDE DEF Up
  <2> QED
    BY <1>0, <2>2
<1>2. \A k \in 0 .. n : k < n /\ k \in T => k + 1 \in T
  <2> SUFFICES ASSUME NEW k \in 0 .. n, k < n, k \in T PROVE k + 1 \in T
    OBVIOUS
  <2>1. PICK g : g = Up(g, k)
    OBVIOUS
  <2> DEFINE h == [i \in 0 .. k + 1 |-> IF i <= k THEN g[i] ELSE IsolatedStep(w, Txs[b], g[k], k + 1)]
  <2>2. \A i \in 0 .. k + 1 : h[i] = IF i = 0 THEN Start0(w) ELSE IsolatedStep(w, Txs[b], h[i - 1], i)
    <3> TAKE i \in 0 .. k + 1
    <3>1. CASE i = 0
      BY <1>0, <2>1, <3>1
    <3>2. CASE i # 0 /\ i <= k
      <4>1. i \in 0 .. k /\ i - 1 \in 0 .. k + 1 /\ i - 1 <= k
        BY <1>0, <3>2
      <4>2. g[i] = IsolatedStep(w, Txs[b], g[i - 1], i)
        BY <2>1, <3>2, <4>1
      <4> QED
        BY <3>2, <4>1, <4>2
    <3>3. CASE i = k + 1
      <4>1. i - 1 = k /\ k \in 0 .. k + 1 /\ k <= k /\ ~(i <= k) /\ i # 0
        BY <1>0, <3>3
      <4>2. h[i] = IsolatedStep(w, Txs[b], g[k], k + 1) /\ h[k] = g[k]
        BY <4>1
      <4> QED
        BY <3>3, <4>1, <4>2
    <3> QED
      BY <1>0, <3>1, <3>2, <3>3
  <2>3. h = Up(h, k + 1)
    <3> HIDE DEF h
    <3>1. h = [i \in 0 .. k + 1 |-> h[i]]
      BY DEF h
    <3> QED
      BY <2>2, <3>1
  <2>4. k + 1 \in 0 .. n
    BY <1>0
  <2> HIDE DEF Up, h
  <2>5. \E f : f = Up(f, k + 1)
    BY <2>3
  <2> QED
    BY <2>4, <2>5
<1>3. n \in T
  <2> HIDE DEF T
  <2>1. \A i \in 0 .. n : i \in T
    BY <1>0, <1>1, <1>2, UpTo
  <2> QED
    BY <1>0, <2>1
<1> DEFINE f == IsolatedUpTo(w, b)
<1>4. f = CHOOSE g : g = Up(g, n)
  BY DEF IsolatedUpTo, n, Start0
<1>5. f = Up(f, n)
  BY <1>3, <1>4
<1>6. Isolated(w, b) = f[n]
  BY DEF Isolated, IsolatedUpTo, n
<1> HIDE DEF f
<1>7. /\ f[0] = Start0(w) /\ 0 \in 0 .. n
      /\ \A i \in 1 .. n : f[i] = IsolatedStep(w, Txs[b], f[i - 1], i)
  BY <1>0, <1>5
<1> QED
  BY <1>6, <1>7 DEF f, n

\* The logs of one more result come after the others.
LEMMA LogsAppend ==
    ASSUME NEW S, NEW rs \in Seq(S), NEW r \in S
    PROVE  Logs(<<>>) = <<>> /\ Logs(Append(rs, r)) = Logs(rs) \o r.ol
<1>1. Logs(<<>>) = <<>>
  <2>1. Len(<<>>) = 0 /\ 0 \in Nat
    OBVIOUS
  <2> QED
    BY <2>1, LogsDef
<1> DEFINE more == Append(rs, r)
           n == Len(rs)
<1>2. /\ n \in Nat /\ Len(more) = n + 1 /\ Len(more) \in Nat
      /\ \A i \in 1 .. n : more[i] = rs[i]
      /\ more[n + 1] = r
  BY AppendProperties, LenProperties
<1> HIDE DEF more
<1> DEFINE T == {i \in 0 .. n : LogsUpTo(more)[i] = LogsUpTo(rs)[i]}
<1>3. /\ \A i \in 1 .. n : LogsUpTo(rs)[i] = LogsUpTo(rs)[i - 1] \o rs[i].ol
      /\ LogsUpTo(rs)[0] = <<>> /\ Logs(rs) = LogsUpTo(rs)[n]
  BY <1>2, LogsDef
<1>4. /\ \A i \in 1 .. n + 1 : LogsUpTo(more)[i] = LogsUpTo(more)[i - 1] \o more[i].ol
      /\ LogsUpTo(more)[0] = <<>> /\ Logs(more) = LogsUpTo(more)[n + 1]
  BY <1>2, LogsDef
<1> HIDE DEF n
<1>5. 0 \in T
  BY <1>2, <1>3, <1>4
<1>6. \A i \in 0 .. n : i < n /\ i \in T => i + 1 \in T
  <2> SUFFICES ASSUME NEW i \in 0 .. n, i < n, i \in T PROVE i + 1 \in T
    OBVIOUS
  <2>1. i + 1 \in 1 .. n /\ i + 1 \in 1 .. n + 1 /\ i + 1 \in 0 .. n /\ (i + 1) - 1 = i
    BY <1>2
  <2>2. LogsUpTo(rs)[i + 1] = LogsUpTo(rs)[i] \o rs[i + 1].ol
    BY <1>3, <2>1
  <2>3. LogsUpTo(more)[i + 1] = LogsUpTo(more)[i] \o more[i + 1].ol
    BY <1>4, <2>1
  <2> QED
    BY <1>2, <2>1, <2>2, <2>3
<1>7. n \in T
  <2> HIDE DEF T
  <2>1. \A i \in 0 .. n : i \in T
    BY <1>2, <1>5, <1>6, UpTo
  <2> QED
    BY <1>2, <2>1
<1>8. n + 1 \in 1 .. n + 1 /\ (n + 1) - 1 = n
  BY <1>2
<1>9. LogsUpTo(more)[n + 1] = LogsUpTo(more)[n] \o more[n + 1].ol
  BY <1>4, <1>8
<1>10. Logs(more) = Logs(rs) \o r.ol
  BY <1>2, <1>3, <1>4, <1>7, <1>9
<1> QED
  BY <1>1, <1>10 DEF more

-----------------------------------------------------------------------------
(* Values, logs and worlds.                                                 *)

LEMMA KeyFacts ==
    /\ \A c \in Contract : /\ <<"tx", c>> \in Key /\ Values(<<"tx", c>>) = {None} \cup Nat
                           /\ <<"state", c>> \in Key /\ Values(<<"state", c>>) = {None} \cup BOOLEAN
                           /\ Name[c] \in Names
    /\ \A n \in Names : /\ <<"coder", n>> \in Key /\ Values(<<"coder", n>>) = {None} \cup Signers
                        /\ <<"data", n>> \in Key /\ Values(<<"data", n>>) = {None} \cup Nat
                        /\ <<"points", n>> \in Key /\ Values(<<"points", n>>) = {None} \cup Nat
                        /\ <<"bare", n>> \in Key /\ Values(<<"bare", n>>) = {None} \cup Nat
  BY DEF Key, Values, Names

LEMMA LogFacts == \A l \in OperLogs : /\ l.key \in Key /\ l.oldValue \in Values(l.key) /\ l.newValue \in Values(l.key)
<1> SUFFICES ASSUME NEW l \in OperLogs
             PROVE  l.key \in Key /\ l.oldValue \in Values(l.key) /\ l.newValue \in Values(l.key)
  OBVIOUS
<1>1. CASE l \in LogsOn({"state"} \X Contract, BOOLEAN)
  BY <1>1 DEF LogsOn, Key, Values
<1>2. CASE l \in LogsOn({"coder"} \X Names, Signers)
  BY <1>2 DEF LogsOn, Key, Values
<1>3. CASE l \in LogsOn(({"tx"} \X Contract) \cup ({"data", "points", "bare"} \X Names), Nat)
  BY <1>3 DEF LogsOn, Key, Values
<1> QED
  BY <1>1, <1>2, <1>3 DEF OperLogs

LEMMA OperLogFacts ==
    ASSUME NEW k \in Key, NEW old \in Values(k), NEW new \in Values(k)
    PROVE  OperLog(k, old, new) \in OperLogs
<1>1. CASE k \in {"state"} \X Contract
  BY <1>1 DEF LogsOn, OperLogs, OperLog, Values
<1>2. CASE k \in {"coder"} \X Names
  BY <1>2 DEF LogsOn, OperLogs, OperLog, Values
<1>3. CASE k \in ({"tx"} \X Contract) \cup ({"data", "points", "bare"} \X Names)
  BY <1>3 DEF LogsOn, OperLogs, OperLog, Values
<1> QED
  BY <1>1, <1>2, <1>3 DEF Key

\* The last operation on a key.
LEMMA LastOnFacts ==
    ASSUME NEW S, NEW ol \in Seq(S), NEW k
    PROVE  /\ LastOn(k, ol) \in 0 .. Len(ol)
           /\ LastOn(k, ol) # 0 => ol[LastOn(k, ol)].key = k
           /\ \A i \in 1 .. Len(ol) : ol[i].key = k => i <= LastOn(k, ol)
<1> DEFINE on == {i \in DOMAIN ol : ol[i].key = k}
<1>1. Len(ol) \in Nat /\ DOMAIN ol = 1 .. Len(ol)
  BY LenProperties
<1>2. {0} \cup on \in SUBSET (0 .. Len(ol)) /\ {0} \cup on # {}
  BY <1>1
<1>3. /\ Max({0} \cup on) \in {0} \cup on
      /\ \A x \in {0} \cup on : x <= Max({0} \cup on)
  <2> HIDE DEF on
  <2> QED
    BY <1>1, <1>2, MaxFacts
<1>4. LastOn(k, ol) = Max({0} \cup on)
  BY DEF LastOn
<1> DEFINE m == LastOn(k, ol)
<1>5. m \in {0} \cup on /\ \A x \in {0} \cup on : x <= m
  BY <1>3, <1>4
<1> HIDE DEF m
<1>6. m \in 0 .. Len(ol) /\ (m # 0 => ol[m].key = k)
  BY <1>1, <1>5
<1>7. \A i \in 1 .. Len(ol) : ol[i].key = k => i <= m
  BY <1>1, <1>5
<1> QED
  BY <1>6, <1>7 DEF m

\* A world whose values some logs replace is a world.
LEMMA ApplyType ==
    ASSUME NEW w, IsWorld(w), NEW ol \in Seq(OperLogs)
    PROVE  IsWorld(Apply(w, ol)) /\ IsWorld(Undo(w, ol))
<1>1. Len(ol) \in Nat /\ \A i \in 1 .. Len(ol) : ol[i] \in OperLogs
  BY LenProperties, ElementOfSeq
<1>2. DOMAIN w = Key /\ \A k \in Key : w[k] \in Values(k)
  BY DEF IsWorld
<1>3. ASSUME NEW k \in Key, LastOn(k, ol) # 0
      PROVE  ol[LastOn(k, ol)].newValue \in Values(k) /\ ol[LastOn(k, ol)].oldValue \in Values(k)
  <2>1. LastOn(k, ol) \in 1 .. Len(ol) /\ ol[LastOn(k, ol)].key = k
    BY <1>1, <1>3, LastOnFacts
  <2> QED
    BY <1>1, <2>1, LogFacts
<1>4. IsWorld(Apply(w, ol))
  BY <1>2, <1>3 DEF IsWorld, Apply
<1>5. IsWorld(Undo(w, ol))
  BY <1>2, <1>3 DEF IsWorld, Undo
<1> QED
  BY <1>4, <1>5

\* A part of a world: what an overlay holds.
IsPart(o) == \A k \in DOMAIN o : k \in Key /\ o[k] \in Values(k)

LEMMA OverType ==
    ASSUME NEW o, IsPart(o), NEW w, IsWorld(w)
    PROVE  IsWorld(Over(o, w))
<1>1. DOMAIN w = Key /\ DOMAIN o \subseteq Key /\ \A k \in Key : w[k] \in Values(k)
  BY DEF IsPart, IsWorld
<1>2. Over(o, w) = [k \in Key |-> IF k \in DOMAIN o THEN o[k] ELSE w[k]]
  BY <1>1 DEF Over
<1> QED
  BY <1>1, <1>2 DEF IsPart, IsWorld

-----------------------------------------------------------------------------
(* One transaction.                                                         *)

LEMMA TxFacts ==
    \A tx \in Transactions :
        /\ tx.op \in Op /\ tx.cid \in Contract /\ Name[tx.cid] \in Names
        /\ tx.code \in Nat \ {0} /\ tx.enable \in BOOLEAN /\ tx.signer \in Signers
  BY PreloadAssumption DEF Signers, Names

LEMMA SumType == \A old \in {None} \cup Nat, code \in Nat : Sum(old, code) \in Nat
  BY DEF Sum

\* What a transaction writes: values of their keys, each under a key of its own.
LEMMA WritesFacts ==
    ASSUME NEW tx \in Transactions, NEW view, IsWorld(view), NEW code \in Nat \cup {None},
           tx.op \in Invokes => code \in Nat
    PROVE  LET ol == Writes(tx, view, code) IN
           /\ ol \in Seq(OperLogs)
           /\ \A i \in DOMAIN ol : PutKey(tx, ol[i]) \in Key /\ ol[i].newValue \in Values(PutKey(tx, ol[i]))
           /\ \A i, j \in DOMAIN ol : PutKey(tx, ol[i]) = PutKey(tx, ol[j]) => i = j
           /\ \A i, j \in DOMAIN ol : ol[i].key = ol[j].key => i = j
<1> DEFINE ol == Writes(tx, view, code)
           c == tx.cid
           n == Name[tx.cid]
<1>0. /\ c \in Contract /\ n \in Names /\ tx.op \in Op /\ tx.code \in Nat /\ tx.enable \in BOOLEAN
      /\ tx.signer \in Signers
  BY TxFacts
<1>1. \A k \in Key : view[k] \in Values(k)
  BY DEF IsWorld
<1>2. CASE tx.op = "deploy"
  <2> DEFINE l1 == OperLog(<<"tx", c>>, None, tx.code)
             l2 == OperLog(<<"state", c>>, None, TRUE)
             l3 == OperLog(<<"coder", n>>, None, tx.signer)
  <2>1. ol = <<l1, l2, l3>>
    BY <1>2 DEF Writes, Deploy
  <2>2. l1 \in OperLogs /\ l2 \in OperLogs /\ l3 \in OperLogs
    BY <1>0, KeyFacts, OperLogFacts
  <2>3. l1.key = <<"tx", c>> /\ l2.key = <<"state", c>> /\ l3.key = <<"coder", n>>
    BY DEF OperLog
  <2>4. l1.key # l2.key /\ l1.key # l3.key /\ l2.key # l3.key
    <3>1. <<"tx", c>> # <<"state", c>> /\ <<"tx", c>> # <<"coder", n>> /\ <<"state", c>> # <<"coder", n>>
      OBVIOUS
    <3> HIDE DEF l1, l2, l3
    <3> QED
      BY <2>3, <3>1
  <2>5. \A l : PutKey(tx, l) = l.key
    BY <1>2 DEF PutKey
  <2> HIDE DEF l1, l2, l3, ol
  <2>6. ol \in Seq(OperLogs) /\ DOMAIN ol = 1 .. 3 /\ ol[1] = l1 /\ ol[2] = l2 /\ ol[3] = l3
    BY <2>1, <2>2
  <2>7. \A i, j \in 1 .. 3 : ol[i].key = ol[j].key => i = j
    BY <2>4, <2>6
  <2>8. \A i \in DOMAIN ol : ol[i] \in OperLogs
    BY <2>2, <2>6
  <2> QED
    BY <2>5, <2>6, <2>7, <2>8, LogFacts DEF ol
<1>3. ASSUME NEW l \in OperLogs, ol = <<l>>, PutKey(tx, l) \in Key /\ l.newValue \in Values(PutKey(tx, l))
      PROVE  /\ ol \in Seq(OperLogs)
             /\ \A i \in DOMAIN ol : PutKey(tx, ol[i]) \in Key /\ ol[i].newValue \in Values(PutKey(tx, ol[i]))
             /\ \A i, j \in DOMAIN ol : PutKey(tx, ol[i]) = PutKey(tx, ol[j]) => i = j
             /\ \A i, j \in DOMAIN ol : ol[i].key = ol[j].key => i = j
  <2> HIDE DEF ol
  <2>1. ol \in Seq(OperLogs) /\ DOMAIN ol = {1} /\ ol[1] = l
    BY <1>3
  <2> QED
    BY <1>3, <2>1
<1>4. CASE tx.op = "state"
  <2> DEFINE l == OperLog(<<"state", c>>, tx.enable, tx.enable)
  <2>1. ol = <<l>>
    BY <1>4 DEF Writes, SetState
  <2>2. l \in OperLogs
    BY <1>0, KeyFacts, OperLogFacts
  <2>3. PutKey(tx, l) = l.key
    BY <1>4 DEF PutKey
  <2> HIDE DEF l, ol
  <2> QED
    BY <1>3, <2>1, <2>2, <2>3, LogFacts DEF ol
<1>5. CASE tx.op = "points"
  <2> DEFINE old == view[<<"points", n>>]
             l == OperLog(<<"bare", n>>, old, Sum(old, code))
  <2>1. ol = <<l>>
    BY <1>5 DEF Writes, SetPoints
  <2>2. old \in {None} \cup Nat
    BY <1>0, <1>1, KeyFacts
  <2>3. Sum(old, code) \in Nat
    BY <1>5, <2>2, SumType DEF Invokes
  <2>4. l \in OperLogs
    BY <1>0, <2>2, <2>3, KeyFacts, OperLogFacts
  <2>5. PutKey(tx, l) = <<"points", n>> /\ l.newValue = Sum(old, code)
    BY <1>5 DEF PutKey, OperLog
  <2>6. PutKey(tx, l) \in Key /\ l.newValue \in Values(PutKey(tx, l))
    BY <1>0, <2>3, <2>5, KeyFacts
  <2> HIDE DEF l, ol
  <2> QED
    BY <1>3, <2>1, <2>4, <2>6 DEF ol
<1>6. CASE tx.op \in {"invoke", "throw"}
  <2> DEFINE old == view[<<"data", n>>]
             l == OperLog(<<"data", n>>, old, Sum(old, code))
  <2>1. ol = <<l>>
    BY <1>6 DEF Writes, SetVal
  <2>2. old \in {None} \cup Nat
    BY <1>0, <1>1, KeyFacts
  <2>3. Sum(old, code) \in Nat
    BY <1>6, <2>2, SumType DEF Invokes
  <2>4. l \in OperLogs
    BY <1>0, <2>2, <2>3, KeyFacts, OperLogFacts
  <2>5. PutKey(tx, l) = l.key
    BY <1>6 DEF PutKey
  <2> HIDE DEF l, ol
  <2> QED
    BY <1>3, <2>1, <2>4, <2>5, LogFacts DEF ol
<1> QED
  BY <1>0, <1>2, <1>4, <1>5, <1>6 DEF Op, Invokes

\* The result of a transaction: what it wrote, or a refusal.
LEMMA ExecuteFacts ==
    ASSUME NEW tx \in Transactions, NEW view, IsWorld(view), NEW code \in Nat \cup {None}, NEW w, NEW mode
    PROVE  LET r == Execute(tx, view, w, mode, code) IN
           /\ r \in Results
           /\ r.code = 0 => /\ r.ol = Writes(tx, view, code) /\ Checked(tx, view, w, mode)
                            /\ tx.op # "throw" /\ (tx.op \in Invokes => code \in Nat)
           /\ r.code # 0 => r.ol = <<>> /\ r.code \in {101, 102}
           /\ r.code = 101 <=> ~Checked(tx, view, w, mode)
<1> DEFINE r == Execute(tx, view, w, mode, code)
<1>0. <<>> \in Seq(OperLogs)
  OBVIOUS
<1>1. CASE ~Checked(tx, view, w, mode)
  <2>1. r = Refusal(101)
    BY <1>1 DEF Execute
  <2> HIDE DEF r
  <2> QED
    BY <1>0, <1>1, <2>1 DEF Refusal, Results, r
<1>2. CASE Checked(tx, view, w, mode) /\ (tx.op = "throw" \/ (tx.op \in Invokes /\ code = None))
  <2>1. r = Refusal(102)
    BY <1>2 DEF Execute
  <2> HIDE DEF r
  <2> QED
    BY <1>0, <1>2, <2>1 DEF Refusal, Results, r
<1>3. CASE Checked(tx, view, w, mode) /\ ~(tx.op = "throw" \/ (tx.op \in Invokes /\ code = None))
  <2>1. r = [code |-> 0, ol |-> Writes(tx, view, code)]
    BY <1>3 DEF Execute
  <2>2. tx.op \in Invokes => code \in Nat
    BY <1>3
  <2>3. Writes(tx, view, code) \in Seq(OperLogs)
    BY <2>2, WritesFacts
  <2> HIDE DEF r
  <2> QED
    BY <1>3, <2>1, <2>2, <2>3 DEF Results, r
<1> QED
  BY <1>1, <1>2, <1>3

LEMMA LoadedType ==
    ASSUME NEW cls \in [Contract -> Nat \cup {None}], NEW w, IsWorld(w), NEW tx \in Transactions
    PROVE  Loaded(cls, tx, w) \in Nat \cup {None}
  BY TxFacts, KeyFacts DEF Loaded, IsWorld

\* What a result puts into an overlay: each value under its key.
LEMMA PutsFacts ==
    ASSUME NEW tx, NEW ol \in Seq(OperLogs),
           \A i \in DOMAIN ol : PutKey(tx, ol[i]) \in Key /\ ol[i].newValue \in Values(PutKey(tx, ol[i])),
           \A i, j \in DOMAIN ol : PutKey(tx, ol[i]) = PutKey(tx, ol[j]) => i = j
    PROVE  /\ IsPart(Puts(tx, ol))
           /\ DOMAIN Puts(tx, ol) = {PutKey(tx, ol[i]) : i \in DOMAIN ol}
           /\ \A i \in DOMAIN ol : Puts(tx, ol)[PutKey(tx, ol[i])] = ol[i].newValue
<1>1. DOMAIN Puts(tx, ol) = {PutKey(tx, ol[i]) : i \in DOMAIN ol}
  BY DEF Puts
<1>2. \A i \in DOMAIN ol : Puts(tx, ol)[PutKey(tx, ol[i])] = ol[i].newValue
  <2> TAKE i \in DOMAIN ol
  <2> DEFINE k == PutKey(tx, ol[i])
             j == CHOOSE j \in DOMAIN ol : PutKey(tx, ol[j]) = k
  <2>1. j \in DOMAIN ol /\ PutKey(tx, ol[j]) = k
    OBVIOUS
  <2>2. j = i
    BY <2>1
  <2>3. Puts(tx, ol)[k] = ol[j].newValue
    BY DEF Puts
  <2> QED
    BY <2>2, <2>3
<1> QED
  BY <1>1, <1>2 DEF IsPart

\* A refusal puts nothing.
LEMMA PutsNothing == ASSUME NEW tx, NEW w, IsWorld(w) PROVE Over(Puts(tx, <<>>), w) = w
<1>1. DOMAIN Puts(tx, <<>>) = {}
  BY DEF Puts
<1> QED
  BY <1>1 DEF Over, IsWorld

LEMMA DoorType ==
    ASSUME NEW known, NEW tx, NEW view, NEW w
    PROVE  Door(known, tx, view, w) \in {"leveldb", "refused", "snapshot"}
  BY DEF Door

\* The logs of results are logs.
LEMMA LogsType == ASSUME NEW rs \in Seq(Results) PROVE Logs(rs) \in Seq(OperLogs)
<1> DEFINE n == Len(rs)
           T == {i \in 0 .. n : LogsUpTo(rs)[i] \in Seq(OperLogs)}
<1>1. n \in Nat /\ \A i \in 1 .. n : rs[i] \in Results
  BY LenProperties, ElementOfSeq
<1>2. /\ \A i \in 1 .. n : LogsUpTo(rs)[i] = LogsUpTo(rs)[i - 1] \o rs[i].ol
      /\ LogsUpTo(rs)[0] = <<>> /\ Logs(rs) = LogsUpTo(rs)[n]
  BY <1>1, LogsDef
<1> HIDE DEF n
<1>3. 0 \in T
  <2>1. <<>> \in Seq(OperLogs) /\ 0 \in 0 .. n
    BY <1>1
  <2> QED
    BY <1>2, <2>1
<1>4. \A i \in 0 .. n : i < n /\ i \in T => i + 1 \in T
  <2> SUFFICES ASSUME NEW i \in 0 .. n, i < n, i \in T PROVE i + 1 \in T
    OBVIOUS
  <2>1. i + 1 \in 1 .. n /\ i + 1 \in 0 .. n /\ (i + 1) - 1 = i
    BY <1>1
  <2>2. LogsUpTo(rs)[i + 1] = LogsUpTo(rs)[i] \o rs[i + 1].ol
    BY <1>2, <2>1
  <2>3. rs[i + 1].ol \in Seq(OperLogs) /\ LogsUpTo(rs)[i] \in Seq(OperLogs)
    BY <1>1, <2>1 DEF Results
  <2>4. LogsUpTo(rs)[i + 1] \in Seq(OperLogs)
    BY <2>2, <2>3
  <2> QED
    BY <2>1, <2>4
<1>5. n \in T
  <2> HIDE DEF T
  <2>1. \A i \in 0 .. n : i \in T
    BY <1>1, <1>3, <1>4, UpTo
  <2> QED
    BY <1>1, <2>1
<1> QED
  BY <1>2, <1>5

LEMMA TxsFacts ==
    ASSUME NEW b \in Block
    PROVE  Txs[b] \in Seq(Transactions) /\ Len(Txs[b]) \in Nat /\ \A i \in 1 .. Len(Txs[b]) : Txs[b][i] \in Transactions
  BY PreloadAssumption, LenProperties, ElementOfSeq

\* The reference's results, view and classes have their types.
IsReference(s, i) ==
    /\ s.rs \in Seq(Results) /\ Len(s.rs) = i
    /\ IsWorld(s.view) /\ s.cls \in [Contract -> Nat \cup {None}]

\* The result of a step of the reference.
StepResult(w, txs, s, i) ==
    LET mode == IF Joins(txs, i) THEN s.mode ELSE Door("none", txs[i], s.view, w)
    IN  IF mode = "refused" THEN Refusal(105) ELSE Execute(txs[i], s.view, w, mode, Loaded(s.cls, txs[i], w))

LEMMA StepFacts ==
    ASSUME NEW w, IsWorld(w), NEW txs, NEW s, NEW i \in Nat \ {0}, IsReference(s, i - 1), txs[i] \in Transactions
    PROVE  LET r == StepResult(w, txs, s, i)
               code == Loaded(s.cls, txs[i], w)
               t == IsolatedStep(w, txs, s, i) IN
           /\ IsReference(t, i) /\ r \in Results /\ code \in Nat \cup {None}
           /\ t.rs = Append(s.rs, r) /\ t.view = Over(Puts(txs[i], r.ol), s.view)
           /\ t.cls = IF r.code \in {0, 102} /\ txs[i].op # "state" THEN [s.cls EXCEPT ![txs[i].cid] = code] ELSE s.cls
           /\ t.mode = IF Joins(txs, i) THEN s.mode ELSE Door("none", txs[i], s.view, w)
           /\ r.code = 0 => /\ r.ol = Writes(txs[i], s.view, code) /\ txs[i].op # "throw"
                            /\ (txs[i].op \in Invokes => code \in Nat)
           /\ r.code # 0 => r.ol = <<>>
           /\ IsPart(Puts(txs[i], r.ol))
<1> DEFINE tx == txs[i]
           mode == IF Joins(txs, i) THEN s.mode ELSE Door("none", tx, s.view, w)
           code == Loaded(s.cls, tx, w)
           r == StepResult(w, txs, s, i)
           t == IsolatedStep(w, txs, s, i)
<1>1. /\ s.rs \in Seq(Results) /\ Len(s.rs) = i - 1 /\ IsWorld(s.view) /\ s.cls \in [Contract -> Nat \cup {None}]
  BY DEF IsReference
<1>2. code \in Nat \cup {None}
  BY <1>1, LoadedType
<1>3. /\ r \in Results
      /\ r.code = 0 => /\ r.ol = Writes(tx, s.view, code) /\ tx.op # "throw"
                       /\ (tx.op \in Invokes => code \in Nat)
      /\ r.code # 0 => r.ol = <<>>
  <2>1. CASE mode = "refused"
    <3>1. r = Refusal(105) /\ <<>> \in Seq(OperLogs)
      BY <2>1 DEF StepResult
    <3> HIDE DEF r
    <3> QED
      BY <3>1 DEF Refusal, Results
  <2>2. CASE mode # "refused"
    <3>1. r = Execute(tx, s.view, w, mode, code)
      BY <2>2 DEF StepResult
    <3> HIDE DEF r, mode, code
    <3> QED
      BY <1>1, <1>2, <3>1, ExecuteFacts
  <2> QED
    BY <2>1, <2>2
<1>4. /\ t.rs = Append(s.rs, r) /\ t.view = Over(Puts(tx, r.ol), s.view)
      /\ t.cls = IF r.code \in {0, 102} /\ tx.op # "state" THEN [s.cls EXCEPT ![tx.cid] = code] ELSE s.cls
      /\ t.mode = mode
  BY DEF IsolatedStep, StepResult
<1> HIDE DEF r, t, code, mode
<1>5. IsPart(Puts(tx, r.ol))
  <2>1. CASE r.code = 0
    <3> DEFINE ol == Writes(tx, s.view, code)
    <3>1. /\ ol \in Seq(OperLogs)
          /\ \A j \in DOMAIN ol : PutKey(tx, ol[j]) \in Key /\ ol[j].newValue \in Values(PutKey(tx, ol[j]))
          /\ \A j, k \in DOMAIN ol : PutKey(tx, ol[j]) = PutKey(tx, ol[k]) => j = k
      BY <1>1, <1>2, <1>3, <2>1, WritesFacts
    <3> HIDE DEF ol
    <3>2. IsPart(Puts(tx, ol))
      BY <3>1, PutsFacts
    <3> QED
      BY <1>3, <2>1, <3>2 DEF ol
  <2>2. CASE r.code # 0
    <3>1. r.ol = <<>>
      BY <1>3, <2>2
    <3>2. DOMAIN Puts(tx, <<>>) = {}
      BY DEF Puts
    <3> QED
      BY <3>1, <3>2 DEF IsPart
  <2> QED
    BY <2>1, <2>2
<1>6. IsWorld(t.view)
  BY <1>1, <1>4, <1>5, OverType
<1>7. t.cls \in [Contract -> Nat \cup {None}]
  BY <1>1, <1>2, <1>4, TxFacts
<1>8. t.rs \in Seq(Results) /\ Len(t.rs) = i
  BY <1>1, <1>3, <1>4, AppendProperties
<1>9. IsReference(t, i)
  BY <1>6, <1>7, <1>8 DEF IsReference
<1> QED
  BY <1>2, <1>3, <1>4, <1>5, <1>9 DEF r, t, code, mode

LEMMA IsolatedType ==
    ASSUME NEW w, IsWorld(w), NEW b \in Block
    PROVE  /\ \A i \in 0 .. Len(Txs[b]) : IsReference(IsolatedUpTo(w, b)[i], i)
           /\ Isolated(w, b).rs \in Seq(Results) /\ Len(Isolated(w, b).rs) = Len(Txs[b])
<1> DEFINE n == Len(Txs[b])
           at == IsolatedUpTo(w, b)
           T == {i \in 0 .. n : IsReference(at[i], i)}
<1>1. n \in Nat /\ \A i \in 1 .. n : Txs[b][i] \in Transactions
  BY TxsFacts
<1>2. /\ Isolated(w, b) = at[n] /\ at[0] = Start0(w)
      /\ \A i \in 1 .. n : at[i] = IsolatedStep(w, Txs[b], at[i - 1], i)
  BY IsolatedDef
<1> HIDE DEF n, at
<1>3. 0 \in T
  <2>1. <<>> \in Seq(Results) /\ Len(<<>>) = 0
    OBVIOUS
  <2>2. IsReference(Start0(w), 0)
    BY <2>1 DEF IsReference, Start0
  <2> QED
    BY <1>1, <1>2, <2>2
<1>4. \A i \in 0 .. n : i < n /\ i \in T => i + 1 \in T
  <2> SUFFICES ASSUME NEW i \in 0 .. n, i < n, i \in T PROVE i + 1 \in T
    OBVIOUS
  <2>1. i + 1 \in 1 .. n /\ i + 1 \in 0 .. n /\ (i + 1) - 1 = i /\ i + 1 \in Nat \ {0}
    BY <1>1
  <2>2. at[i + 1] = IsolatedStep(w, Txs[b], at[i], i + 1) /\ IsReference(at[i], (i + 1) - 1)
    BY <1>2, <2>1
  <2>3. IsReference(IsolatedStep(w, Txs[b], at[i], i + 1), i + 1)
    <3> DEFINE s == at[i]
               txs == Txs[b]
               k == i + 1
    <3>1. k \in Nat \ {0} /\ IsReference(s, k - 1) /\ txs[k] \in Transactions
      BY <1>1, <2>1, <2>2
    <3> HIDE DEF s, txs, k
    <3>2. IsReference(IsolatedStep(w, txs, s, k), k)
      BY <3>1, StepFacts
    <3> QED
      BY <3>2 DEF s, txs, k
  <2>4. IsReference(at[i + 1], i + 1)
    BY <2>2, <2>3
  <2> QED
    BY <2>1, <2>4
<1>5. \A i \in 0 .. n : i \in T
  <2> HIDE DEF T
  <2> QED
    BY <1>1, <1>3, <1>4, UpTo
<1>6. \A i \in 0 .. n : IsReference(at[i], i)
  BY <1>5
<1>7. IsReference(at[n], n)
  BY <1>1, <1>6
<1> QED
  BY <1>2, <1>6, <1>7 DEF n, at, IsReference

-----------------------------------------------------------------------------
(* The inductive invariant.                                                 *)

\* A group in a sandbox is one of its contract; the one that waits for it is asked for just this group,
\* and for no other.  Groups are taken from the front of a block and up to their end.
InvRequests ==
    /\ \A c \in Contract : \A i \in DOMAIN sbq[c] :
          LET e == sbq[c][i] IN
          /\ \A n \in DOMAIN e.txs : e.txs[n].cid = c
          /\ e.owner # Nobody => /\ job[e.owner].at = "asked" /\ job[e.owner].tag = e.tag
                                 /\ e.txs = Group(e.owner)
    /\ \A c, d \in Contract : \A i \in DOMAIN sbq[c], j \in DOMAIN sbq[d] :
          sbq[c][i].owner = sbq[d][j].owner /\ sbq[c][i].owner # Nobody => c = d /\ i = j
    /\ \A p \in Preloader :
          /\ job[p].at = "asked" => /\ Len(job[p].rs) < Len(TxsOf(p))
                                    /\ \E i \in DOMAIN sbq[Group(p)[1].cid] : sbq[Group(p)[1].cid][i].owner = p
          /\ job[p].at # "idle" /\ Len(job[p].rs) < Len(TxsOf(p)) => ~Joins(TxsOf(p), Len(job[p].rs) + 1)

\* What is executed alone has its overlay to itself.
InvAlone == \A p \in Preloader : Alone(p) => Busy(job[p].tag) = {p} /\ job[p].tag \notin tainted

\* An overlay that nobody uses and nobody has left a write in is free.
InvFree == \A t \in Tag : Busy(t) = {} /\ t \notin tainted => overlay[t] = NoWrites

\* The logs of a stored block are those of its isolated execution.
InvChain == \A i \in DOMAIN chain : chain[i].ol = Logs(Isolated(chain[i].was, chain[i].block).rs)

\* The group that p waits for.
Pending(p) == CHOOSE e \in ToSet(sbq[Group(p)[1].cid]) : e.owner = p

\* An execution agrees with the reference in all that its next steps depend on: results, what it sees, the
\* classes the reference has made, and what the dispatcher took the contract for.
IsolatedSoFar(p) ==
    LET txs == TxsOf(p)
        n == Len(Done(p))
        s == IsolatedUpTo(world, job[p].block)[n]
    IN  /\ Done(p) = s.rs /\ View(job[p].tag) = s.view
        /\ \A c \in Contract : s.cls[c] # None => class[c] = s.cls[c]
        /\ job[p].at = "asked" =>
              Pending(p).mode = IF Joins(txs, n + 1) THEN s.mode ELSE Door("none", txs[n + 1], s.view, world)

InvIsolated == \A p \in Preloader : Alone(p) /\ Remembers(job[p].block) => IsolatedSoFar(p)

IInv == TypeOK /\ InvRequests /\ InvAlone /\ InvFree /\ InvChain /\ LogsReplayToView /\ InvIsolated

-----------------------------------------------------------------------------
(* Groups.                                                                  *)

\* The group that begins with the i-th transaction.
GroupAt(txs, i) ==
    SubSeq(txs, i, Max({j \in i .. Len(txs) : \A k \in i + 1 .. j : Joins(txs, k)}))

\* A group is a stretch of transactions of one contract, of which all but the first join the one before,
\* and what comes after it does not join.
LEMMA GroupAtFacts ==
    ASSUME NEW txs \in Seq(Transactions), NEW n \in Nat, n < Len(txs)
    PROVE  LET g == GroupAt(txs, n + 1) IN
           /\ g \in Seq(Transactions) /\ Len(g) \in Nat \ {0} /\ n + Len(g) <= Len(txs)
           /\ \A j \in 1 .. Len(g) : g[j] = txs[n + j] /\ g[j].cid = g[1].cid
           /\ \A j \in 2 .. Len(g) : Joins(txs, n + j)
           /\ n + Len(g) < Len(txs) => ~Joins(txs, n + Len(g) + 1)
<1> DEFINE i == n + 1
           S == {j \in i .. Len(txs) : \A k \in i + 1 .. j : Joins(txs, k)}
           m == Max(S)
           g == GroupAt(txs, i)
           l == m - n
<1>1. Len(txs) \in Nat /\ i \in 1 .. Len(txs) /\ \A k \in 1 .. Len(txs) : txs[k] \in Transactions
  BY LenProperties, ElementOfSeq
<1>2. S \in SUBSET (0 .. Len(txs)) /\ i \in S
  BY <1>1
<1>3. m \in S /\ \A x \in S : x <= m
  <2> HIDE DEF S
  <2> QED
    BY <1>1, <1>2, MaxFacts
<1>4. g = SubSeq(txs, i, m)
  BY DEF GroupAt
<1>5. m \in i .. Len(txs) /\ \A k \in i + 1 .. m : Joins(txs, k)
  BY <1>3
<1>6. m < Len(txs) => ~Joins(txs, m + 1)
  <2> SUFFICES ASSUME m < Len(txs), Joins(txs, m + 1) PROVE FALSE
    OBVIOUS
  <2>1. \A k \in i + 1 .. m + 1 : k \in i + 1 .. m \/ k = m + 1
    BY <1>1, <1>5
  <2>2. m + 1 \in i .. Len(txs) /\ ~(m + 1 <= m)
    BY <1>1, <1>5
  <2>3. m + 1 \in S
    BY <1>5, <2>1, <2>2
  <2> HIDE DEF S, m
  <2> QED
    BY <1>3, <2>2, <2>3
<1> HIDE DEF m, S
<1>7. /\ l \in Nat \ {0} /\ n + l = m /\ m - i + 1 = l /\ n + l <= Len(txs)
      /\ \A j \in 1 .. l : n + j \in i .. m /\ i + j - 1 = n + j
      /\ \A j \in 2 .. l : n + j \in i + 1 .. m
  BY <1>1, <1>5
<1> HIDE DEF l
<1>8. g \in Seq(Transactions) /\ Len(g) = l /\ \A j \in 1 .. l : g[j] = txs[n + j]
  <2>1. \A k \in i .. m : txs[k] \in Transactions
    BY <1>1, <1>5
  <2> HIDE DEF g
  <2>2. g \in Seq(Transactions) /\ Len(g) = (IF i <= m THEN m - i + 1 ELSE 0)
        /\ \A j \in 1 .. m - i + 1 : g[j] = txs[i + j - 1]
    BY <1>1, <1>4, <1>5, <2>1, SubSeqProperties
  <2> QED
    BY <1>5, <1>7, <2>2
<1> HIDE DEF g
<1>9. \A j \in 1 .. l : g[j].cid = g[1].cid
  <2> DEFINE T == {j \in 0 .. l : j = 0 \/ g[j].cid = g[1].cid}
  <2>1. \A j \in 0 .. l : j < l /\ j \in T => j + 1 \in T
    <3> SUFFICES ASSUME NEW j \in 0 .. l, j < l, j \in T PROVE j + 1 \in T
      OBVIOUS
    <3>1. CASE j = 0
      BY <1>7, <3>1
    <3>2. CASE j # 0
      <4>1. j + 1 \in 2 .. l /\ j + 1 \in 1 .. l /\ j \in 1 .. l /\ n + (j + 1) - 1 = n + j /\ j + 1 \in 0 .. l
        BY <1>7, <3>2
      <4>2. Joins(txs, n + (j + 1))
        BY <1>5, <1>7, <4>1
      <4>3. txs[n + (j + 1)].cid = txs[n + j].cid
        BY <4>1, <4>2 DEF Joins
      <4> QED
        BY <1>8, <3>2, <4>1, <4>3
    <3> QED
      BY <3>1, <3>2
  <2>2. 0 \in T
    BY <1>7
  <2>3. \A j \in 0 .. l : j \in T
    <3> HIDE DEF T
    <3> QED
      BY <1>7, <2>1, <2>2, UpTo
  <2> QED
    BY <1>7, <2>3
<1> QED
  BY <1>5, <1>6, <1>7, <1>8, <1>9 DEF g

\* What a preloader that works keeps, and its group.
LEMMA JobFacts ==
    ASSUME TypeOK, NEW p \in Preloader, job[p].at # "idle"
    PROVE  /\ job[p] \in Jobs /\ job[p].block \in Block /\ job[p].tag \in Tag /\ job[p].rs \in Seq(Results)
           /\ job[p].alone \in BOOLEAN /\ job[p].at \in {"next", "asked"}
           /\ TxsOf(p) \in Seq(Transactions) /\ Len(TxsOf(p)) \in Nat
           /\ \A i \in 1 .. Len(TxsOf(p)) : TxsOf(p)[i] \in Transactions
           /\ Len(job[p].rs) \in Nat /\ Len(job[p].rs) <= Len(TxsOf(p))
<1>1. job[p] \in Jobs
  BY DEF TypeOK, IdleJob
<1>2. /\ job[p].block \in Block /\ job[p].tag \in Tag /\ job[p].rs \in Seq(Results)
      /\ job[p].alone \in BOOLEAN /\ job[p].at \in {"next", "asked"}
  BY <1>1 DEF Jobs
<1>3. Len(job[p].rs) <= Len(TxsOf(p))
  BY DEF TypeOK
<1> QED
  BY <1>1, <1>2, <1>3, TxsFacts, LenProperties DEF TxsOf

LEMMA GroupFacts ==
    ASSUME TypeOK, NEW p \in Preloader, job[p].at # "idle", Len(job[p].rs) < Len(TxsOf(p))
    PROVE  LET g == Group(p)
               n == Len(job[p].rs) IN
           /\ g = GroupAt(TxsOf(p), n + 1)
           /\ g \in Seq(Transactions) /\ Len(g) \in Nat \ {0} /\ n + Len(g) <= Len(TxsOf(p))
           /\ \A j \in 1 .. Len(g) : g[j] = TxsOf(p)[n + j] /\ g[j].cid = g[1].cid
           /\ \A j \in 2 .. Len(g) : Joins(TxsOf(p), n + j)
           /\ n + Len(g) < Len(TxsOf(p)) => ~Joins(TxsOf(p), n + Len(g) + 1)
           /\ g[1] \in Transactions /\ g[1].cid \in Contract
<1>1. Group(p) = GroupAt(TxsOf(p), Len(job[p].rs) + 1)
  BY DEF Group, GroupAt
<1>2. TxsOf(p) \in Seq(Transactions) /\ Len(job[p].rs) \in Nat
  BY JobFacts
<1> DEFINE g == Group(p)
           txs == TxsOf(p)
           n == Len(job[p].rs)
<1> HIDE DEF g, txs, n
<1>3. /\ g \in Seq(Transactions) /\ Len(g) \in Nat \ {0} /\ n + Len(g) <= Len(txs)
      /\ \A j \in 1 .. Len(g) : g[j] = txs[n + j] /\ g[j].cid = g[1].cid
      /\ \A j \in 2 .. Len(g) : Joins(txs, n + j)
      /\ n + Len(g) < Len(txs) => ~Joins(txs, n + Len(g) + 1)
  <2>1. g = GroupAt(txs, n + 1) /\ txs \in Seq(Transactions) /\ n \in Nat /\ n < Len(txs)
    BY <1>1, <1>2 DEF g, txs, n
  <2>2. LET h == GroupAt(txs, n + 1) IN
        /\ h \in Seq(Transactions) /\ Len(h) \in Nat \ {0} /\ n + Len(h) <= Len(txs)
        /\ \A j \in 1 .. Len(h) : h[j] = txs[n + j] /\ h[j].cid = h[1].cid
        /\ \A j \in 2 .. Len(h) : Joins(txs, n + j)
        /\ n + Len(h) < Len(txs) => ~Joins(txs, n + Len(h) + 1)
    BY <2>1, GroupAtFacts, Zenon
  <2> QED
    BY <2>1, <2>2, Zenon
<1>4. g[1] \in Transactions
  BY <1>3, ElementOfSeq
<1> QED
  BY <1>1, <1>3, <1>4, TxFacts DEF g, txs, n

-----------------------------------------------------------------------------
(* What the actions are made of.                                            *)

LEMMA ViewType ==
    ASSUME TypeOK, NEW t \in Tag
    PROVE  IsPart(overlay[t]) /\ IsWorld(View(t))
<1>1. IsPart(overlay[t]) /\ IsWorld(world)
  BY DEF TypeOK, IsPart
<1> QED
  BY <1>1, OverType DEF View

\* Only the mark that an execution is alone is lost.
LEMMA DisturbedFacts ==
    ASSUME TypeOK, NEW P
    PROVE  LET d == Disturbed(P) IN
           /\ d \in [Preloader -> Jobs \cup {IdleJob}]
           /\ \A p \in Preloader : /\ d[p].at = job[p].at /\ d[p].block = job[p].block /\ d[p].tag = job[p].tag
                                   /\ d[p].rs = job[p].rs /\ (d[p].alone => job[p].alone /\ p \notin P)
                                   /\ (p \notin P => d[p] = job[p])
<1> DEFINE d == Disturbed(P)
<1>1. \A p \in Preloader : job[p] \in Jobs \cup {IdleJob}
  BY DEF TypeOK
<1>2. ASSUME NEW p \in Preloader
      PROVE  /\ d[p] \in Jobs \cup {IdleJob}
             /\ d[p].at = job[p].at /\ d[p].block = job[p].block /\ d[p].tag = job[p].tag
             /\ d[p].rs = job[p].rs /\ (d[p].alone => job[p].alone /\ p \notin P)
             /\ (p \notin P => d[p] = job[p])
  <2>1. CASE p \notin P
    BY <1>1, <2>1 DEF Disturbed
  <2>2. CASE p \in P
    <3> DEFINE j == job[p]
    <3>1. d[p] = [j EXCEPT !.alone = FALSE]
      BY <2>2 DEF Disturbed
    <3>2. j \in Jobs \/ j = IdleJob
      BY <1>1
    <3> HIDE DEF j, d
    <3>3. CASE j \in Jobs
      <4>1. d[p] \in Jobs /\ d[p].alone = FALSE /\ d[p].at = j.at /\ d[p].block = j.block /\ d[p].tag = j.tag
            /\ d[p].rs = j.rs
        BY <3>1, <3>3 DEF Jobs
      <4> QED
        BY <2>2, <4>1 DEF j
    <3>4. CASE j = IdleJob
      <4>1. d[p] = IdleJob
        BY <3>1, <3>4 DEF IdleJob
      <4> QED
        BY <2>2, <3>4, <4>1 DEF j, IdleJob
    <3> QED
      BY <3>2, <3>3, <3>4
  <2> QED
    BY <2>1, <2>2
<1>3. d = [p \in Preloader |-> d[p]]
  BY DEF Disturbed
<1> HIDE DEF d
<1>4. d \in [Preloader -> Jobs \cup {IdleJob}]
  BY <1>2, <1>3
<1> QED
  BY <1>2, <1>4 DEF d

LEMMA AnsweredFacts ==
    ASSUME TypeOK, NEW p \in Preloader, job[p].at # "idle", NEW rs \in Seq(Results)
    PROVE  LET j == Answered(p, rs) IN
           /\ j \in Jobs /\ j.at = "next" /\ j.rs = job[p].rs \o rs /\ Len(j.rs) = Len(job[p].rs) + Len(rs)
           /\ j.block = job[p].block /\ j.tag = job[p].tag /\ j.alone = job[p].alone
<1> DEFINE o == job[p]
           j == Answered(p, rs)
<1>1. o \in Jobs /\ o.rs \in Seq(Results)
  BY JobFacts
<1>2. j = [o EXCEPT !.at = "next", !.rs = o.rs \o rs]
  BY DEF Answered
<1> HIDE DEF j, o
<1>3. o.rs \o rs \in Seq(Results) /\ Len(o.rs \o rs) = Len(o.rs) + Len(rs)
  BY <1>1, ConcatProperties
<1>4. /\ j \in Jobs /\ j.at = "next" /\ j.rs = o.rs \o rs
      /\ j.block = o.block /\ j.tag = o.tag /\ j.alone = o.alone
  BY <1>1, <1>2, <1>3 DEF Jobs
<1> QED
  BY <1>3, <1>4 DEF j, o

\* A group of which nothing is executed.
LEMMA RefusalFacts ==
    ASSUME TypeOK, NEW p \in Preloader, job[p].at # "idle", Len(job[p].rs) < Len(TxsOf(p)), NEW x \in {103, 105}
    PROVE  LET rs == [i \in DOMAIN Group(p) |-> Refusal(x)] IN
           rs \in Seq(Results) /\ Len(rs) = Len(Group(p)) /\ \A i \in 1 .. Len(rs) : rs[i] = Refusal(x)
<1>1. Group(p) \in Seq(Transactions) /\ Len(Group(p)) \in Nat /\ DOMAIN Group(p) = 1 .. Len(Group(p))
  BY GroupFacts, LenProperties
<1>2. <<>> \in Seq(OperLogs)
  OBVIOUS
<1>3. Refusal(x) \in Results
  BY <1>2 DEF Refusal, Results
<1> QED
  BY <1>1, <1>3

\* The first of a sandbox's groups, its next transaction, the code it runs, and the result.
First(c) == Head(sbq[c])
NextTx(c) == First(c).txs[Len(First(c).rs) + 1]
NextCode(c) == Loaded(class, NextTx(c), world)
NextResult(c) == Execute(NextTx(c), View(First(c).tag), world, First(c).mode, NextCode(c))

LEMMA RequestFacts ==
    ASSUME TypeOK, NEW c \in Contract, NEW i \in DOMAIN sbq[c]
    PROVE  LET e == sbq[c][i] IN
           /\ sbq[c] \in Seq(Requests) /\ Len(sbq[c]) \in Nat /\ DOMAIN sbq[c] = 1 .. Len(sbq[c])
           /\ e \in Requests /\ e.owner \in Preloader \cup {Nobody} /\ e.tag \in Tag /\ e.mode \in {"snapshot", "leveldb"}
           /\ e.txs \in Seq(Transactions) /\ e.rs \in Seq(Results)
           /\ Len(e.txs) \in Nat /\ Len(e.rs) \in Nat /\ Len(e.rs) < Len(e.txs)
<1> DEFINE e == sbq[c][i]
<1>1. sbq[c] \in Seq(Requests)
  BY DEF TypeOK
<1>2. Len(sbq[c]) \in Nat /\ DOMAIN sbq[c] = 1 .. Len(sbq[c]) /\ e \in Requests
  BY <1>1, LenProperties, ElementOfSeq
<1>3. Len(e.rs) < Len(e.txs)
  BY DEF TypeOK
<1> HIDE DEF e
<1>4. /\ e.owner \in Preloader \cup {Nobody} /\ e.tag \in Tag /\ e.mode \in {"snapshot", "leveldb"}
      /\ e.txs \in Seq(Transactions) /\ e.rs \in Seq(Results)
  BY <1>2 DEF Requests
<1>5. Len(e.txs) \in Nat /\ Len(e.rs) \in Nat
  BY <1>4, LenProperties
<1> QED
  BY <1>1, <1>2, <1>3, <1>4, <1>5 DEF e

LEMMA FirstFacts ==
    ASSUME TypeOK, InvRequests, NEW c \in Contract, sbq[c] # <<>>
    PROVE  LET e == First(c)
               tx == NextTx(c)
               r == NextResult(c) IN
           /\ sbq[c] \in Seq(Requests) /\ Len(sbq[c]) \in Nat \ {0} /\ 1 \in DOMAIN sbq[c]
           /\ DOMAIN sbq[c] = 1 .. Len(sbq[c]) /\ e = sbq[c][1]
           /\ e \in Requests /\ e.owner \in Preloader \cup {Nobody} /\ e.tag \in Tag /\ e.mode \in {"snapshot", "leveldb"}
           /\ e.txs \in Seq(Transactions) /\ e.rs \in Seq(Results)
           /\ Len(e.txs) \in Nat /\ Len(e.rs) \in Nat /\ Len(e.rs) < Len(e.txs)
           /\ tx \in Transactions /\ tx.cid = c /\ NextCode(c) \in Nat \cup {None} /\ r \in Results
           /\ Append(e.rs, r) \in Seq(Results) /\ Len(Append(e.rs, r)) = Len(e.rs) + 1
           /\ IsPart(Puts(tx, r.ol)) /\ (r.code # 0 => r.ol = <<>>)
           /\ r.code = 0 => r.ol = Writes(tx, View(e.tag), NextCode(c)) /\ (tx.op \in Invokes => NextCode(c) \in Nat)
<1> DEFINE e == First(c)
           tx == NextTx(c)
           r == NextResult(c)
           code == NextCode(c)
<1>1. sbq[c] \in Seq(Requests)
  BY DEF TypeOK
<1>2. Len(sbq[c]) \in Nat \ {0} /\ DOMAIN sbq[c] = 1 .. Len(sbq[c]) /\ 1 \in DOMAIN sbq[c]
  BY <1>1, LenProperties, EmptySeq
<1>3. e = sbq[c][1]
  BY <1>1 DEF First
<1>4. /\ e \in Requests /\ e.owner \in Preloader \cup {Nobody} /\ e.tag \in Tag /\ e.mode \in {"snapshot", "leveldb"}
      /\ e.txs \in Seq(Transactions) /\ e.rs \in Seq(Results)
      /\ Len(e.txs) \in Nat /\ Len(e.rs) \in Nat /\ Len(e.rs) < Len(e.txs)
  <2> HIDE DEF e
  <2> QED
    BY <1>2, <1>3, RequestFacts
<1>5. tx = e.txs[Len(e.rs) + 1]
  BY DEF NextTx
<1>6. \A n \in DOMAIN e.txs : e.txs[n].cid = c
  <2> HIDE DEF e
  <2> QED
    BY <1>2, <1>3 DEF InvRequests
<1> HIDE DEF e
<1>7. tx \in Transactions /\ tx.cid = c
  <2>1. Len(e.rs) + 1 \in DOMAIN e.txs /\ DOMAIN e.txs = 1 .. Len(e.txs)
    BY <1>4, LenProperties
  <2> HIDE DEF tx
  <2> QED
    BY <1>4, <1>5, <1>6, <2>1, ElementOfSeq
<1>8. code = Loaded(class, tx, world) /\ r = Execute(tx, View(e.tag), world, e.mode, code)
  BY DEF NextCode, NextResult, e
<1> HIDE DEF tx, r, code
<1>9. class \in [Contract -> Nat \cup {None}] /\ IsWorld(world) /\ IsWorld(View(e.tag))
  BY <1>4, ViewType DEF TypeOK
<1>10. code \in Nat \cup {None}
  BY <1>7, <1>8, <1>9, LoadedType
<1>11. /\ r \in Results /\ (r.code # 0 => r.ol = <<>>)
       /\ r.code = 0 => r.ol = Writes(tx, View(e.tag), code) /\ (tx.op \in Invokes => code \in Nat)
  BY <1>7, <1>8, <1>9, <1>10, ExecuteFacts
<1>12. IsPart(Puts(tx, r.ol))
  <2>1. CASE r.code = 0
    <3> DEFINE ol == Writes(tx, View(e.tag), code)
    <3>1. /\ ol \in Seq(OperLogs)
          /\ \A j \in DOMAIN ol : PutKey(tx, ol[j]) \in Key /\ ol[j].newValue \in Values(PutKey(tx, ol[j]))
          /\ \A j, k \in DOMAIN ol : PutKey(tx, ol[j]) = PutKey(tx, ol[k]) => j = k
      BY <1>7, <1>9, <1>10, <1>11, <2>1, WritesFacts
    <3> HIDE DEF ol
    <3>2. IsPart(Puts(tx, ol))
      BY <3>1, PutsFacts
    <3> QED
      BY <1>11, <2>1, <3>2 DEF ol
  <2>2. CASE r.code # 0
    <3>1. r.ol = <<>>
      BY <1>11, <2>2
    <3>2. DOMAIN Puts(tx, <<>>) = {}
      BY DEF Puts
    <3> QED
      BY <3>1, <3>2 DEF IsPart
  <2> QED
    BY <2>1, <2>2
<1>13. Append(e.rs, r) \in Seq(Results) /\ Len(Append(e.rs, r)) = Len(e.rs) + 1
  BY <1>4, <1>11, AppendProperties
<1> QED
  BY <1>1, <1>2, <1>3, <1>4, <1>7, <1>10, <1>11, <1>12, <1>13 DEF e, tx, r, code

\* Overlays pile up.
LEMMA OverOver == ASSUME NEW f, NEW g, NEW w PROVE Over(Over(f, g), w) = Over(f, Over(g, w))
<1>1. DOMAIN Over(f, g) = DOMAIN f \cup DOMAIN g /\ DOMAIN Over(g, w) = DOMAIN g \cup DOMAIN w
  BY DEF Over
<1>2. DOMAIN Over(f, g) \cup DOMAIN w = DOMAIN f \cup DOMAIN Over(g, w)
  BY <1>1
<1>3. \A k \in DOMAIN Over(f, g) \cup DOMAIN w :
         (IF k \in DOMAIN Over(f, g) THEN Over(f, g)[k] ELSE w[k])
         = (IF k \in DOMAIN f THEN f[k] ELSE Over(g, w)[k])
  BY DEF Over
<1> DEFINE D == DOMAIN Over(f, g) \cup DOMAIN w
<1>4. Over(Over(f, g), w) = [k \in D |-> IF k \in DOMAIN Over(f, g) THEN Over(f, g)[k] ELSE w[k]]
  BY Zenon DEF Over
<1>5. Over(f, Over(g, w)) = [k \in D |-> IF k \in DOMAIN f THEN f[k] ELSE Over(g, w)[k]]
  BY <1>2, Zenon DEF Over
<1> QED
  BY <1>3, <1>4, <1>5

\* What a sandbox's step changes.
LEMMA SandboxFacts ==
    ASSUME TypeOK, InvRequests, NEW c \in Contract, SandboxStep(c)
    PROVE  LET e == First(c)
               tx == NextTx(c)
               r == NextResult(c)
               rs == Append(e.rs, r) IN
           /\ sbq[c] # <<>> /\ UNCHANGED <<world, chain, dstate, counts>>
           /\ class' = IF r.code \in {0, 102} /\ tx.op # "state" THEN [class EXCEPT ![c] = NextCode(c)] ELSE class
           /\ DOMAIN overlay' = Tag /\ \A t \in Tag \ {e.tag} : overlay'[t] = overlay[t]
           /\ overlay'[e.tag] = IF r.code = 0 THEN Over(Puts(tx, r.ol), overlay[e.tag]) ELSE overlay[e.tag]
           /\ \A t \in Tag : View(t)' = IF t = e.tag THEN Over(Puts(tx, r.ol), View(t)) ELSE View(t)
           /\ sbq' = IF Len(rs) < Len(e.txs) THEN [sbq EXCEPT ![c] = [sbq[c] EXCEPT ![1] = [sbq[c][1] EXCEPT !.rs = rs]]]
                     ELSE [sbq EXCEPT ![c] = Tail(sbq[c])]
           /\ job' = IF e.owner = Nobody THEN Disturbed(Busy(e.tag))
                     ELSE IF Len(rs) < Len(e.txs) THEN job ELSE [job EXCEPT ![e.owner] = Answered(e.owner, rs)]
           /\ tainted' = IF e.owner = Nobody /\ r.code = 0 THEN tainted \cup {e.tag} ELSE tainted
<1> DEFINE e == First(c)
           tx == NextTx(c)
           r == NextResult(c)
           rs == Append(e.rs, r)
           code == NextCode(c)
<1>1. /\ sbq[c] # <<>> /\ UNCHANGED <<world, chain, dstate, counts>>
      /\ class' = IF r.code \in {0, 102} /\ tx.op # "state" THEN [class EXCEPT ![c] = code] ELSE class
      /\ overlay' = [overlay EXCEPT ![e.tag] = Commit(tx, Writes(tx, View(e.tag), code), r, @)]
      /\ sbq' = IF Len(rs) < Len(e.txs) THEN [sbq EXCEPT ![c] = [sbq[c] EXCEPT ![1] = [sbq[c][1] EXCEPT !.rs = rs]]]
                ELSE [sbq EXCEPT ![c] = Tail(sbq[c])]
      /\ job' = IF e.owner = Nobody THEN Disturbed(Busy(e.tag))
                ELSE IF Len(rs) < Len(e.txs) THEN job ELSE [job EXCEPT ![e.owner] = Answered(e.owner, rs)]
      /\ tainted' = IF e.owner = Nobody /\ r.code = 0 THEN tainted \cup {e.tag} ELSE tainted
  BY DEF SandboxStep, First, NextTx, NextCode, NextResult
<1>2. /\ e.tag \in Tag /\ IsPart(Puts(tx, r.ol)) /\ (r.code # 0 => r.ol = <<>>)
      /\ r.code = 0 => r.ol = Writes(tx, View(e.tag), code)
  BY <1>1, FirstFacts
<1>3. DOMAIN overlay = Tag /\ IsWorld(View(e.tag))
  BY <1>2, ViewType DEF TypeOK
<1> HIDE DEF e, tx, r, rs, code
<1>4. DOMAIN overlay' = Tag /\ \A t \in Tag \ {e.tag} : overlay'[t] = overlay[t]
  BY <1>1, <1>3
<1>5. overlay'[e.tag] = IF r.code = 0 THEN Over(Puts(tx, r.ol), overlay[e.tag]) ELSE overlay[e.tag]
  BY <1>1, <1>2, <1>3 DEF Commit
<1>6. ASSUME NEW t \in Tag
      PROVE  View(t)' = IF t = e.tag THEN Over(Puts(tx, r.ol), View(t)) ELSE View(t)
  <2>1. View(t)' = Over(overlay'[t], world)
    BY <1>1 DEF View
  <2>2. CASE t # e.tag
    BY <1>4, <2>1, <2>2 DEF View
  <2>3. CASE t = e.tag /\ r.code = 0
    <3>1. View(t)' = Over(Over(Puts(tx, r.ol), overlay[t]), world)
      BY <1>5, <2>1, <2>3
    <3>2. Over(Over(Puts(tx, r.ol), overlay[t]), world) = Over(Puts(tx, r.ol), Over(overlay[t], world))
      BY OverOver
    <3> QED
      BY <2>3, <3>1, <3>2 DEF View
  <2>4. CASE t = e.tag /\ r.code # 0
    <3>1. Over(Puts(tx, <<>>), View(t)) = View(t)
      BY <1>3, <2>4, PutsNothing
    <3> QED
      BY <1>2, <1>5, <2>1, <2>4, <3>1 DEF View
  <2> QED
    BY <2>2, <2>3, <2>4
<1> QED
  BY <1>1, <1>4, <1>5, <1>6, Zenon DEF e, tx, r, rs, code

-----------------------------------------------------------------------------
(* Types.                                                                   *)

JobsOK ==
    /\ job \in [Preloader -> Jobs \cup {IdleJob}]
    /\ \A p \in Preloader : job[p].at # "idle" => Len(job[p].rs) <= Len(TxsOf(p))

RequestsOK ==
    /\ sbq \in [Contract -> Seq(Requests)]
    /\ \A c \in Contract : \A i \in DOMAIN sbq[c] : Len(sbq[c][i].rs) < Len(sbq[c][i].txs)

OverlaysOK ==
    /\ DOMAIN overlay = Tag
    /\ \A t \in Tag : IsPart(overlay[t])

ChainOK ==
    /\ chain \in Seq([block : Block, ol : Seq(OperLogs), was : {chain[i].was : i \in DOMAIN chain}])
    /\ \A i \in DOMAIN chain : IsWorld(chain[i].was)

RestOK ==
    /\ IsWorld(world) /\ tainted \subseteq Tag
    /\ dstate \in [Contract -> {"none", "snapshot", "leveldb"}]
    /\ class \in [Contract -> Nat \cup {None}]

LEMMA TypeParts == TypeOK <=> JobsOK /\ RequestsOK /\ OverlaysOK /\ ChainOK /\ RestOK
  BY DEF TypeOK, JobsOK, RequestsOK, OverlaysOK, ChainOK, RestOK, IsPart

LEMMA JobStep ==
    ASSUME TypeOK, NEW q \in Preloader, NEW j \in Jobs \cup {IdleJob}, job' = [job EXCEPT ![q] = j],
           j.at # "idle" => Len(j.rs) <= Len(Txs[j.block])
    PROVE  JobsOK'
<1>1. job \in [Preloader -> Jobs \cup {IdleJob}]
  BY DEF TypeOK
<1>2. job' \in [Preloader -> Jobs \cup {IdleJob}] /\ job'[q] = j /\ \A p \in Preloader \ {q} : job'[p] = job[p]
  BY <1>1
<1>3. ASSUME NEW p \in Preloader, job'[p].at # "idle" PROVE Len(job'[p].rs) <= Len(Txs[job'[p].block])
  <2>1. CASE p = q
    BY <1>2, <1>3, <2>1
  <2>2. CASE p # q
    BY <1>2, <1>3, <2>2 DEF TypeOK, TxsOf
  <2> QED
    BY <2>1, <2>2
<1> QED
  BY <1>2, <1>3 DEF JobsOK, TxsOf

LEMMA JobDisturbed == ASSUME TypeOK, NEW P, job' = Disturbed(P) PROVE JobsOK'
<1>1. job' \in [Preloader -> Jobs \cup {IdleJob}]
  BY DisturbedFacts
<1>2. \A p \in Preloader : job'[p].at = job[p].at /\ job'[p].block = job[p].block /\ job'[p].rs = job[p].rs
  BY DisturbedFacts
<1> QED
  BY <1>1, <1>2 DEF JobsOK, TxsOf, TypeOK

LEMMA IdleFacts == IdleJob.at = "idle" /\ ~IdleJob.alone
  BY DEF IdleJob

\* The actions keep the jobs' types.
LEMMA JobsStep == ASSUME TypeOK, InvRequests, Next PROVE JobsOK'
<1>1. ASSUME NEW p \in Preloader, NEW b \in Block, NEW t \in Tag, Start(p, b, t) PROVE JobsOK'
  <2> DEFINE d == Disturbed(Busy(t))
             j == [at |-> "next", block |-> b, tag |-> t, rs |-> <<>>, alone |-> Busy(t) = {} /\ t \notin tainted]
  <2>1. job' = [d EXCEPT ![p] = j]
    BY <1>1, Zenon DEF Start
  <2>2. /\ d \in [Preloader -> Jobs \cup {IdleJob}]
        /\ \A q \in Preloader : d[q].at = job[q].at /\ d[q].block = job[q].block /\ d[q].rs = job[q].rs
    BY DisturbedFacts
  <2>3. <<>> \in Seq(Results) /\ Len(<<>>) = 0 /\ (Busy(t) = {} /\ t \notin tainted) \in BOOLEAN
    OBVIOUS
  <2>4. j \in Jobs /\ j.rs = <<>> /\ j.block = b
    BY <2>3 DEF Jobs
  <2> HIDE DEF d, j
  <2>5. job' \in [Preloader -> Jobs \cup {IdleJob}] /\ job'[p] = j /\ \A q \in Preloader \ {p} : job'[q] = d[q]
    BY <2>1, <2>2, <2>4
  <2>6. ASSUME NEW q \in Preloader, job'[q].at # "idle" PROVE Len(job'[q].rs) <= Len(Txs[job'[q].block])
    <3>1. CASE q = p
      BY <2>3, <2>4, <2>5, <3>1, TxsFacts
    <3>2. CASE q # p
      BY <2>2, <2>5, <2>6, <3>2 DEF TypeOK, TxsOf
    <3> QED
      BY <3>1, <3>2
  <2> QED
    BY <2>5, <2>6 DEF JobsOK, TxsOf
<1>2. ASSUME NEW p \in Preloader, NEW rs \in Seq(Results), job[p].at # "idle",
             Len(job[p].rs) + Len(rs) <= Len(TxsOf(p)), NEW a \in BOOLEAN,
             \/ job' = [job EXCEPT ![p] = Answered(p, rs)]
             \/ job' = [job EXCEPT ![p] = [Answered(p, rs) EXCEPT !.alone = a]]
      PROVE  JobsOK'
  <2> DEFINE o == Answered(p, rs)
             j == [o EXCEPT !.alone = a]
  <2>1. o \in Jobs /\ o.block = job[p].block /\ Len(o.rs) = Len(job[p].rs) + Len(rs)
    BY <1>2, AnsweredFacts
  <2> HIDE DEF o
  <2>2. j \in Jobs /\ j.block = o.block /\ j.rs = o.rs
    BY <2>1 DEF Jobs
  <2> HIDE DEF j
  <2>3. Len(o.rs) <= Len(Txs[o.block]) /\ Len(j.rs) <= Len(Txs[j.block])
    BY <1>2, <2>1, <2>2 DEF TxsOf
  <2>4. job' = [job EXCEPT ![p] = o] \/ job' = [job EXCEPT ![p] = j]
    BY <1>2 DEF o, j
  <2> QED
    BY <2>1, <2>2, <2>3, <2>4, JobStep
<1>3. ASSUME NEW p \in Preloader, Dispatch(p) PROVE JobsOK'
  <2>1. job[p].at # "idle" /\ Len(job[p].rs) < Len(TxsOf(p))
    BY <1>3 DEF Dispatch
  <2>2. CASE job' = [job EXCEPT ![p] = Refused(p)]
    <3> DEFINE rs == [i \in DOMAIN Group(p) |-> Refusal(105)]
    <3>1. rs \in Seq(Results) /\ Len(rs) = Len(Group(p))
      BY <2>1, RefusalFacts
    <3>2. Len(job[p].rs) + Len(Group(p)) <= Len(TxsOf(p))
      BY <2>1, GroupFacts
    <3>3. job' = [job EXCEPT ![p] = Answered(p, rs)]
      BY <2>2 DEF Refused
    <3> HIDE DEF rs
    <3> QED
      BY <1>2, <2>1, <3>1, <3>2, <3>3
  <2>3. CASE job' = [job EXCEPT ![p].at = "asked"]
    <3> DEFINE o == job[p]
               j == [o EXCEPT !.at = "asked"]
    <3>1. o \in Jobs /\ Len(o.rs) <= Len(Txs[o.block])
      BY <2>1, JobFacts DEF TxsOf
    <3>2. job' = [job EXCEPT ![p] = j]
      BY <2>3
    <3> HIDE DEF o
    <3>3. j \in Jobs /\ j.block = o.block /\ j.rs = o.rs
      BY <3>1 DEF Jobs
    <3> HIDE DEF j
    <3> QED
      BY <3>1, <3>2, <3>3, JobStep
  <2> QED
    BY <1>3, <2>2, <2>3, Zenon DEF Dispatch
<1>4. ASSUME NEW p \in Preloader, TimeoutGroup(p) PROVE JobsOK'
  <2> DEFINE rs == [i \in DOMAIN Group(p) |-> Refusal(103)]
  <2>1. job[p].at # "idle" /\ Len(job[p].rs) < Len(TxsOf(p))
    BY <1>4 DEF TimeoutGroup, InvRequests
  <2>2. rs \in Seq(Results) /\ Len(rs) = Len(Group(p))
    BY <2>1, RefusalFacts
  <2>3. Len(job[p].rs) + Len(Group(p)) <= Len(TxsOf(p))
    BY <2>1, GroupFacts
  <2>4. job' = [job EXCEPT ![p] = [Answered(p, rs) EXCEPT !.alone = FALSE]]
    BY <1>4 DEF TimeoutGroup
  <2> HIDE DEF rs
  <2> QED
    BY <1>2, <2>1, <2>2, <2>3, <2>4
<1>5. ASSUME NEW p \in Preloader, job' = [job EXCEPT ![p] = IdleJob] PROVE JobsOK'
  BY <1>5, JobStep, IdleFacts
<1>6. ASSUME NEW c \in Contract, SandboxStep(c) PROVE JobsOK'
  <2> DEFINE e == First(c)
             rs == Append(e.rs, NextResult(c))
  <2>1. sbq[c] # <<>>
        /\ job' = IF e.owner = Nobody THEN Disturbed(Busy(e.tag))
                  ELSE IF Len(rs) < Len(e.txs) THEN job ELSE [job EXCEPT ![e.owner] = Answered(e.owner, rs)]
    BY <1>6, SandboxFacts
  <2>2. /\ 1 \in DOMAIN sbq[c] /\ e = sbq[c][1] /\ e.owner \in Preloader \cup {Nobody}
        /\ Len(e.txs) \in Nat /\ Len(e.rs) \in Nat /\ Len(e.rs) < Len(e.txs)
        /\ rs \in Seq(Results) /\ Len(rs) = Len(e.rs) + 1
    BY <2>1, FirstFacts
  <2>3. e.owner # Nobody => job[e.owner].at = "asked" /\ e.txs = Group(e.owner)
    <3> HIDE DEF e
    <3> QED
      BY <2>2 DEF InvRequests
  <2> DEFINE p == e.owner
  <2> HIDE DEF e, rs
  <2>4. CASE e.owner = Nobody
    BY <2>1, <2>4, JobDisturbed
  <2>5. CASE e.owner # Nobody /\ Len(rs) < Len(e.txs)
    BY <2>1, <2>5, TypeParts DEF JobsOK, TxsOf
  <2>6. CASE e.owner # Nobody /\ ~(Len(rs) < Len(e.txs))
    <3>1. p \in Preloader /\ job[p].at = "asked" /\ job[p].at # "idle" /\ job' = [job EXCEPT ![p] = Answered(p, rs)]
      BY <2>1, <2>2, <2>3, <2>6
    <3> HIDE DEF p
    <3>2. Len(job[p].rs) < Len(TxsOf(p))
      BY <3>1 DEF InvRequests
    <3>3. Len(job[p].rs) + Len(Group(p)) <= Len(TxsOf(p))
      BY <3>1, <3>2, GroupFacts
    <3>4. Len(rs) = Len(Group(p))
      BY <2>2, <2>3, <2>6 DEF p
    <3> QED
      BY <1>2, <2>2, <3>1, <3>3, <3>4
  <2> QED
    BY <2>4, <2>5, <2>6
<1>7. ASSUME NEW P, job' = Disturbed(P) PROVE JobsOK'
  BY <1>7, JobDisturbed
<1>8. (\E t \in Tag : Expire(t)) \/ (\E b \in Block : Store(b)) \/ Rollback => \E P : job' = Disturbed(P)
  BY Zenon DEF Expire, Store, Rollback
<1>9. (\E p \in Preloader : Fail(p) \/ Finish(p)) => \E p \in Preloader : job' = [job EXCEPT ![p] = IdleJob]
  BY DEF Fail, Finish
<1> QED
  BY <1>1, <1>3, <1>4, <1>5, <1>6, <1>7, <1>8, <1>9, Zenon DEF Next

\* What becomes of the groups in the sandboxes.
Reset(p) ==
    [c \in Contract |-> [i \in DOMAIN sbq[c] |->
        IF sbq[c][i].owner = p THEN [sbq[c][i] EXCEPT !.owner = Nobody] ELSE sbq[c][i]]]

\* The request of a group that is passed on.
Request(p, mode) == [owner |-> p, tag |-> job[p].tag, mode |-> mode, txs |-> Group(p), rs |-> <<>>]

LEMMA DispatchFacts ==
    ASSUME TypeOK, NEW p \in Preloader, Dispatch(p)
    PROVE  LET c == Group(p)[1].cid
               mode == Door(dstate[c], Group(p)[1], View(job[p].tag), world) IN
           /\ job[p].at = "next" /\ Len(job[p].rs) < Len(TxsOf(p)) /\ c \in Contract
           /\ dstate' = IF mode = "refused" THEN dstate ELSE [dstate EXCEPT ![c] = mode]
           /\ mode = "refused" => job' = [job EXCEPT ![p] = Refused(p)] /\ sbq' = sbq
           /\ mode # "refused" => /\ mode \in {"snapshot", "leveldb"}
                                  /\ sbq' = [sbq EXCEPT ![c] = Append(sbq[c], Request(p, mode))]
                                  /\ job' = [job EXCEPT ![p] = [job[p] EXCEPT !.at = "asked"]]
                                  /\ Request(p, mode) \in Requests
           /\ UNCHANGED <<world, chain, overlay, class, tainted, counts>>
<1> DEFINE c == Group(p)[1].cid
           mode == Door(dstate[c], Group(p)[1], View(job[p].tag), world)
<1>1. /\ job[p].at = "next" /\ Len(job[p].rs) < Len(TxsOf(p))
      /\ dstate' = IF mode = "refused" THEN dstate ELSE [dstate EXCEPT ![c] = mode]
      /\ mode = "refused" => job' = [job EXCEPT ![p] = Refused(p)] /\ sbq' = sbq
      /\ mode # "refused" => /\ sbq' = [sbq EXCEPT ![c] = Append(sbq[c], Request(p, mode))]
                             /\ job' = [job EXCEPT ![p] = [job[p] EXCEPT !.at = "asked"]]
      /\ UNCHANGED <<world, chain, overlay, class, tainted, counts>>
  BY DEF Dispatch, Request, Remember
<1>2. Group(p) \in Seq(Transactions) /\ c \in Contract /\ job[p].tag \in Tag
  BY <1>1, GroupFacts, JobFacts
<1>3. mode \in {"leveldb", "refused", "snapshot"}
  BY DoorType
<1> HIDE DEF c, mode
<1>4. mode # "refused" => Request(p, mode) \in Requests
  <2>1. <<>> \in Seq(Results)
    OBVIOUS
  <2> QED
    BY <1>2, <1>3, <2>1 DEF Request, Requests
<1> QED
  BY <1>1, <1>2, <1>3, <1>4, Zenon DEF c, mode

\* Groups are appended, lose their owner, get a result or are taken out.
LEMMA ResetFacts ==
    ASSUME TypeOK, NEW p \in Preloader
    PROVE  LET q == Reset(p) IN
           /\ q \in [Contract -> Seq(Requests)]
           /\ \A c \in Contract : /\ DOMAIN q[c] = DOMAIN sbq[c]
                                  /\ \A i \in DOMAIN q[c] :
                                        LET e == sbq[c][i] IN
                                        /\ q[c][i].tag = e.tag /\ q[c][i].mode = e.mode /\ q[c][i].txs = e.txs /\ q[c][i].rs = e.rs
                                        /\ q[c][i].owner = IF e.owner = p THEN Nobody ELSE e.owner
<1> DEFINE q == Reset(p)
<1>1. ASSUME NEW c \in Contract
      PROVE  /\ q[c] \in Seq(Requests) /\ DOMAIN q[c] = DOMAIN sbq[c]
             /\ \A i \in DOMAIN q[c] :
                   LET e == sbq[c][i] IN
                   /\ q[c][i].tag = e.tag /\ q[c][i].mode = e.mode /\ q[c][i].txs = e.txs /\ q[c][i].rs = e.rs
                   /\ q[c][i].owner = IF e.owner = p THEN Nobody ELSE e.owner
  <2>1. q[c] = [i \in DOMAIN sbq[c] |-> IF sbq[c][i].owner = p THEN [sbq[c][i] EXCEPT !.owner = Nobody] ELSE sbq[c][i]]
    BY DEF Reset
  <2>2. sbq[c] \in Seq(Requests)
    BY DEF TypeOK
  <2>3. Len(sbq[c]) \in Nat /\ DOMAIN sbq[c] = 1 .. Len(sbq[c])
    BY <2>2, LenProperties
  <2>4. ASSUME NEW i \in DOMAIN sbq[c]
        PROVE  LET e == sbq[c][i] IN
               /\ q[c][i] \in Requests
               /\ q[c][i].tag = e.tag /\ q[c][i].mode = e.mode /\ q[c][i].txs = e.txs /\ q[c][i].rs = e.rs
               /\ q[c][i].owner = IF e.owner = p THEN Nobody ELSE e.owner
    <3> DEFINE e == sbq[c][i]
               f == [e EXCEPT !.owner = Nobody]
    <3>1. e \in Requests
      BY <2>2, <2>3, ElementOfSeq
    <3>2. q[c][i] = IF e.owner = p THEN f ELSE e
      BY <2>1
    <3> HIDE DEF e, q
    <3>3. f \in Requests /\ f.owner = Nobody /\ f.tag = e.tag /\ f.mode = e.mode /\ f.txs = e.txs /\ f.rs = e.rs
      BY <3>1 DEF Requests
    <3> HIDE DEF f
    <3> QED
      BY <3>1, <3>2, <3>3 DEF e
  <2> HIDE DEF q
  <2>5. DOMAIN q[c] = 1 .. Len(sbq[c]) /\ \A i \in 1 .. Len(sbq[c]) : q[c][i] \in Requests
    BY <2>1, <2>3, <2>4
  <2>6. q[c] = [i \in 1 .. Len(sbq[c]) |-> q[c][i]]
    BY <2>1, <2>3
  <2>7. q[c] \in Seq(Requests)
    BY <2>3, <2>5, <2>6, SeqDef
  <2> QED
    BY <2>3, <2>4, <2>5, <2>7
<1>2. q = [c \in Contract |-> q[c]]
  BY DEF Reset
<1> HIDE DEF q
<1>3. q \in [Contract -> Seq(Requests)]
  BY <1>1, <1>2
<1> QED
  BY <1>1, <1>3 DEF q

\* The group a sandbox works on, with one more result.
More(c) == [First(c) EXCEPT !.rs = Append(First(c).rs, NextResult(c))]

LEMMA MoreFacts ==
    ASSUME TypeOK, InvRequests, NEW c \in Contract, SandboxStep(c), Len(First(c).rs) + 1 < Len(First(c).txs)
    PROVE  LET e == First(c)
               f == More(c) IN
           /\ f \in Requests /\ f.owner = e.owner /\ f.tag = e.tag /\ f.mode = e.mode /\ f.txs = e.txs
           /\ f.rs = Append(e.rs, NextResult(c)) /\ Len(f.rs) < Len(f.txs)
           /\ sbq' = [sbq EXCEPT ![c] = [sbq[c] EXCEPT ![1] = f]]
           /\ sbq'[c] \in Seq(Requests) /\ DOMAIN sbq'[c] = DOMAIN sbq[c]
           /\ \A i \in DOMAIN sbq[c] : sbq'[c][i] = IF i = 1 THEN f ELSE sbq[c][i]
           /\ \A d \in Contract \ {c} : sbq'[d] = sbq[d]
<1> DEFINE e == First(c)
           f == More(c)
           rs == Append(e.rs, NextResult(c))
<1>1. f = [e EXCEPT !.rs = rs]
  BY DEF More
<1>2. sbq[c] # <<>> /\ sbq' = IF Len(rs) < Len(e.txs) THEN [sbq EXCEPT ![c] = [sbq[c] EXCEPT ![1] = [sbq[c][1] EXCEPT !.rs = rs]]]
                              ELSE [sbq EXCEPT ![c] = Tail(sbq[c])]
  BY SandboxFacts
<1>3. /\ sbq[c] \in Seq(Requests) /\ 1 \in DOMAIN sbq[c] /\ DOMAIN sbq[c] = 1 .. Len(sbq[c])
      /\ e = sbq[c][1] /\ e \in Requests
      /\ rs \in Seq(Results) /\ Len(rs) = Len(e.rs) + 1
  BY <1>2, FirstFacts
<1> HIDE DEF e, f, rs
<1>4. f \in Requests /\ f.owner = e.owner /\ f.tag = e.tag /\ f.mode = e.mode /\ f.txs = e.txs /\ f.rs = rs
  BY <1>1, <1>3 DEF Requests
<1>5. Len(rs) < Len(e.txs)
  BY <1>3 DEF e
<1> DEFINE q == [sbq[c] EXCEPT ![1] = f]
<1>6. sbq' = [sbq EXCEPT ![c] = q]
  BY <1>1, <1>2, <1>3, <1>5
<1>7. q \in Seq(Requests) /\ DOMAIN q = DOMAIN sbq[c] /\ \A i \in DOMAIN sbq[c] : q[i] = IF i = 1 THEN f ELSE sbq[c][i]
  BY <1>3, <1>4, ExceptSeq
<1> HIDE DEF q
<1>8. sbq'[c] = q /\ \A d \in Contract \ {c} : sbq'[d] = sbq[d]
  BY <1>6 DEF TypeOK
<1> QED
  BY <1>4, <1>5, <1>6, <1>7, <1>8 DEF e, f, rs, q

\* The last result is there.
LEMMA TailFacts ==
    ASSUME TypeOK, InvRequests, NEW c \in Contract, SandboxStep(c), ~(Len(First(c).rs) + 1 < Len(First(c).txs))
    PROVE  /\ sbq' = [sbq EXCEPT ![c] = Tail(sbq[c])]
           /\ sbq'[c] \in Seq(Requests) /\ DOMAIN sbq'[c] = 1 .. Len(sbq[c]) - 1
           /\ \A i \in DOMAIN sbq'[c] : i + 1 \in DOMAIN sbq[c] /\ sbq'[c][i] = sbq[c][i + 1]
           /\ \A d \in Contract \ {c} : sbq'[d] = sbq[d]
<1>1. sbq[c] # <<>> /\ sbq' = [sbq EXCEPT ![c] = Tail(sbq[c])]
  <2>1. sbq[c] # <<>> /\ sbq' = IF Len(Append(First(c).rs, NextResult(c))) < Len(First(c).txs)
                                THEN [sbq EXCEPT ![c] = [sbq[c] EXCEPT ![1] = [sbq[c][1] EXCEPT !.rs = Append(First(c).rs, NextResult(c))]]]
                                ELSE [sbq EXCEPT ![c] = Tail(sbq[c])]
    BY SandboxFacts
  <2>2. Len(Append(First(c).rs, NextResult(c))) = Len(First(c).rs) + 1
    BY <2>1, FirstFacts
  <2> QED
    BY <2>1, <2>2
<1>2. sbq[c] \in Seq(Requests) /\ Len(sbq[c]) \in Nat \ {0} /\ DOMAIN sbq[c] = 1 .. Len(sbq[c])
  BY <1>1, FirstFacts
<1> DEFINE q == Tail(sbq[c])
<1>3. q \in Seq(Requests) /\ Len(q) = Len(sbq[c]) - 1 /\ \A i \in 1 .. Len(q) : q[i] = sbq[c][i + 1]
  BY <1>1, <1>2, HeadTailProperties
<1>4. DOMAIN q = 1 .. Len(sbq[c]) - 1
  BY <1>3, LenProperties
<1> HIDE DEF q
<1>5. sbq'[c] = q /\ \A d \in Contract \ {c} : sbq'[d] = sbq[d]
  BY <1>1 DEF TypeOK, q
<1>6. \A i \in 1 .. Len(sbq[c]) - 1 : i + 1 \in 1 .. Len(sbq[c])
  BY <1>2
<1> QED
  BY <1>1, <1>2, <1>3, <1>4, <1>5, <1>6

LEMMA RequestsTypeStep == ASSUME TypeOK, InvRequests, Next PROVE RequestsOK'
<1>0. RequestsOK
  BY TypeParts
<1>1. ASSUME NEW p \in Preloader, Dispatch(p) PROVE RequestsOK'
  <2> DEFINE c == Group(p)[1].cid
             mode == Door(dstate[c], Group(p)[1], View(job[p].tag), world)
             e == Request(p, mode)
  <2>1. /\ c \in Contract
        /\ mode = "refused" => sbq' = sbq
        /\ mode # "refused" => sbq' = [sbq EXCEPT ![c] = Append(sbq[c], e)] /\ e \in Requests
    BY <1>1, DispatchFacts
  <2>2. e.rs = <<>> /\ e.txs = Group(p)
    BY DEF Request
  <2>3. Len(<<>>) < Len(Group(p))
    <3>1. job[p].at = "next" /\ Len(job[p].rs) < Len(TxsOf(p))
      BY <1>1 DEF Dispatch
    <3> QED
      BY <3>1, GroupFacts
  <2> HIDE DEF c, mode, e
  <2>4. CASE sbq' = sbq
    BY <1>0, <2>4 DEF RequestsOK
  <2>5. CASE sbq' = [sbq EXCEPT ![c] = Append(sbq[c], e)] /\ e \in Requests
    <3>1. sbq[c] \in Seq(Requests) /\ Len(sbq[c]) \in Nat /\ DOMAIN sbq[c] = 1 .. Len(sbq[c])
      BY <1>0, <2>1, LenProperties DEF RequestsOK
    <3> DEFINE q == Append(sbq[c], e)
    <3>2. /\ q \in Seq(Requests) /\ DOMAIN q = 1 .. Len(sbq[c]) + 1
          /\ \A i \in 1 .. Len(sbq[c]) : q[i] = sbq[c][i]
          /\ q[Len(sbq[c]) + 1] = e
      BY <2>5, <3>1, AppendProperties, LenProperties
    <3> HIDE DEF q
    <3>3. sbq'[c] = q /\ \A d \in Contract \ {c} : sbq'[d] = sbq[d]
      BY <1>0, <2>1, <2>5 DEF RequestsOK, q
    <3>4. sbq' \in [Contract -> Seq(Requests)]
      BY <1>0, <2>5, <3>2 DEF RequestsOK, q
    <3>5. ASSUME NEW d \in Contract, NEW i \in DOMAIN sbq'[d] PROVE Len(sbq'[d][i].rs) < Len(sbq'[d][i].txs)
      <4>1. CASE d # c
        BY <1>0, <3>3, <3>5, <4>1 DEF RequestsOK
      <4>2. CASE d = c /\ i \in 1 .. Len(sbq[c])
        BY <1>0, <3>1, <3>2, <3>3, <4>2 DEF RequestsOK
      <4>3. CASE d = c /\ i = Len(sbq[c]) + 1
        BY <2>2, <2>3, <3>2, <3>3, <4>3
      <4> QED
        BY <3>1, <3>2, <3>3, <3>5, <4>1, <4>2, <4>3
    <3> QED
      BY <3>4, <3>5 DEF RequestsOK
  <2> QED
    BY <2>1, <2>4, <2>5
<1>2. ASSUME NEW p \in Preloader, TimeoutGroup(p) PROVE RequestsOK'
  <2>1. sbq' = Reset(p)
    BY <1>2 DEF TimeoutGroup, Reset
  <2> DEFINE q == Reset(p)
  <2>2. /\ q \in [Contract -> Seq(Requests)]
        /\ \A c \in Contract : DOMAIN q[c] = DOMAIN sbq[c]
        /\ \A c \in Contract : \A i \in DOMAIN q[c] : q[c][i].txs = sbq[c][i].txs /\ q[c][i].rs = sbq[c][i].rs
    BY ResetFacts
  <2> HIDE DEF q
  <2> QED
    BY <1>0, <2>1, <2>2 DEF RequestsOK, q
<1>3. ASSUME NEW c \in Contract, SandboxStep(c) PROVE RequestsOK'
  <2>0. sbq[c] # <<>>
    BY <1>3, SandboxFacts
  <2>1. CASE Len(First(c).rs) + 1 < Len(First(c).txs)
    <3> DEFINE f == More(c)
    <3>1. /\ Len(f.rs) < Len(f.txs)
          /\ sbq' = [sbq EXCEPT ![c] = [sbq[c] EXCEPT ![1] = f]]
          /\ sbq'[c] \in Seq(Requests) /\ DOMAIN sbq'[c] = DOMAIN sbq[c]
          /\ \A i \in DOMAIN sbq[c] : sbq'[c][i] = IF i = 1 THEN f ELSE sbq[c][i]
          /\ \A d \in Contract \ {c} : sbq'[d] = sbq[d]
      BY <1>3, <2>1, MoreFacts
    <3> HIDE DEF f
    <3>2. sbq' \in [Contract -> Seq(Requests)]
      BY <1>0, <3>1 DEF RequestsOK
    <3>3. \A d \in Contract : \A i \in DOMAIN sbq'[d] : Len(sbq'[d][i].rs) < Len(sbq'[d][i].txs)
      BY <1>0, <3>1 DEF RequestsOK
    <3> QED
      BY <3>2, <3>3 DEF RequestsOK
  <2>2. CASE ~(Len(First(c).rs) + 1 < Len(First(c).txs))
    <3>1. /\ sbq' = [sbq EXCEPT ![c] = Tail(sbq[c])]
          /\ sbq'[c] \in Seq(Requests)
          /\ \A i \in DOMAIN sbq'[c] : i + 1 \in DOMAIN sbq[c] /\ sbq'[c][i] = sbq[c][i + 1]
          /\ \A d \in Contract \ {c} : sbq'[d] = sbq[d]
      BY <1>3, <2>2, TailFacts
    <3>2. sbq' \in [Contract -> Seq(Requests)]
      BY <1>0, <3>1 DEF RequestsOK
    <3>3. \A d \in Contract : \A i \in DOMAIN sbq'[d] : Len(sbq'[d][i].rs) < Len(sbq'[d][i].txs)
      BY <1>0, <3>1 DEF RequestsOK
    <3> QED
      BY <3>2, <3>3 DEF RequestsOK
  <2> QED
    BY <2>1, <2>2
<1>4. sbq' = sbq => RequestsOK'
  BY <1>0 DEF RequestsOK
<1>5. \/ \E p \in Preloader, b \in Block, t \in Tag : Start(p, b, t)
      \/ \E p \in Preloader : Fail(p) \/ Finish(p)
      \/ \E t \in Tag : Expire(t)
      \/ (\E b \in Block : Store(b))
      \/ Rollback
      => sbq' = sbq
  BY Zenon DEF Start, Fail, Finish, Expire, Store, Rollback
<1> QED
  BY <1>1, <1>2, <1>3, <1>4, <1>5, Zenon DEF Next

LEMMA OverlaysStep == ASSUME TypeOK, InvRequests, Next PROVE OverlaysOK'
<1>0. OverlaysOK
  BY TypeParts
<1>1. ASSUME NEW c \in Contract, SandboxStep(c) PROVE OverlaysOK'
  <2> DEFINE u == First(c).tag
             f == Puts(NextTx(c), NextResult(c).ol)
  <2>1. /\ sbq[c] # <<>> /\ DOMAIN overlay' = Tag /\ \A t \in Tag \ {u} : overlay'[t] = overlay[t]
        /\ overlay'[u] = Over(f, overlay[u]) \/ overlay'[u] = overlay[u]
    BY <1>1, SandboxFacts
  <2>2. u \in Tag /\ IsPart(f)
    BY <2>1, FirstFacts
  <2> HIDE DEF u, f
  <2>3. IsPart(overlay[u])
    BY <1>0, <2>2 DEF OverlaysOK
  <2>4. IsPart(Over(f, overlay[u]))
    BY <2>2, <2>3 DEF IsPart, Over
  <2> QED
    BY <1>0, <2>1, <2>3, <2>4 DEF OverlaysOK
<1>2. ASSUME NEW t \in Tag, overlay' = Free(t) PROVE OverlaysOK'
  <2>1. IsPart(NoWrites)
    BY DEF IsPart, NoWrites
  <2> QED
    BY <1>0, <1>2, <2>1 DEF OverlaysOK, Free
<1>3. overlay' = overlay => OverlaysOK'
  BY <1>0 DEF OverlaysOK
<1>4. ASSUME NEW p \in Preloader, Finish(p) PROVE OverlaysOK'
  <2>1. overlay' = Free(job[p].tag) /\ job[p].at # "idle"
    BY <1>4 DEF Finish
  <2>2. job[p].tag \in Tag
    BY <2>1, JobFacts
  <2> QED
    BY <1>2, <2>1, <2>2
<1>5. ASSUME NEW t \in Tag, Expire(t) PROVE OverlaysOK'
  BY <1>2, <1>5 DEF Expire
<1>6. \/ \E p \in Preloader, b \in Block, t \in Tag : Start(p, b, t)
      \/ \E p \in Preloader : Dispatch(p) \/ TimeoutGroup(p) \/ Fail(p)
      \/ (\E b \in Block : Store(b))
      \/ Rollback
      => overlay' = overlay
  BY Zenon DEF Start, Dispatch, TimeoutGroup, Fail, Store, Rollback
<1> QED
  BY <1>1, <1>3, <1>4, <1>5, <1>6, Zenon DEF Next

\* What a stored block writes.
LEMMA StoreFacts ==
    ASSUME TypeOK, NEW b \in Block, Store(b)
    PROVE  LET ol == Logs(Isolated(world, b).rs) IN
           /\ ol \in Seq(OperLogs) /\ world' = Apply(world, ol) /\ IsWorld(world')
           /\ chain' = Append(chain, [block |-> b, ol |-> ol, was |-> world])
           /\ job' = Disturbed(Preloader) /\ UNCHANGED <<overlay, dstate, class, sbq, tainted>>
<1> DEFINE ol == Logs(Isolated(world, b).rs)
<1>1. /\ world' = Apply(world, ol) /\ chain' = Append(chain, [block |-> b, ol |-> ol, was |-> world])
      /\ job' = Disturbed(Preloader) /\ UNCHANGED <<overlay, dstate, class, sbq, tainted>>
  BY Zenon DEF Store
<1>2. IsWorld(world)
  BY DEF TypeOK
<1>3. ol \in Seq(OperLogs)
  BY <1>2, IsolatedType, LogsType
<1> HIDE DEF ol
<1>4. IsWorld(world')
  BY <1>1, <1>2, <1>3, ApplyType
<1> QED
  BY <1>1, <1>3, <1>4 DEF ol

LEMMA LastFacts ==
    ASSUME TypeOK, chain # <<>>
    PROVE  /\ Last(chain) = chain[Len(chain)] /\ Len(chain) \in Nat \ {0} /\ Len(chain) \in DOMAIN chain
           /\ DOMAIN chain = 1 .. Len(chain)
           /\ Last(chain).block \in Block /\ Last(chain).ol \in Seq(OperLogs) /\ IsWorld(Last(chain).was)
<1> DEFINE R == [block : Block, ol : Seq(OperLogs), was : {chain[i].was : i \in DOMAIN chain}]
<1>1. chain \in Seq(R)
  BY DEF TypeOK
<1> HIDE DEF R
<1>2. Len(chain) \in Nat \ {0} /\ DOMAIN chain = 1 .. Len(chain) /\ Last(chain) = chain[Len(chain)]
  BY <1>1, LenProperties, EmptySeq DEF Last
<1>3. Last(chain) \in R
  BY <1>1, <1>2, ElementOfSeq
<1>4. IsWorld(Last(chain).was)
  BY <1>2 DEF TypeOK
<1> QED
  BY <1>2, <1>3, <1>4 DEF R

LEMMA RollbackFacts ==
    ASSUME TypeOK, Rollback
    PROVE  /\ chain # <<>> /\ world' = Undo(world, Last(chain).ol) /\ IsWorld(world')
           /\ chain' = SubSeq(chain, 1, Len(chain) - 1)
           /\ job' = Disturbed(Preloader) /\ UNCHANGED <<overlay, dstate, class, sbq, tainted>>
<1>1. /\ chain # <<>> /\ world' = Undo(world, Last(chain).ol)
      /\ chain' = Front(chain)
      /\ job' = Disturbed(Preloader) /\ UNCHANGED <<overlay, dstate, class, sbq, tainted>>
  BY DEF Rollback
<1>2. IsWorld(world')
  <2>1. IsWorld(world) /\ Last(chain).ol \in Seq(OperLogs)
    BY <1>1, LastFacts DEF TypeOK
  <2> QED
    BY <1>1, <2>1, ApplyType
<1>3. Front(chain) = SubSeq(chain, 1, Len(chain) - 1)
  BY DEF Front
<1> QED
  BY <1>1, <1>2, <1>3

LEMMA ChainStep == ASSUME TypeOK, Next PROVE ChainOK'
<1> DEFINE W == {chain[i].was : i \in DOMAIN chain}
           R(V) == [block : Block, ol : Seq(OperLogs), was : V]
<1>1. chain \in Seq(R(W)) /\ \A i \in DOMAIN chain : IsWorld(chain[i].was)
  BY DEF TypeOK
<1>2. Len(chain) \in Nat /\ DOMAIN chain = 1 .. Len(chain) /\ \A i \in DOMAIN chain : chain[i] \in R(W)
  <2> HIDE DEF R, W
  <2> QED
    BY <1>1, LenProperties, ElementOfSeq
<1>3. ASSUME NEW n \in Nat, NEW s, s = [i \in 1 .. n |-> s[i]], chain' = s,
             \A i \in 1 .. n : s[i].was \in {s[j].was : j \in 1 .. n} => s[i] \in R({s[j].was : j \in 1 .. n}),
             \A i \in 1 .. n : IsWorld(s[i].was)
      PROVE  ChainOK'
  <2>1. DOMAIN s = 1 .. n
    BY <1>3
  <2>2. \A i \in 1 .. n : s[i].was \in {s[j].was : j \in 1 .. n}
    OBVIOUS
  <2> DEFINE V == {s[j].was : j \in 1 .. n}
             T == R(V)
  <2>3. \A i \in 1 .. n : s[i] \in T
    BY <1>3, <2>2
  <2>4. s \in Seq(T)
    <3> HIDE DEF T
    <3> QED
      BY <1>3, <2>3, SeqDef
  <2> QED
    BY <1>3, <2>1, <2>4 DEF ChainOK
<1>4. ASSUME NEW b \in Block, Store(b) PROVE ChainOK'
  <2> DEFINE e == [block |-> b, ol |-> Logs(Isolated(world, b).rs), was |-> world]
             n == Len(chain) + 1
             s == Append(chain, e)
             V == {s[j].was : j \in 1 .. n}
  <2>1. chain' = s /\ Logs(Isolated(world, b).rs) \in Seq(OperLogs) /\ IsWorld(world)
    BY <1>4, StoreFacts DEF TypeOK
  <2>2. e.block \in Block /\ e.ol \in Seq(OperLogs) /\ e.was = world /\ e = [block |-> e.block, ol |-> e.ol, was |-> e.was]
    BY <2>1
  <2> HIDE DEF e
  <2>3. /\ s = [i \in 1 .. n |-> s[i]] /\ \A i \in 1 .. Len(chain) : s[i] = chain[i]
        /\ s[n] = e /\ n \in Nat
    <3>1. s \in Seq(R(W) \cup {e})
      <4> HIDE DEF R, W
      <4>1. chain \in Seq(R(W) \cup {e})
        BY <1>1, <1>2, SeqDef
      <4> QED
        BY <4>1, AppendProperties
    <3> DEFINE T == R(W) \cup {e}
    <3>2. chain \in Seq(T) /\ e \in T
      <4> HIDE DEF R, W
      <4> QED
        BY <1>2, <1>1, SeqDef
    <3> HIDE DEF T
    <3>3. Len(s) = n /\ s[n] = e /\ \A i \in 1 .. Len(chain) : s[i] = chain[i]
      BY <3>2, AppendProperties
    <3>4. s = [i \in 1 .. n |-> s[i]]
      <4>1. s \in Seq(T)
        BY <3>1 DEF T
      <4> HIDE DEF s, n
      <4> QED
        BY <3>3, <4>1
    <3> QED
      BY <1>2, <3>3, <3>4
  <2> HIDE DEF s
  <2>4. \A i \in 1 .. n : i \in 1 .. Len(chain) \/ i = n
    BY <1>2
  <2>5. ASSUME NEW i \in 1 .. n PROVE (s[i].was \in V => s[i] \in R(V)) /\ IsWorld(s[i].was)
    <3> HIDE DEF V, n
    <3>1. CASE i \in 1 .. Len(chain)
      <4>1. s[i] \in R(W) /\ IsWorld(s[i].was)
        BY <1>1, <1>2, <2>3, <3>1
      <4> HIDE DEF W
      <4> QED
        BY <4>1
    <3>2. CASE i = n
      <4>1. s[i] = e /\ IsWorld(e.was)
        BY <2>1, <2>2, <2>3, <3>2
      <4>2. e.was \in V => [block |-> e.block, ol |-> e.ol, was |-> e.was] \in R(V)
        BY <2>2
      <4> QED
        BY <2>2, <4>1, <4>2, Zenon
    <3> QED
      BY <2>4, <3>1, <3>2
  <2> QED
    BY <1>3, <2>1, <2>3, <2>5
<1>5. ASSUME Rollback PROVE ChainOK'
  <2> DEFINE n == Len(chain) - 1
             s == SubSeq(chain, 1, n)
             V == {s[j].was : j \in 1 .. n}
  <2>1. chain' = s /\ n \in Nat
    BY <1>5, <1>2, RollbackFacts, LastFacts
  <2>2. s = [i \in 1 .. n |-> s[i]] /\ \A i \in 1 .. n : s[i] = chain[i] /\ i \in DOMAIN chain
    <3>1. \A i \in 1 .. n : chain[i] \in R(W)
      BY <1>2
    <3> HIDE DEF R, W, s
    <3>2. s \in Seq(R(W)) /\ Len(s) = n /\ \A i \in 1 .. n : s[i] = chain[i]
      <4>1. s \in Seq(R(W)) /\ Len(s) = (IF 1 <= n THEN n - 1 + 1 ELSE 0) /\ \A i \in 1 .. n - 1 + 1 : s[i] = chain[1 + i - 1]
        BY <1>1, <2>1, <3>1, SubSeqProperties DEF s
      <4>2. n - 1 + 1 = n /\ (1 <= n \/ n = 0) /\ \A i \in 1 .. n : 1 + i - 1 = i
        BY <2>1
      <4> HIDE DEF n
      <4> QED
        BY <2>1, <4>1, <4>2
    <3> QED
      BY <1>2, <2>1, <3>2, SeqDef
  <2> HIDE DEF s
  <2>3. ASSUME NEW i \in 1 .. n PROVE (s[i].was \in V => s[i] \in R(V)) /\ IsWorld(s[i].was)
    <3>1. s[i] \in R(W) /\ IsWorld(s[i].was)
      BY <1>1, <1>2, <2>2
    <3> HIDE DEF W, V
    <3> QED
      BY <3>1
  <2> QED
    BY <1>3, <2>1, <2>2, <2>3
<1>6. chain' = chain => ChainOK'
  BY <1>1 DEF ChainOK
<1>7. \/ \E p \in Preloader, b \in Block, t \in Tag : Start(p, b, t)
      \/ \E p \in Preloader : Dispatch(p) \/ TimeoutGroup(p) \/ Fail(p) \/ Finish(p)
      \/ \E c \in Contract : SandboxStep(c)
      \/ \E t \in Tag : Expire(t)
      => chain' = chain
  BY Zenon DEF Start, Dispatch, TimeoutGroup, Fail, Finish, SandboxStep, Expire
<1> QED
  BY <1>4, <1>5, <1>6, <1>7, Zenon DEF Next

LEMMA RestStep == ASSUME TypeOK, InvRequests, Next PROVE RestOK'
<1>0. RestOK
  BY TypeParts
<1>1. ASSUME NEW p \in Preloader, NEW b \in Block, NEW t \in Tag, Start(p, b, t) PROVE RestOK'
  BY <1>0, <1>1 DEF RestOK, Start
<1>2. ASSUME NEW p \in Preloader, Dispatch(p) PROVE RestOK'
  <2> DEFINE c == Group(p)[1].cid
             mode == Door(dstate[c], Group(p)[1], View(job[p].tag), world)
  <2>1. /\ c \in Contract
        /\ dstate' = IF mode = "refused" THEN dstate ELSE [dstate EXCEPT ![c] = mode]
        /\ mode # "refused" => mode \in {"snapshot", "leveldb"}
        /\ UNCHANGED <<world, class, tainted>>
    BY <1>2, DispatchFacts
  <2> HIDE DEF c, mode
  <2> QED
    BY <1>0, <2>1 DEF RestOK
<1>3. ASSUME NEW p \in Preloader, TimeoutGroup(p) PROVE RestOK'
  BY <1>0, <1>3 DEF RestOK, TimeoutGroup
<1>4. ASSUME NEW p \in Preloader, Fail(p) PROVE RestOK'
  <2>1. job[p].tag \in Tag
    BY <1>4, JobFacts DEF Fail
  <2> QED
    BY <1>0, <1>4, <2>1 DEF RestOK, Fail
<1>5. ASSUME NEW p \in Preloader, Finish(p) PROVE RestOK'
  BY <1>0, <1>5 DEF RestOK, Finish
<1>6. ASSUME NEW c \in Contract, SandboxStep(c) PROVE RestOK'
  <2> DEFINE e == First(c)
             tx == NextTx(c)
             r == NextResult(c)
             code == NextCode(c)
  <2>1. /\ sbq[c] # <<>> /\ UNCHANGED <<world, dstate>>
        /\ class' = IF r.code \in {0, 102} /\ tx.op # "state" THEN [class EXCEPT ![c] = code] ELSE class
        /\ tainted' = IF e.owner = Nobody /\ r.code = 0 THEN tainted \cup {e.tag} ELSE tainted
    BY <1>6, SandboxFacts
  <2>2. e.tag \in Tag /\ code \in Nat \cup {None}
    BY <2>1, FirstFacts
  <2> HIDE DEF e, tx, r, code
  <2> QED
    BY <1>0, <2>1, <2>2 DEF RestOK
<1>7. ASSUME NEW t \in Tag, Expire(t) PROVE RestOK'
  BY <1>0, <1>7 DEF RestOK, Expire
<1>8. ASSUME NEW b \in Block, Store(b) PROVE RestOK'
  BY <1>0, <1>8, StoreFacts DEF RestOK
<1>9. ASSUME Rollback PROVE RestOK'
  BY <1>0, <1>9, RollbackFacts DEF RestOK
<1> QED
  BY <1>1, <1>2, <1>3, <1>4, <1>5, <1>6, <1>7, <1>8, <1>9, Zenon DEF Next

LEMMA TypeStep == ASSUME TypeOK, InvRequests, Next PROVE TypeOK'
<1>1. JobsOK' /\ RequestsOK' /\ OverlaysOK' /\ ChainOK' /\ RestOK'
  BY JobsStep, RequestsTypeStep, OverlaysStep, ChainStep, RestStep
<1> QED
  BY <1>1 DEF TypeOK, JobsOK, RequestsOK, OverlaysOK, ChainOK, RestOK, IsPart

-----------------------------------------------------------------------------
(* Requests and the jobs that wait for them.                                *)

SameWork(q) ==
    /\ job'[q].at = job[q].at /\ job'[q].tag = job[q].tag
    /\ job'[q].block = job[q].block /\ job'[q].rs = job[q].rs

\* What comes next begins a group.
AtGroup(j) == j.at # "idle" /\ Len(j.rs) < Len(Txs[j.block]) => ~Joins(Txs[j.block], Len(j.rs) + 1)

LEMMA SameGroup ==
    ASSUME NEW p, job'[p].block = job[p].block, job'[p].rs = job[p].rs
    PROVE  Group(p)' = Group(p) /\ TxsOf(p)' = TxsOf(p)
  BY DEF Group, TxsOf

\* The preloaders that own a group, and none that they do not.
LEMMA OwnerFacts ==
    ASSUME TypeOK, InvRequests, NEW c \in Contract, NEW i \in DOMAIN sbq[c], sbq[c][i].owner # Nobody
    PROVE  LET p == sbq[c][i].owner IN
           /\ p \in Preloader /\ job[p].at = "asked" /\ job[p].at # "idle" /\ Len(job[p].rs) < Len(TxsOf(p))
           /\ job[p].tag = sbq[c][i].tag /\ sbq[c][i].txs = Group(p) /\ Group(p)[1].cid = c
<1> DEFINE e == sbq[c][i]
           p == e.owner
<1>1. e.owner \in Preloader \cup {Nobody}
  BY RequestFacts
<1>2. p \in Preloader /\ job[p].at = "asked" /\ job[p].tag = e.tag /\ e.txs = Group(p) /\ \A n \in DOMAIN e.txs : e.txs[n].cid = c
  BY <1>1 DEF InvRequests
<1> HIDE DEF p
<1>3. job[p].at # "idle" /\ Len(job[p].rs) < Len(TxsOf(p))
  BY <1>2 DEF InvRequests
<1>4. Group(p) \in Seq(Transactions) /\ Len(Group(p)) \in Nat \ {0}
  BY <1>2, <1>3, GroupFacts
<1>5. 1 \in DOMAIN Group(p)
  BY <1>4, LenProperties
<1>6. Group(p)[1].cid = c
  BY <1>2, <1>5
<1> QED
  BY <1>2, <1>3, <1>6 DEF p

LEMMA RequestsKept ==
    ASSUME TypeOK, InvRequests, sbq' = sbq,
           \A q \in Preloader : SameWork(q) \/ (job[q].at # "asked" /\ job'[q].at # "asked" /\ AtGroup(job'[q]))
    PROVE  InvRequests'
<1>1. ASSUME NEW c \in Contract, NEW i \in DOMAIN sbq[c]
      PROVE  LET e == sbq[c][i] IN
             /\ \A n \in DOMAIN e.txs : e.txs[n].cid = c
             /\ e.owner # Nobody => job'[e.owner].at = "asked" /\ job'[e.owner].tag = e.tag /\ e.txs = (Group(e.owner))'
  <2> DEFINE e == sbq[c][i]
             p == e.owner
  <2>1. \A n \in DOMAIN e.txs : e.txs[n].cid = c
    BY DEF InvRequests
  <2>2. ASSUME e.owner # Nobody
        PROVE  job'[e.owner].at = "asked" /\ job'[e.owner].tag = e.tag /\ e.txs = (Group(e.owner))'
    <3>1. p \in Preloader /\ job[p].at = "asked" /\ job[p].tag = e.tag /\ e.txs = Group(p)
      BY <2>2, OwnerFacts
    <3>2. SameWork(p)
      BY <3>1
    <3>3. job'[p].at = "asked" /\ job'[p].tag = e.tag /\ job'[p].block = job[p].block /\ job'[p].rs = job[p].rs
      BY <3>1, <3>2 DEF SameWork
    <3>4. p' = p /\ e' = e
      OBVIOUS
    <3> HIDE DEF p, e
    <3>5. Group(p)' = Group(p)
      BY <3>3, <3>4 DEF Group, TxsOf
    <3> QED
      BY <3>1, <3>3, <3>5 DEF p
  <2> QED
    BY <2>1, <2>2
<1>2. ASSUME NEW p \in Preloader
      PROVE  /\ job'[p].at = "asked" => /\ Len(job'[p].rs) < Len(TxsOf(p)')
                                        /\ \E i \in DOMAIN sbq[(Group(p))'[1].cid] : sbq[(Group(p))'[1].cid][i].owner = p
             /\ job'[p].at # "idle" /\ Len(job'[p].rs) < Len(TxsOf(p)') => ~Joins(TxsOf(p)', Len(job'[p].rs) + 1)
  <2>1. CASE SameWork(p)
    <3>1. Group(p)' = Group(p) /\ TxsOf(p)' = TxsOf(p) /\ job'[p].at = job[p].at /\ job'[p].rs = job[p].rs
      BY <2>1, SameGroup DEF SameWork
    <3> QED
      BY <3>1 DEF InvRequests
  <2>2. CASE job'[p].at # "asked" /\ AtGroup(job'[p])
    BY <2>2 DEF AtGroup, TxsOf
  <2> QED
    BY <2>1, <2>2
<1> QED
  BY <1>1, <1>2 DEF InvRequests

\* Groups leave the front of the mailboxes or lose their owner; nothing comes.
LEMMA RequestsShifted ==
    ASSUME TypeOK, InvRequests, NEW sh \in [Contract -> {0, 1}],
           \A c \in Contract : \A i \in DOMAIN sbq'[c] :
              /\ i \in Nat /\ i + sh[c] \in DOMAIN sbq[c]
              /\ sbq'[c][i].txs = sbq[c][i + sh[c]].txs /\ sbq'[c][i].tag = sbq[c][i + sh[c]].tag
              /\ sbq'[c][i].owner \in {sbq[c][i + sh[c]].owner, Nobody}
              /\ sbq'[c][i].owner # Nobody => SameWork(sbq'[c][i].owner),
           \A q \in Preloader :
              \/ /\ SameWork(q)
                 /\ \A c \in Contract : \A k \in DOMAIN sbq[c] :
                       sbq[c][k].owner = q => \E i \in DOMAIN sbq'[c] : sbq'[c][i].owner = q
              \/ job'[q].at # "asked" /\ AtGroup(job'[q])
    PROVE  InvRequests'
<1>1. ASSUME NEW c \in Contract, NEW i \in DOMAIN sbq'[c]
      PROVE  /\ \A n \in DOMAIN sbq'[c][i].txs : sbq'[c][i].txs[n].cid = c
             /\ sbq'[c][i].owner # Nobody =>
                   /\ job'[sbq'[c][i].owner].at = "asked" /\ job'[sbq'[c][i].owner].tag = sbq'[c][i].tag
                   /\ sbq'[c][i].txs = Group(sbq[c][i].owner)'
  <2> DEFINE k == i + sh[c]
             e == sbq[c][k]
             p == sbq'[c][i].owner
  <2>1. k \in DOMAIN sbq[c] /\ sbq'[c][i].txs = e.txs /\ sbq'[c][i].tag = e.tag /\ p \in {e.owner, Nobody}
        /\ (p # Nobody => SameWork(p))
    OBVIOUS
  <2> HIDE DEF k
  <2>2. \A n \in DOMAIN e.txs : e.txs[n].cid = c
    BY <2>1 DEF InvRequests
  <2>3. ASSUME p # Nobody
        PROVE  job'[p].at = "asked" /\ job'[p].tag = e.tag /\ e.txs = Group(sbq[c][i].owner)'
    <3>1. p = e.owner /\ e.owner # Nobody
      BY <2>1, <2>3
    <3>2. job[p].at = "asked" /\ job[p].tag = e.tag /\ e.txs = Group(p)
      BY <2>1, <3>1, OwnerFacts
    <3>3. job'[p].at = "asked" /\ job'[p].tag = e.tag /\ job'[p].block = job[p].block /\ job'[p].rs = job[p].rs
      BY <2>1, <2>3, <3>2 DEF SameWork
    <3>4. (sbq[c][i].owner)' = p
      OBVIOUS
    <3> HIDE DEF p, e
    <3>5. Group(sbq[c][i].owner)' = Group(p)
      BY <3>3, <3>4 DEF Group, TxsOf
    <3> QED
      BY <3>2, <3>3, <3>5
  <2> QED
    BY <2>1, <2>2, <2>3
<1>2. ASSUME NEW c \in Contract, NEW d \in Contract, NEW i \in DOMAIN sbq'[c], NEW j \in DOMAIN sbq'[d],
             sbq'[c][i].owner = sbq'[d][j].owner, sbq'[c][i].owner # Nobody
      PROVE  c = d /\ i = j
  <2> DEFINE k == i + sh[c]
             l == j + sh[d]
  <2>1. /\ k \in DOMAIN sbq[c] /\ sbq'[c][i].owner = sbq[c][k].owner /\ i \in Nat
        /\ l \in DOMAIN sbq[d] /\ sbq'[d][j].owner = sbq[d][l].owner /\ j \in Nat
    BY <1>2
  <2> HIDE DEF k, l
  <2>2. c = d /\ k = l
    <3>1. \A x, y \in Contract : \A m \in DOMAIN sbq[x], n \in DOMAIN sbq[y] :
             sbq[x][m].owner = sbq[y][n].owner /\ sbq[x][m].owner # Nobody => x = y /\ m = n
      BY DEF InvRequests
    <3>2. sbq[c][k].owner = sbq[d][l].owner /\ sbq[c][k].owner # Nobody
      BY <1>2, <2>1
    <3> QED
      BY <2>1, <3>1, <3>2
  <2>3. i + sh[c] = j + sh[c] /\ sh[c] \in Nat
    BY <2>2 DEF k, l
  <2> QED
    BY <2>1, <2>2, <2>3
<1>3. ASSUME NEW p \in Preloader
      PROVE  /\ job'[p].at = "asked" => /\ Len(job'[p].rs) < Len(TxsOf(p)')
                                        /\ \E i \in DOMAIN sbq'[(Group(p))'[1].cid] : sbq'[(Group(p))'[1].cid][i].owner = p
             /\ job'[p].at # "idle" /\ Len(job'[p].rs) < Len(TxsOf(p)') => ~Joins(TxsOf(p)', Len(job'[p].rs) + 1)
  <2>1. CASE /\ SameWork(p)
             /\ \A c \in Contract : \A k \in DOMAIN sbq[c] :
                   sbq[c][k].owner = p => \E i \in DOMAIN sbq'[c] : sbq'[c][i].owner = p
    <3>1. Group(p)' = Group(p) /\ TxsOf(p)' = TxsOf(p) /\ job'[p].at = job[p].at /\ job'[p].rs = job[p].rs
      BY <2>1, SameGroup DEF SameWork
    <3>2. job[p].at = "asked" => /\ Len(job[p].rs) < Len(TxsOf(p))
                                 /\ \E i \in DOMAIN sbq'[Group(p)[1].cid] : sbq'[Group(p)[1].cid][i].owner = p
      <4> SUFFICES ASSUME job[p].at = "asked"
                   PROVE  /\ Len(job[p].rs) < Len(TxsOf(p))
                          /\ \E i \in DOMAIN sbq'[Group(p)[1].cid] : sbq'[Group(p)[1].cid][i].owner = p
        OBVIOUS
      <4>1. Len(job[p].rs) < Len(TxsOf(p)) /\ \E k \in DOMAIN sbq[Group(p)[1].cid] : sbq[Group(p)[1].cid][k].owner = p
        BY DEF InvRequests
      <4>2. job[p].at # "idle"
        OBVIOUS
      <4>3. Group(p)[1].cid \in Contract
        BY <4>1, <4>2, GroupFacts
      <4> QED
        BY <2>1, <4>1, <4>3
    <3> QED
      BY <3>1, <3>2 DEF InvRequests
  <2>2. CASE job'[p].at # "asked" /\ AtGroup(job'[p])
    BY <2>2 DEF AtGroup, TxsOf
  <2> QED
    BY <2>1, <2>2
<1>4. \A c \in Contract : \A i \in DOMAIN sbq'[c] :
         /\ \A n \in DOMAIN sbq'[c][i].txs : sbq'[c][i].txs[n].cid = c
         /\ sbq'[c][i].owner # Nobody =>
               /\ job'[sbq'[c][i].owner].at = "asked" /\ job'[sbq'[c][i].owner].tag = sbq'[c][i].tag
               /\ sbq'[c][i].txs = Group(sbq[c][i].owner)'
  BY <1>1
<1>5. \A c, d \in Contract : \A i \in DOMAIN sbq'[c], j \in DOMAIN sbq'[d] :
         sbq'[c][i].owner = sbq'[d][j].owner /\ sbq'[c][i].owner # Nobody => c = d /\ i = j
  BY <1>2, Zenon
<1> QED
  BY <1>3, <1>4, <1>5 DEF InvRequests

\* After the last result of a group another begins.
LEMMA AnsweredAtGroup ==
    ASSUME TypeOK, InvRequests, NEW p \in Preloader, job[p].at # "idle", Len(job[p].rs) < Len(TxsOf(p)),
           NEW rs \in Seq(Results), Len(rs) = Len(Group(p))
    PROVE  AtGroup(Answered(p, rs)) /\ AtGroup([Answered(p, rs) EXCEPT !.alone = FALSE])
<1> DEFINE j == Answered(p, rs)
           f == [j EXCEPT !.alone = FALSE]
<1>1. j \in Jobs /\ Len(j.rs) = Len(job[p].rs) + Len(rs) /\ j.block = job[p].block
  BY AnsweredFacts
<1>2. Len(job[p].rs) + Len(rs) < Len(TxsOf(p)) => ~Joins(TxsOf(p), Len(job[p].rs) + Len(rs) + 1)
  BY GroupFacts
<1> HIDE DEF j
<1>3. f.block = j.block /\ f.rs = j.rs
  BY <1>1 DEF Jobs
<1> HIDE DEF f
<1>4. AtGroup(j) /\ AtGroup(f)
  BY <1>1, <1>2, <1>3 DEF AtGroup, TxsOf
<1> QED
  BY <1>4 DEF f, j

\* A group that is passed on comes last in its contract's mailbox.
LEMMA RequestsSent ==
    ASSUME TypeOK, InvRequests, NEW p \in Preloader, Dispatch(p),
           Door(dstate[Group(p)[1].cid], Group(p)[1], View(job[p].tag), world) # "refused"
    PROVE  InvRequests'
<1> DEFINE c == Group(p)[1].cid
           mode == Door(dstate[c], Group(p)[1], View(job[p].tag), world)
           e == Request(p, mode)
           n == Len(sbq[c]) + 1
<1>1. /\ job[p].at = "next" /\ job[p].at # "idle" /\ Len(job[p].rs) < Len(TxsOf(p)) /\ c \in Contract
      /\ sbq' = [sbq EXCEPT ![c] = Append(sbq[c], e)]
      /\ job' = [job EXCEPT ![p] = [job[p] EXCEPT !.at = "asked"]]
      /\ e \in Requests
  BY DispatchFacts
<1>2. e.owner = p /\ e.tag = job[p].tag /\ e.txs = Group(p)
  BY DEF Request
<1>3. /\ Group(p) \in Seq(Transactions) /\ Len(Group(p)) \in Nat \ {0}
      /\ \A j \in 1 .. Len(Group(p)) : Group(p)[j].cid = c
  BY <1>1, GroupFacts
<1>4. \A j \in DOMAIN Group(p) : Group(p)[j].cid = c
  BY <1>3, LenProperties
<1>5. /\ job'[p].at = "asked" /\ job'[p].tag = job[p].tag /\ job'[p].block = job[p].block /\ job'[p].rs = job[p].rs
      /\ \A q \in Preloader \ {p} : job'[q] = job[q]
  <2>1. job[p] \in Jobs /\ DOMAIN job = Preloader
    BY <1>1, JobFacts DEF TypeOK
  <2> DEFINE o == job[p]
             j == [o EXCEPT !.at = "asked"]
  <2>2. job'[p] = j /\ \A q \in Preloader \ {p} : job'[q] = job[q]
    BY <1>1, <2>1
  <2> HIDE DEF o
  <2>3. j.at = "asked" /\ j.tag = o.tag /\ j.block = o.block /\ j.rs = o.rs
    BY <2>1 DEF Jobs, o
  <2> QED
    BY <2>2, <2>3 DEF o
<1>6. sbq[c] \in Seq(Requests) /\ Len(sbq[c]) \in Nat /\ DOMAIN sbq[c] = 1 .. Len(sbq[c])
  BY <1>1, LenProperties DEF TypeOK
<1> DEFINE q == Append(sbq[c], e)
<1>7. /\ q \in Seq(Requests) /\ DOMAIN q = 1 .. n
      /\ \A i \in 1 .. Len(sbq[c]) : q[i] = sbq[c][i]
      /\ q[n] = e
  <2> HIDE DEF c, e
  <2> QED
    BY <1>1, <1>6, AppendProperties, LenProperties
<1>8. sbq'[c] = q /\ \A d \in Contract \ {c} : sbq'[d] = sbq[d]
  BY <1>1 DEF TypeOK
<1>9. \A i \in 1 .. n : i \in DOMAIN sbq[c] \/ i = n
  BY <1>6
<1>10. \A d \in Contract : \A i \in DOMAIN sbq[d] : sbq[d][i].owner # p
  <2> SUFFICES ASSUME NEW d \in Contract, NEW i \in DOMAIN sbq[d], sbq[d][i].owner = p PROVE FALSE
    OBVIOUS
  <2>1. p # Nobody
    BY PreloadAssumption
  <2>2. job[p].at = "asked"
    BY <2>1, OwnerFacts
  <2> QED
    BY <1>1, <2>2
<1> HIDE DEF e, q, n
<1>11. ASSUME NEW d \in Contract, NEW i \in DOMAIN sbq'[d]
       PROVE  \/ i \in DOMAIN sbq[d] /\ sbq'[d][i] = sbq[d][i]
              \/ d = c /\ i = n /\ sbq'[d][i] = e
  <2>1. CASE d # c
    BY <1>8, <2>1
  <2>2. CASE d = c
    <3> HIDE DEF c
    <3> QED
      BY <1>6, <1>7, <1>8, <1>9, <2>2
  <2> QED
    BY <2>1, <2>2
<1> HIDE DEF c
<1>12. Group(p)' = Group(p) /\ TxsOf(p)' = TxsOf(p)
  BY <1>5, SameGroup
<1>13. \A r \in Preloader \ {p} : job'[r].block = job[r].block /\ job'[r].rs = job[r].rs
  BY <1>5
<1>14. \A r \in Preloader : Group(r)' = Group(r) /\ TxsOf(r)' = TxsOf(r)
  BY <1>12, <1>13, SameGroup, Zenon
<1>15. ASSUME NEW d \in Contract, NEW i \in DOMAIN sbq'[d]
       PROVE  /\ \A m \in DOMAIN sbq'[d][i].txs : sbq'[d][i].txs[m].cid = d
              /\ sbq'[d][i].owner # Nobody =>
                    /\ job'[sbq'[d][i].owner].at = "asked" /\ job'[sbq'[d][i].owner].tag = sbq'[d][i].tag
                    /\ sbq'[d][i].txs = Group(sbq[d][i].owner)'
  <2>1. CASE i \in DOMAIN sbq[d] /\ sbq'[d][i] = sbq[d][i]
    <3> DEFINE o == sbq[d][i].owner
    <3>1. \A m \in DOMAIN sbq[d][i].txs : sbq[d][i].txs[m].cid = d
      BY <2>1 DEF InvRequests
    <3>2. ASSUME o # Nobody
          PROVE  job'[o].at = "asked" /\ job'[o].tag = sbq[d][i].tag /\ sbq[d][i].txs = Group(sbq[d][i].owner)'
      <4>1. o \in Preloader /\ o # p /\ job[o].at = "asked" /\ job[o].tag = sbq[d][i].tag /\ sbq[d][i].txs = Group(o)
        BY <1>10, <2>1, <3>2, OwnerFacts
      <4>2. o' = o /\ job'[o] = job[o]
        BY <1>5, <2>1, <4>1
      <4> HIDE DEF o
      <4>3. Group(o)' = Group(o)
        BY <4>2 DEF Group, TxsOf
      <4> QED
        BY <4>1, <4>2, <4>3 DEF o
    <3> QED
      BY <2>1, <3>1, <3>2
  <2>2. CASE d = c /\ i = n /\ sbq'[d][i] = e
    <3>1. (sbq[d][i].owner)' = p
      BY <1>2, <2>2
    <3>2. Group(sbq[d][i].owner)' = Group(p)
      BY <1>5, <3>1 DEF Group, TxsOf
    <3> QED
      BY <1>2, <1>4, <1>5, <2>2, <3>2
  <2> QED
    BY <1>11, <2>1, <2>2
<1>16. ASSUME NEW d \in Contract, NEW f \in Contract, NEW i \in DOMAIN sbq'[d], NEW j \in DOMAIN sbq'[f],
              sbq'[d][i].owner = sbq'[f][j].owner, sbq'[d][i].owner # Nobody
       PROVE  d = f /\ i = j
  <2>1. \/ i \in DOMAIN sbq[d] /\ sbq'[d][i] = sbq[d][i]
        \/ d = c /\ i = n /\ sbq'[d][i] = e
    BY <1>11
  <2>2. \/ j \in DOMAIN sbq[f] /\ sbq'[f][j] = sbq[f][j]
        \/ f = c /\ j = n /\ sbq'[f][j] = e
    BY <1>11
  <2>3. \A x, y \in Contract : \A m \in DOMAIN sbq[x], k \in DOMAIN sbq[y] :
           sbq[x][m].owner = sbq[y][k].owner /\ sbq[x][m].owner # Nobody => x = y /\ m = k
    BY DEF InvRequests
  <2>4. CASE i \in DOMAIN sbq[d] /\ sbq'[d][i] = sbq[d][i] /\ j \in DOMAIN sbq[f] /\ sbq'[f][j] = sbq[f][j]
    BY <1>16, <2>3, <2>4
  <2> QED
    BY <1>2, <1>10, <1>16, <2>1, <2>2, <2>4
<1>17. ASSUME NEW r \in Preloader
       PROVE  /\ job'[r].at = "asked" => /\ Len(job'[r].rs) < Len(TxsOf(r)')
                                         /\ \E i \in DOMAIN sbq'[(Group(r))'[1].cid] : sbq'[(Group(r))'[1].cid][i].owner = r
              /\ job'[r].at # "idle" /\ Len(job'[r].rs) < Len(TxsOf(r)') => ~Joins(TxsOf(r)', Len(job'[r].rs) + 1)
  <2>1. Group(r)' = Group(r) /\ TxsOf(r)' = TxsOf(r) /\ job'[r].rs = job[r].rs
    BY <1>5, <1>14
  <2>2. CASE r = p
    <3>1. n \in DOMAIN sbq'[c] /\ sbq'[c][n].owner = p
      BY <1>2, <1>6, <1>7, <1>8 DEF n
    <3>2. ~Joins(TxsOf(p), Len(job[p].rs) + 1)
      BY <1>1 DEF InvRequests
    <3> QED
      BY <1>1, <2>1, <2>2, <3>1, <3>2 DEF c
  <2>3. CASE r # p
    <3>1. job'[r] = job[r]
      BY <1>5, <2>3
    <3>2. job[r].at = "asked" => /\ Len(job[r].rs) < Len(TxsOf(r)) /\ job[r].at # "idle"
                                 /\ \E i \in DOMAIN sbq[Group(r)[1].cid] : sbq[Group(r)[1].cid][i].owner = r
      BY DEF InvRequests
    <3>3. \A d \in Contract : \A i \in DOMAIN sbq[d] : i \in DOMAIN sbq'[d] /\ sbq'[d][i] = sbq[d][i]
      BY <1>6, <1>7, <1>8 DEF n
    <3>4. job[r].at = "asked" => Group(r)[1].cid \in Contract
      BY <3>2, GroupFacts
    <3>5. job[r].at # "idle" /\ Len(job[r].rs) < Len(TxsOf(r)) => ~Joins(TxsOf(r), Len(job[r].rs) + 1)
      BY DEF InvRequests
    <3> QED
      BY <2>1, <3>1, <3>2, <3>3, <3>4, <3>5
  <2> QED
    BY <2>2, <2>3
<1>18. \A d \in Contract : \A i \in DOMAIN sbq'[d] :
          /\ \A m \in DOMAIN sbq'[d][i].txs : sbq'[d][i].txs[m].cid = d
          /\ sbq'[d][i].owner # Nobody =>
                /\ job'[sbq'[d][i].owner].at = "asked" /\ job'[sbq'[d][i].owner].tag = sbq'[d][i].tag
                /\ sbq'[d][i].txs = Group(sbq[d][i].owner)'
  BY <1>15
<1>19. \A d, f \in Contract : \A i \in DOMAIN sbq'[d], j \in DOMAIN sbq'[f] :
          sbq'[d][i].owner = sbq'[f][j].owner /\ sbq'[d][i].owner # Nobody => d = f /\ i = j
  BY <1>16
<1> QED
  BY <1>17, <1>18, <1>19, SMTT(30) DEF InvRequests

LEMMA RequestsOwners ==
    ASSUME TypeOK, NEW c \in Contract, NEW i \in DOMAIN sbq[c]
    PROVE  /\ DOMAIN sbq[c] = 1 .. Len(sbq[c]) /\ Len(sbq[c]) \in Nat
           /\ sbq[c][i].owner \in Preloader \cup {Nobody}
  BY RequestFacts

\* A sandbox's step: the group it works on gets a result or is done.
LEMMA RequestsWorked ==
    ASSUME TypeOK, InvRequests, NEW c \in Contract, SandboxStep(c)
    PROVE  InvRequests'
<1> DEFINE e == First(c)
           o == e.owner
           rs == Append(e.rs, NextResult(c))
           j == Answered(o, rs)
           sh == [d \in Contract |-> IF d = c /\ ~(Len(e.rs) + 1 < Len(e.txs)) THEN 1 ELSE 0]
<1>1. /\ sbq[c] # <<>>
      /\ job' = IF o = Nobody THEN Disturbed(Busy(e.tag))
                ELSE IF Len(rs) < Len(e.txs) THEN job ELSE [job EXCEPT ![o] = j]
  BY SandboxFacts
<1>2. /\ 1 \in DOMAIN sbq[c] /\ DOMAIN sbq[c] = 1 .. Len(sbq[c]) /\ Len(sbq[c]) \in Nat
      /\ e = sbq[c][1] /\ o \in Preloader \cup {Nobody}
      /\ Len(e.txs) \in Nat /\ Len(e.rs) \in Nat /\ Len(e.rs) < Len(e.txs)
      /\ rs \in Seq(Results) /\ Len(rs) = Len(e.rs) + 1
  BY <1>1, FirstFacts
<1>3. o # Nobody => /\ job[o].at = "asked" /\ job[o].at # "idle" /\ Len(job[o].rs) < Len(TxsOf(o))
                    /\ e.txs = Group(o)
  <2> HIDE DEF e
  <2> QED
    BY <1>2, OwnerFacts
<1>4. sh \in [Contract -> {0, 1}] /\ sh[c] = (IF Len(e.rs) + 1 < Len(e.txs) THEN 0 ELSE 1)
      /\ \A d \in Contract \ {c} : sh[d] = 0
  <2> HIDE DEF e
  <2> QED
    OBVIOUS
<1>5. /\ \A d \in Contract \ {c} : sbq'[d] = sbq[d]
      /\ Len(e.rs) + 1 < Len(e.txs) =>
            /\ DOMAIN sbq'[c] = DOMAIN sbq[c]
            /\ \A i \in DOMAIN sbq[c] : /\ sbq'[c][i].txs = sbq[c][i].txs /\ sbq'[c][i].tag = sbq[c][i].tag
                                        /\ sbq'[c][i].owner = sbq[c][i].owner
      /\ ~(Len(e.rs) + 1 < Len(e.txs)) =>
            /\ DOMAIN sbq'[c] = 1 .. Len(sbq[c]) - 1
            /\ \A i \in DOMAIN sbq'[c] : i + 1 \in DOMAIN sbq[c] /\ sbq'[c][i] = sbq[c][i + 1]
  <2>1. CASE Len(e.rs) + 1 < Len(e.txs)
    <3> DEFINE f == More(c)
    <3>1. /\ f.owner = e.owner /\ f.tag = e.tag /\ f.txs = e.txs
          /\ DOMAIN sbq'[c] = DOMAIN sbq[c]
          /\ \A i \in DOMAIN sbq[c] : sbq'[c][i] = IF i = 1 THEN f ELSE sbq[c][i]
          /\ \A d \in Contract \ {c} : sbq'[d] = sbq[d]
      BY <2>1, MoreFacts
    <3> HIDE DEF f, e
    <3> QED
      BY <1>2, <2>1, <3>1
  <2>2. CASE ~(Len(e.rs) + 1 < Len(e.txs))
    BY <2>2, TailFacts
  <2> QED
    BY <2>1, <2>2
<1>6. \A q \in Preloader : q # o \/ Len(e.rs) + 1 < Len(e.txs) => SameWork(q)
  <2>1. CASE o = Nobody
    <3>1. job' = Disturbed(Busy(e.tag))
      BY <1>1, <2>1
    <3> HIDE DEF e
    <3> QED
      BY <3>1, DisturbedFacts DEF SameWork
  <2>2. CASE o # Nobody /\ Len(rs) < Len(e.txs)
    BY <1>1, <2>2 DEF SameWork
  <2>3. CASE o # Nobody /\ ~(Len(rs) < Len(e.txs))
    <3>1. job' = [job EXCEPT ![o] = j]
      BY <1>1, <2>3
    <3>2. \A q \in Preloader \ {o} : job'[q] = job[q]
      BY <3>1 DEF TypeOK
    <3> HIDE DEF e, rs, j, o
    <3> QED
      BY <1>2, <2>3, <3>2 DEF SameWork
  <2> QED
    BY <2>1, <2>2, <2>3
<1>7. ASSUME o # Nobody, ~(Len(e.rs) + 1 < Len(e.txs))
      PROVE  job'[o].at # "asked" /\ AtGroup(job'[o])
  <2>1. job' = [job EXCEPT ![o] = j]
    BY <1>1, <1>2, <1>7
  <2> HIDE DEF e, rs
  <2>2. Len(rs) = Len(Group(o)) /\ o \in Preloader
    BY <1>2, <1>3, <1>7
  <2>3. AtGroup(j) /\ j.at = "next"
    BY <1>2, <1>3, <1>7, <2>2, AnsweredAtGroup, AnsweredFacts
  <2> HIDE DEF j, o
  <2>4. job'[o] = j
    BY <2>1, <2>2 DEF TypeOK
  <2> QED
    BY <2>3, <2>4
<1> HIDE DEF e, rs, j, o, sh
<1>8. \A d \in Contract : \A i, k \in DOMAIN sbq[d] : sbq[d][i].owner = sbq[d][k].owner /\ sbq[d][i].owner # Nobody => i = k
  BY DEF InvRequests
<1>9. \A d \in Contract : \A i \in DOMAIN sbq[d] : sbq[d][i].owner = o /\ o # Nobody => d = c /\ i = 1
  <2>1. \A x, y \in Contract : \A m \in DOMAIN sbq[x], k \in DOMAIN sbq[y] :
           sbq[x][m].owner = sbq[y][k].owner /\ sbq[x][m].owner # Nobody => x = y /\ m = k
    BY DEF InvRequests
  <2> QED
    BY <1>2, <2>1 DEF o
<1>10. ASSUME NEW d \in Contract, NEW i \in DOMAIN sbq'[d]
       PROVE  /\ i \in Nat /\ i + sh[d] \in DOMAIN sbq[d]
              /\ sbq'[d][i].txs = sbq[d][i + sh[d]].txs /\ sbq'[d][i].tag = sbq[d][i + sh[d]].tag
              /\ sbq'[d][i].owner \in {sbq[d][i + sh[d]].owner, Nobody}
              /\ sbq'[d][i].owner # Nobody => SameWork(sbq'[d][i].owner)
  <2>1. CASE d # c \/ Len(e.rs) + 1 < Len(e.txs)
    <3>1. /\ i \in DOMAIN sbq[d] /\ sh[d] = 0
          /\ sbq'[d][i].txs = sbq[d][i].txs /\ sbq'[d][i].tag = sbq[d][i].tag
          /\ sbq'[d][i].owner = sbq[d][i].owner
      BY <1>4, <1>5, <2>1
    <3>2. DOMAIN sbq[d] = 1 .. Len(sbq[d]) /\ Len(sbq[d]) \in Nat /\ sbq[d][i].owner \in Preloader \cup {Nobody}
      BY <3>1, RequestsOwners
    <3>3. i \in Nat /\ i + sh[d] = i
      BY <3>1, <3>2
    <3>4. sbq[d][i].owner # Nobody => SameWork(sbq[d][i].owner)
      BY <1>6, <1>9, <2>1, <3>1, <3>2
    <3> QED
      BY <3>1, <3>3, <3>4
  <2>2. CASE d = c /\ ~(Len(e.rs) + 1 < Len(e.txs))
    <3>1. i \in 1 .. Len(sbq[c]) - 1 /\ i + 1 \in DOMAIN sbq[c] /\ sbq'[c][i] = sbq[c][i + 1] /\ sh[c] = 1
      BY <1>4, <1>5, <2>2
    <3>2. sbq[c][i + 1].owner \in Preloader \cup {Nobody}
      BY <3>1, RequestsOwners
    <3>3. i + 1 # 1
      BY <3>1
    <3>4. sbq[c][i + 1].owner # Nobody => SameWork(sbq[c][i + 1].owner)
      BY <1>6, <1>9, <3>1, <3>2, <3>3
    <3> QED
      BY <1>2, <2>2, <3>1, <3>4
  <2> QED
    BY <2>1, <2>2
<1>11. ASSUME NEW q \in Preloader
       PROVE  \/ /\ SameWork(q)
                 /\ \A d \in Contract : \A k \in DOMAIN sbq[d] :
                       sbq[d][k].owner = q => \E i \in DOMAIN sbq'[d] : sbq'[d][i].owner = q
              \/ job'[q].at # "asked" /\ AtGroup(job'[q])
  <2>1. CASE q = o /\ ~(Len(e.rs) + 1 < Len(e.txs))
    BY <1>7, <2>1, PreloadAssumption
  <2>2. CASE Len(e.rs) + 1 < Len(e.txs)
    BY <1>5, <1>6, <2>2
  <2>3. CASE q # o /\ ~(Len(e.rs) + 1 < Len(e.txs))
    <3>1. ASSUME NEW k \in DOMAIN sbq[c], sbq[c][k].owner = q PROVE \E i \in DOMAIN sbq'[c] : sbq'[c][i].owner = q
      <4>1. k # 1
        BY <1>2, <2>3, <3>1 DEF o
      <4>2. k - 1 \in 1 .. Len(sbq[c]) - 1 /\ (k - 1) + 1 = k
        BY <1>2, <4>1
      <4>3. k - 1 \in DOMAIN sbq'[c] /\ sbq'[c][k - 1] = sbq[c][(k - 1) + 1]
        BY <1>5, <2>3, <4>2
      <4> QED
        BY <3>1, <4>2, <4>3
    <3> QED
      BY <1>5, <1>6, <2>3, <3>1
  <2> QED
    BY <2>1, <2>2, <2>3
<1> QED
  BY <1>4, <1>10, <1>11, RequestsShifted, Zenon

LEMMA RequestsStep == ASSUME TypeOK, InvRequests, Next PROVE InvRequests'
<1>1. ASSUME NEW p \in Preloader, NEW b \in Block, NEW t \in Tag, Start(p, b, t) PROVE InvRequests'
  <2> DEFINE d == Disturbed(Busy(t))
             j == [at |-> "next", block |-> b, tag |-> t, rs |-> <<>>, alone |-> Busy(t) = {} /\ t \notin tainted]
  <2>1. job' = [d EXCEPT ![p] = j] /\ sbq' = sbq /\ job[p].at = "idle"
    BY <1>1, Zenon DEF Start
  <2>2. /\ d \in [Preloader -> Jobs \cup {IdleJob}]
        /\ \A q \in Preloader : d[q].at = job[q].at /\ d[q].block = job[q].block /\ d[q].tag = job[q].tag /\ d[q].rs = job[q].rs
    BY DisturbedFacts
  <2>3. j.at = "next" /\ j.rs = <<>> /\ j.block = b
    OBVIOUS
  <2>4. AtGroup(j)
    <3>1. ~Joins(Txs[b], 0 + 1) /\ Len(<<>>) = 0
      BY DEF Joins
    <3> QED
      BY <2>3, <3>1 DEF AtGroup
  <2> HIDE DEF d, j
  <2>5. job'[p] = j /\ \A q \in Preloader \ {p} : job'[q] = d[q]
    BY <2>1, <2>2
  <2>6. \A q \in Preloader : SameWork(q) \/ (job[q].at # "asked" /\ job'[q].at # "asked" /\ AtGroup(job'[q]))
    BY <2>1, <2>2, <2>3, <2>4, <2>5 DEF SameWork
  <2> QED
    BY <2>1, <2>6, RequestsKept
<1>2. ASSUME NEW p \in Preloader, Dispatch(p) PROVE InvRequests'
  <2> DEFINE mode == Door(dstate[Group(p)[1].cid], Group(p)[1], View(job[p].tag), world)
             rs == [i \in DOMAIN Group(p) |-> Refusal(105)]
             j == Answered(p, rs)
  <2>1. CASE mode # "refused"
    BY <1>2, <2>1, RequestsSent
  <2>2. CASE mode = "refused"
    <3>1. /\ job[p].at = "next" /\ job[p].at # "idle" /\ Len(job[p].rs) < Len(TxsOf(p))
          /\ job' = [job EXCEPT ![p] = Refused(p)] /\ sbq' = sbq
      BY <1>2, <2>2, DispatchFacts
    <3>2. rs \in Seq(Results) /\ Len(rs) = Len(Group(p))
      BY <3>1, RefusalFacts
    <3>3. Refused(p) = j
      BY DEF Refused
    <3> HIDE DEF rs
    <3>4. AtGroup(j) /\ j.at = "next"
      BY <3>1, <3>2, AnsweredAtGroup, AnsweredFacts
    <3> HIDE DEF j
    <3>5. job'[p] = j /\ \A q \in Preloader \ {p} : job'[q] = job[q]
      BY <3>1, <3>3 DEF TypeOK
    <3>6. \A q \in Preloader : SameWork(q) \/ (job[q].at # "asked" /\ job'[q].at # "asked" /\ AtGroup(job'[q]))
      BY <3>1, <3>4, <3>5 DEF SameWork
    <3> QED
      BY <3>1, <3>6, RequestsKept
  <2> QED
    BY <2>1, <2>2
<1>3. ASSUME NEW p \in Preloader, TimeoutGroup(p) PROVE InvRequests'
  <2> DEFINE rs == [i \in DOMAIN Group(p) |-> Refusal(103)]
             o == Answered(p, rs)
             j == [o EXCEPT !.alone = FALSE]
             sh == [c \in Contract |-> 0]
  <2>1. job[p].at = "asked" /\ job[p].at # "idle" /\ Len(job[p].rs) < Len(TxsOf(p)) /\ sbq' = Reset(p)
    BY <1>3 DEF TimeoutGroup, InvRequests, Reset
  <2>2. job' = [job EXCEPT ![p] = j]
    BY <1>3 DEF TimeoutGroup
  <2>3. rs \in Seq(Results) /\ Len(rs) = Len(Group(p))
    BY <2>1, RefusalFacts
  <2> HIDE DEF rs
  <2>4. AtGroup(j) /\ j.at = "next"
    <3>1. AtGroup(j) /\ o \in Jobs /\ o.at = "next"
      BY <2>1, <2>3, AnsweredAtGroup, AnsweredFacts
    <3> HIDE DEF o
    <3>2. j.at = o.at
      BY <3>1 DEF Jobs
    <3> QED
      BY <3>1, <3>2
  <2> HIDE DEF j
  <2>5. job'[p] = j /\ \A q \in Preloader \ {p} : job'[q] = job[q]
    BY <2>2 DEF TypeOK
  <2>6. \A q \in Preloader \ {p} : SameWork(q)
    BY <2>5 DEF SameWork
  <2>7. /\ \A c \in Contract : DOMAIN sbq'[c] = DOMAIN sbq[c]
        /\ \A c \in Contract : \A i \in DOMAIN sbq'[c] :
              /\ sbq'[c][i].tag = sbq[c][i].tag /\ sbq'[c][i].txs = sbq[c][i].txs
              /\ sbq'[c][i].owner = IF sbq[c][i].owner = p THEN Nobody ELSE sbq[c][i].owner
    <3> DEFINE q == Reset(p)
    <3>1. /\ \A c \in Contract : DOMAIN q[c] = DOMAIN sbq[c]
          /\ \A c \in Contract : \A i \in DOMAIN q[c] :
                /\ q[c][i].tag = sbq[c][i].tag /\ q[c][i].txs = sbq[c][i].txs
                /\ q[c][i].owner = IF sbq[c][i].owner = p THEN Nobody ELSE sbq[c][i].owner
      BY ResetFacts
    <3> HIDE DEF q
    <3> QED
      BY <2>1, <3>1 DEF q
  <2>8. sh \in [Contract -> {0, 1}] /\ \A c \in Contract : sh[c] = 0
    OBVIOUS
  <2> HIDE DEF sh
  <2>9. ASSUME NEW c \in Contract, NEW i \in DOMAIN sbq'[c]
        PROVE  /\ i \in Nat /\ i + sh[c] \in DOMAIN sbq[c]
               /\ sbq'[c][i].txs = sbq[c][i + sh[c]].txs /\ sbq'[c][i].tag = sbq[c][i + sh[c]].tag
               /\ sbq'[c][i].owner \in {sbq[c][i + sh[c]].owner, Nobody}
               /\ sbq'[c][i].owner # Nobody => SameWork(sbq'[c][i].owner)
    <3>1. i \in DOMAIN sbq[c] /\ DOMAIN sbq[c] = 1 .. Len(sbq[c]) /\ Len(sbq[c]) \in Nat
          /\ sbq[c][i].owner \in Preloader \cup {Nobody}
      BY <2>7, RequestsOwners
    <3>2. i \in Nat /\ i + sh[c] = i
      BY <2>8, <3>1
    <3> QED
      BY <2>6, <2>7, <3>1, <3>2
  <2>10. ASSUME NEW q \in Preloader
         PROVE  \/ /\ SameWork(q)
                   /\ \A c \in Contract : \A k \in DOMAIN sbq[c] :
                         sbq[c][k].owner = q => \E i \in DOMAIN sbq'[c] : sbq'[c][i].owner = q
                \/ job'[q].at # "asked" /\ AtGroup(job'[q])
    BY <2>4, <2>5, <2>6, <2>7
  <2> QED
    BY <2>8, <2>9, <2>10, RequestsShifted, Zenon
<1>4. ASSUME NEW p \in Preloader, Fail(p) \/ Finish(p) PROVE InvRequests'
  <2>1. job[p].at = "next" /\ job' = [job EXCEPT ![p] = IdleJob] /\ sbq' = sbq
    BY <1>4 DEF Fail, Finish
  <2>2. job'[p].at = "idle" /\ \A q \in Preloader \ {p} : job'[q] = job[q]
    BY <2>1, IdleFacts DEF TypeOK
  <2>3. \A q \in Preloader : SameWork(q) \/ (job[q].at # "asked" /\ job'[q].at # "asked" /\ AtGroup(job'[q]))
    BY <2>1, <2>2 DEF SameWork, AtGroup
  <2> QED
    BY <2>1, <2>3, RequestsKept
<1>5. ASSUME NEW P, job' = Disturbed(P), sbq' = sbq PROVE InvRequests'
  <2>1. \A q \in Preloader : SameWork(q)
    BY <1>5, DisturbedFacts DEF SameWork
  <2> QED
    BY <1>5, <2>1, RequestsKept
<1>6. (\E t \in Tag : Expire(t)) \/ (\E b \in Block : Store(b)) \/ Rollback => \E P : job' = Disturbed(P) /\ sbq' = sbq
  BY Zenon DEF Expire, Store, Rollback
<1>7. ASSUME NEW c \in Contract, SandboxStep(c) PROVE InvRequests'
  BY <1>7, RequestsWorked
<1> QED
  BY <1>1, <1>2, <1>3, <1>4, <1>5, <1>6, <1>7, Zenon DEF Next

-----------------------------------------------------------------------------
(* Executions that are alone, and overlays that are free.                   *)

\* Whether a preloader is at work, and under which tag.
SameBusy(q) == (job'[q].at = "idle" <=> job[q].at = "idle") /\ job'[q].tag = job[q].tag

LEMMA BusyKept ==
    ASSUME \A q \in Preloader : SameBusy(q)
    PROVE  \A t \in Tag : Busy(t)' = Busy(t)
  BY DEF SameBusy, Busy

\* Nobody begins or ends; who is disturbed is not alone any more.
LEMMA AloneKept ==
    ASSUME TypeOK, InvAlone, NEW P,
           \A q \in Preloader : SameBusy(q) /\ (job'[q].alone => job[q].alone /\ q \notin P),
           tainted' \subseteq tainted \/ \E t \in Tag : tainted' = tainted \cup {t} /\ P = Busy(t)
    PROVE  InvAlone'
<1> SUFFICES ASSUME NEW p \in Preloader, job'[p].at # "idle", job'[p].alone
             PROVE  Busy(job[p].tag)' = {p} /\ job'[p].tag \notin tainted'
  BY DEF InvAlone, Alone
<1> DEFINE u == job[p].tag
<1>1. job[p].at # "idle" /\ job[p].alone /\ p \notin P /\ job'[p].tag = u
  BY DEF SameBusy
<1>2. u \in Tag /\ Busy(u) = {p} /\ u \notin tainted
  BY <1>1, JobFacts DEF InvAlone, Alone
<1>3. u' = u
  BY <1>1
<1> HIDE DEF u
<1>4. Busy(u)' = Busy(u)
  BY <1>3 DEF SameBusy, Busy
<1>5. \A t \in Tag : P = Busy(t) => u # t
  BY <1>1, <1>2
<1>6. u \notin tainted'
  BY <1>2, <1>5
<1>7. Busy(job[p].tag)' = {p}
  BY <1>2, <1>4 DEF u
<1> QED
  BY <1>1, <1>6, <1>7

LEMMA AloneSame ==
    ASSUME TypeOK, InvAlone, tainted' \subseteq tainted,
           \A q \in Preloader : SameBusy(q) /\ (job'[q].alone => job[q].alone)
    PROVE  InvAlone'
<1> DEFINE P == {}
<1>1. \A q \in Preloader : SameBusy(q) /\ (job'[q].alone => job[q].alone /\ q \notin P)
  OBVIOUS
<1> HIDE DEF P
<1> QED
  BY <1>1, AloneKept

LEMMA NotAlone == ASSUME TypeOK, job' = Disturbed(Preloader) PROVE InvAlone' /\ \A p \in Preloader : ~Alone(p)'
<1>1. \A p \in Preloader : ~job'[p].alone
  BY DisturbedFacts
<1> QED
  BY <1>1 DEF InvAlone, Alone

\* The steps between begin and end.
LEMMA DispatchBusy ==
    ASSUME TypeOK, NEW p \in Preloader, Dispatch(p)
    PROVE  tainted' = tainted /\ \A q \in Preloader : SameBusy(q) /\ (job'[q].alone => job[q].alone)
<1>1. job[p].at = "next" /\ job[p].at # "idle" /\ Len(job[p].rs) < Len(TxsOf(p)) /\ tainted' = tainted
  BY DEF Dispatch
<1>2. CASE job' = [job EXCEPT ![p] = Refused(p)]
  <2> DEFINE rs == [i \in DOMAIN Group(p) |-> Refusal(105)]
             j == Answered(p, rs)
  <2>1. rs \in Seq(Results)
    BY <1>1, RefusalFacts
  <2>2. Refused(p) = j
    BY DEF Refused
  <2> HIDE DEF rs
  <2>3. j.at = "next" /\ j.tag = job[p].tag /\ j.alone = job[p].alone
    BY <1>1, <2>1, AnsweredFacts
  <2> HIDE DEF j
  <2>4. job'[p] = j /\ \A q \in Preloader \ {p} : job'[q] = job[q]
    BY <1>2, <2>2 DEF TypeOK
  <2> QED
    BY <1>1, <2>3, <2>4 DEF SameBusy
<1>3. CASE job' = [job EXCEPT ![p] = [job[p] EXCEPT !.at = "asked"]]
  <2> DEFINE o == job[p]
             j == [o EXCEPT !.at = "asked"]
  <2>1. job'[p] = j /\ o \in Jobs /\ \A q \in Preloader \ {p} : job'[q] = job[q]
    BY <1>1, <1>3, JobFacts DEF TypeOK
  <2> HIDE DEF o
  <2>2. j.at = "asked" /\ j.tag = o.tag /\ j.alone = o.alone
    BY <2>1 DEF Jobs
  <2> HIDE DEF j
  <2> QED
    BY <1>1, <2>1, <2>2 DEF SameBusy, o
<1> QED
  BY <1>2, <1>3, DispatchFacts

LEMMA TimeoutBusy ==
    ASSUME TypeOK, InvRequests, NEW p \in Preloader, TimeoutGroup(p)
    PROVE  /\ tainted' = tainted /\ ~job'[p].alone
           /\ \A q \in Preloader : SameBusy(q) /\ (job'[q].alone => job[q].alone)
<1> DEFINE rs == [i \in DOMAIN Group(p) |-> Refusal(103)]
           o == Answered(p, rs)
           j == [o EXCEPT !.alone = FALSE]
<1>1. job[p].at = "asked" /\ job[p].at # "idle" /\ Len(job[p].rs) < Len(TxsOf(p)) /\ tainted' = tainted
      /\ job' = [job EXCEPT ![p] = j]
  BY DEF TimeoutGroup, InvRequests
<1>2. rs \in Seq(Results)
  BY <1>1, RefusalFacts
<1> HIDE DEF rs
<1>3. o \in Jobs /\ o.at = "next" /\ o.tag = job[p].tag
  BY <1>1, <1>2, AnsweredFacts
<1> HIDE DEF o
<1>4. j.at = "next" /\ j.tag = job[p].tag /\ ~j.alone
  BY <1>3 DEF Jobs
<1> HIDE DEF j
<1>5. job'[p] = j /\ \A q \in Preloader \ {p} : job'[q] = job[q]
  BY <1>1 DEF TypeOK
<1> QED
  BY <1>1, <1>4, <1>5 DEF SameBusy

LEMMA SandboxBusy ==
    ASSUME TypeOK, InvRequests, NEW c \in Contract, SandboxStep(c)
    PROVE  LET e == First(c) IN
           /\ \A q \in Preloader : SameBusy(q) /\ (job'[q].alone => job[q].alone)
           /\ e.owner = Nobody => \A q \in Busy(e.tag) : ~job'[q].alone
           /\ e.owner # Nobody => /\ e.owner \in Preloader /\ job[e.owner].at = "asked"
                                  /\ job[e.owner].tag = e.tag /\ tainted' = tainted
<1> DEFINE e == First(c)
           o == e.owner
           rs == Append(e.rs, NextResult(c))
           j == Answered(o, rs)
<1>1. /\ sbq[c] # <<>>
      /\ job' = IF o = Nobody THEN Disturbed(Busy(e.tag))
                ELSE IF Len(rs) < Len(e.txs) THEN job ELSE [job EXCEPT ![o] = j]
      /\ tainted' = IF o = Nobody /\ NextResult(c).code = 0 THEN tainted \cup {e.tag} ELSE tainted
  BY SandboxFacts
<1>2. e = sbq[c][1] /\ 1 \in DOMAIN sbq[c] /\ e.tag \in Tag /\ o \in Preloader \cup {Nobody} /\ rs \in Seq(Results)
  BY <1>1, FirstFacts
<1>3. o # Nobody => o \in Preloader /\ job[o].at = "asked" /\ job[o].at # "idle" /\ job[o].tag = e.tag
  <2> HIDE DEF e
  <2> QED
    BY <1>2, OwnerFacts
<1> HIDE DEF e, rs
<1>4. CASE o = Nobody
  <2>1. \A q \in Preloader : SameBusy(q) /\ (job'[q].alone => job[q].alone /\ q \notin Busy(e.tag))
    BY <1>1, <1>4, DisturbedFacts DEF SameBusy
  <2>2. \A q \in Busy(e.tag) : q \in Preloader /\ ~job'[q].alone
    BY <2>1 DEF Busy
  <2> QED
    BY <1>4, <2>1, <2>2 DEF e
<1>5. CASE o # Nobody /\ job' = job
  BY <1>1, <1>3, <1>5 DEF SameBusy, e
<1>6. CASE o # Nobody /\ job' = [job EXCEPT ![o] = j]
  <2>1. j.at = "next" /\ j.tag = job[o].tag /\ j.alone = job[o].alone /\ o \in Preloader
    BY <1>2, <1>3, <1>6, AnsweredFacts
  <2> HIDE DEF j
  <2>2. job'[o] = j /\ \A q \in Preloader \ {o} : job'[q] = job[q]
    <3> HIDE DEF o
    <3> QED
      BY <1>6, <2>1 DEF TypeOK
  <2>3. \A q \in Preloader : SameBusy(q) /\ (job'[q].alone => job[q].alone)
    <3> HIDE DEF o
    <3> QED
      BY <1>3, <1>6, <2>1, <2>2 DEF SameBusy
  <2> QED
    BY <1>1, <1>3, <1>6, <2>3 DEF e
<1> QED
  BY <1>1, <1>4, <1>5, <1>6

LEMMA AloneStep == ASSUME TypeOK, InvRequests, InvAlone, Next PROVE InvAlone'
<1>1. ASSUME NEW p \in Preloader, NEW b \in Block, NEW t \in Tag, Start(p, b, t) PROVE InvAlone'
  <2> DEFINE d == Disturbed(Busy(t))
             j == [at |-> "next", block |-> b, tag |-> t, rs |-> <<>>, alone |-> Busy(t) = {} /\ t \notin tainted]
  <2>1. job' = [d EXCEPT ![p] = j] /\ job[p].at = "idle" /\ tainted' = tainted
    BY <1>1, Zenon DEF Start
  <2>2. /\ d \in [Preloader -> Jobs \cup {IdleJob}]
        /\ \A q \in Preloader : d[q].at = job[q].at /\ d[q].tag = job[q].tag /\ (d[q].alone => job[q].alone /\ q \notin Busy(t))
    BY DisturbedFacts
  <2>3. j.at = "next" /\ j.tag = t /\ (j.alone => Busy(t) = {} /\ t \notin tainted)
    OBVIOUS
  <2> HIDE DEF d, j
  <2>4. job'[p] = j /\ \A q \in Preloader \ {p} : job'[q] = d[q]
    BY <2>1, <2>2
  <2>5. \A u \in Tag : Busy(u)' = IF u = t THEN Busy(u) \cup {p} ELSE Busy(u)
    BY <2>1, <2>2, <2>3, <2>4 DEF Busy
  <2> SUFFICES ASSUME NEW q \in Preloader, job'[q].at # "idle", job'[q].alone
               PROVE  Busy(job[q].tag)' = {q} /\ job'[q].tag \notin tainted'
    BY DEF InvAlone, Alone
  <2> DEFINE u == job'[q].tag
  <2>6. CASE q = p
    <3>1. u = t /\ Busy(t) = {} /\ t \notin tainted
      BY <2>3, <2>4, <2>6
    <3>2. Busy(t)' = {p}
      BY <2>5, <3>1
    <3>3. Busy(job[q].tag)' = Busy(t)'
      BY <3>1 DEF Busy
    <3> QED
      BY <2>1, <2>6, <3>1, <3>2, <3>3
  <2>7. CASE q # p
    <3>1. job[q].at # "idle" /\ job[q].alone /\ q \notin Busy(t) /\ u = job[q].tag
      BY <2>2, <2>4, <2>7
    <3>2. u \in Tag /\ Busy(u) = {q} /\ u \notin tainted
      BY <3>1, JobFacts DEF InvAlone, Alone
    <3>3. u # t
      BY <3>1, <3>2
    <3>4. Busy(job[q].tag)' = {r \in Preloader : job'[r].at # "idle" /\ job'[r].tag = u}
      BY DEF Busy
    <3> HIDE DEF u
    <3>5. {r \in Preloader : job'[r].at # "idle" /\ job'[r].tag = u} = Busy(u)
      BY <2>1, <2>2, <2>3, <2>4, <3>2, <3>3 DEF Busy
    <3>6. Busy(job[q].tag)' = {q} /\ u \notin tainted'
      BY <2>1, <3>2, <3>4, <3>5
    <3> QED
      BY <3>6 DEF u
  <2> QED
    BY <2>6, <2>7
<1>2. ASSUME NEW p \in Preloader, Dispatch(p) PROVE InvAlone'
  BY <1>2, DispatchBusy, AloneSame
<1>3. ASSUME NEW p \in Preloader, TimeoutGroup(p) PROVE InvAlone'
  BY <1>3, TimeoutBusy, AloneSame
<1>4. ASSUME NEW p \in Preloader, Fail(p) \/ Finish(p) PROVE InvAlone'
  <2>1. job[p].at = "next" /\ job' = [job EXCEPT ![p] = IdleJob] /\ tainted' \subseteq tainted \cup {job[p].tag}
    BY <1>4 DEF Fail, Finish
  <2>2. job'[p].at = "idle" /\ \A q \in Preloader \ {p} : job'[q] = job[q]
    BY <2>1, IdleFacts DEF TypeOK
  <2> SUFFICES ASSUME NEW q \in Preloader, job'[q].at # "idle", job'[q].alone
               PROVE  Busy(job[q].tag)' = {q} /\ job'[q].tag \notin tainted'
    BY DEF InvAlone, Alone
  <2> DEFINE u == job[q].tag
  <2>3. q # p /\ job'[q] = job[q] /\ job[q].at # "idle" /\ job[q].alone
    BY <2>2
  <2>4. Busy(u) = {q} /\ u \notin tainted
    BY <2>3 DEF InvAlone, Alone
  <2>5. p \in Busy(job[p].tag)
    BY <2>1 DEF Busy
  <2>6. u # job[p].tag
    BY <2>3, <2>4, <2>5
  <2>7. Busy(job[q].tag)' = {r \in Preloader : job'[r].at # "idle" /\ job'[r].tag = u}
    BY <2>3 DEF Busy
  <2> HIDE DEF u
  <2>8. {r \in Preloader : job'[r].at # "idle" /\ job'[r].tag = u} = Busy(u)
    BY <2>1, <2>2, <2>6 DEF Busy
  <2>9. job'[q].tag = u
    BY <2>3 DEF u
  <2> QED
    BY <2>1, <2>4, <2>6, <2>7, <2>8, <2>9
<1>5. ASSUME NEW c \in Contract, SandboxStep(c) PROVE InvAlone'
  <2> DEFINE e == First(c)
             P == Busy(e.tag)
  <2>1. /\ \A q \in Preloader : SameBusy(q) /\ (job'[q].alone => job[q].alone)
        /\ e.owner = Nobody => \A q \in P : ~job'[q].alone
        /\ e.owner # Nobody => tainted' = tainted
    BY <1>5, SandboxBusy
  <2>2. e.tag \in Tag /\ (tainted' = tainted \/ tainted' = tainted \cup {e.tag})
    BY <1>5, SandboxFacts, FirstFacts
  <2>3. CASE tainted' = tainted
    BY <2>1, <2>3, AloneSame
  <2>4. CASE e.owner = Nobody /\ tainted' = tainted \cup {e.tag}
    <3>1. \E t \in Tag : tainted' = tainted \cup {t} /\ P = Busy(t)
      BY <2>2, <2>4
    <3>2. \A q \in Preloader : SameBusy(q) /\ (job'[q].alone => job[q].alone /\ q \notin P)
      BY <2>1, <2>4
    <3> HIDE DEF P, e
    <3> QED
      BY <3>1, <3>2, AloneKept
  <2> QED
    BY <2>1, <2>2, <2>3, <2>4
<1>6. ASSUME NEW t \in Tag, Expire(t) PROVE InvAlone'
  <2>1. job' = Disturbed(Busy(t)) /\ tainted' \subseteq tainted
    BY <1>6 DEF Expire
  <2>2. \A q \in Preloader : SameBusy(q) /\ (job'[q].alone => job[q].alone /\ q \notin Busy(t))
    BY <2>1, DisturbedFacts DEF SameBusy
  <2> QED
    BY <2>1, <2>2, AloneKept
<1>7. (\E b \in Block : Store(b)) \/ Rollback => InvAlone'
  BY NotAlone, Zenon DEF Store, Rollback
<1> QED
  BY <1>1, <1>2, <1>3, <1>4, <1>5, <1>6, <1>7, Zenon DEF Next

LEMMA FreeStep == ASSUME TypeOK, InvRequests, InvFree, Next PROVE InvFree'
<1>0. DOMAIN overlay = Tag /\ \A t \in Tag : Busy(t) = {} /\ t \notin tainted => overlay[t] = NoWrites
  BY DEF InvFree, TypeOK
<1>1. ASSUME overlay' = overlay, tainted' = tainted, \A q \in Preloader : job[q].at # "idle" => SameBusy(q)
      PROVE  InvFree'
  <2>1. \A t \in Tag : Busy(t) \subseteq Busy(t)'
    BY <1>1 DEF Busy, SameBusy
  <2> QED
    BY <1>0, <1>1, <2>1 DEF InvFree
<1>2. ASSUME NEW p \in Preloader, NEW b \in Block, NEW t \in Tag, Start(p, b, t) PROVE InvFree'
  <2> DEFINE d == Disturbed(Busy(t))
             j == [at |-> "next", block |-> b, tag |-> t, rs |-> <<>>, alone |-> Busy(t) = {} /\ t \notin tainted]
  <2>1. job' = [d EXCEPT ![p] = j] /\ job[p].at = "idle" /\ tainted' = tainted /\ overlay' = overlay
    BY <1>2, Zenon DEF Start
  <2>2. /\ d \in [Preloader -> Jobs \cup {IdleJob}]
        /\ \A q \in Preloader : d[q].at = job[q].at /\ d[q].tag = job[q].tag
    BY DisturbedFacts
  <2> HIDE DEF d, j
  <2>3. \A q \in Preloader : job[q].at # "idle" => SameBusy(q)
    BY <2>1, <2>2 DEF SameBusy
  <2> QED
    BY <1>1, <2>1, <2>3
<1>3. ASSUME NEW p \in Preloader, Dispatch(p) \/ TimeoutGroup(p) PROVE InvFree'
  <2>1. overlay' = overlay
    BY <1>3 DEF Dispatch, TimeoutGroup
  <2> QED
    BY <1>1, <1>3, <2>1, DispatchBusy, TimeoutBusy
<1>4. ASSUME NEW p \in Preloader, Fail(p) \/ Finish(p) PROVE InvFree'
  <2> DEFINE u == job[p].tag
  <2>1. /\ job[p].at = "next" /\ job' = [job EXCEPT ![p] = IdleJob]
        /\ \/ overlay' = overlay /\ tainted' = IF overlay[u] = NoWrites THEN tainted ELSE tainted \cup {u}
           \/ overlay' = [overlay EXCEPT ![u] = NoWrites] /\ tainted' = tainted \ {u}
    BY <1>4 DEF Fail, Finish, Free
  <2>2. \A q \in Preloader \ {p} : job'[q] = job[q]
    BY <2>1 DEF TypeOK
  <2> HIDE DEF u
  <2>3. \A t \in Tag \ {u} : Busy(t) \subseteq Busy(t)'
    BY <2>2 DEF Busy, u
  <2>4. u \in Tag
    BY <2>1, JobFacts DEF u
  <2>5. \A t \in Tag \ {u} : overlay'[t] = overlay[t] /\ (t \notin tainted' => t \notin tainted)
    BY <1>0, <2>1
  <2>6. u \notin tainted' => overlay'[u] = NoWrites
    BY <1>0, <2>1, <2>4
  <2> QED
    BY <1>0, <2>3, <2>5, <2>6 DEF InvFree
<1>5. ASSUME NEW c \in Contract, SandboxStep(c) PROVE InvFree'
  <2> DEFINE e == First(c)
             u == e.tag
             r == NextResult(c)
  <2>1. /\ sbq[c] # <<>>
        /\ \A t \in Tag \ {u} : overlay'[t] = overlay[t]
        /\ r.code # 0 => overlay'[u] = overlay[u]
        /\ tainted' = IF e.owner = Nobody /\ r.code = 0 THEN tainted \cup {u} ELSE tainted
    BY <1>5, SandboxFacts
  <2>2. u \in Tag
    BY <2>1, FirstFacts
  <2>3. /\ \A q \in Preloader : SameBusy(q)
        /\ e.owner # Nobody => e.owner \in Preloader /\ job[e.owner].at = "asked" /\ job[e.owner].tag = u
    BY <1>5, SandboxBusy
  <2> HIDE DEF u, r
  <2>4. \A t \in Tag : Busy(t) \subseteq Busy(t)'
    BY <2>3 DEF Busy, SameBusy
  <2>5. e.owner # Nobody => e.owner \in Busy(u)
    BY <2>3 DEF Busy
  <2> HIDE DEF e
  <2>6. ASSUME NEW t \in Tag, Busy(t)' = {}, t \notin tainted' PROVE overlay'[t] = NoWrites
    <3>1. Busy(t) = {} /\ t \notin tainted
      BY <2>1, <2>4, <2>6
    <3>2. CASE t # u
      BY <1>0, <2>1, <3>1, <3>2
    <3>3. CASE t = u
      <4>1. e.owner = Nobody
        BY <2>5, <3>1, <3>3
      <4>2. r.code # 0
        BY <2>1, <2>6, <3>3, <4>1
      <4> QED
        BY <1>0, <2>1, <3>1, <3>3, <4>2
    <3> QED
      BY <3>2, <3>3
  <2> QED
    BY <2>6 DEF InvFree
<1>6. ASSUME NEW t \in Tag, Expire(t) PROVE InvFree'
  <2>1. job' = Disturbed(Busy(t)) /\ tainted' = tainted \ {t} /\ overlay' = [overlay EXCEPT ![t] = NoWrites]
    BY <1>6 DEF Expire, Free
  <2>2. \A q \in Preloader : SameBusy(q)
    BY <2>1, DisturbedFacts DEF SameBusy
  <2>3. \A u \in Tag : Busy(u) \subseteq Busy(u)'
    BY <2>2 DEF Busy, SameBusy
  <2> QED
    BY <1>0, <2>1, <2>3 DEF InvFree
<1>7. ASSUME (\E b \in Block : Store(b)) \/ Rollback PROVE InvFree'
  <2>1. job' = Disturbed(Preloader) /\ overlay' = overlay /\ tainted' = tainted
    BY <1>7, Zenon DEF Store, Rollback
  <2>2. \A q \in Preloader : SameBusy(q)
    BY <2>1, DisturbedFacts DEF SameBusy
  <2> QED
    BY <1>1, <2>1, <2>2
<1> QED
  BY <1>2, <1>3, <1>4, <1>5, <1>6, <1>7, Zenon DEF Next

\* The logs of a stored block are those of its isolated execution: what a save appends has them.
LEMMA InvChainStep == ASSUME TypeOK, InvChain, Next PROVE InvChain'
<1> DEFINE R == [block : Block, ol : Seq(OperLogs), was : {chain[i].was : i \in DOMAIN chain}]
<1>1. chain \in Seq(R)
  BY DEF TypeOK
<1> HIDE DEF R
<1>2. Len(chain) \in Nat /\ DOMAIN chain = 1 .. Len(chain) /\ \A i \in DOMAIN chain : chain[i] \in R
  BY <1>1, LenProperties, ElementOfSeq
<1>3. ASSUME NEW b \in Block, Store(b) PROVE InvChain'
  <2> DEFINE e == [block |-> b, ol |-> Logs(Isolated(world, b).rs), was |-> world]
  <2>1. chain' = Append(chain, e)
    BY <1>3, StoreFacts
  <2>2. e.ol = Logs(Isolated(e.was, e.block).rs)
    OBVIOUS
  <2> HIDE DEF e
  <2>3. chain \in Seq(R \cup {e}) /\ e \in R \cup {e}
    BY <1>1, <1>2, SeqDef
  <2> DEFINE T == R \cup {e}
  <2> HIDE DEF T
  <2>4. /\ Append(chain, e) \in Seq(T) /\ Len(Append(chain, e)) = Len(chain) + 1
        /\ \A i \in 1 .. Len(chain) : Append(chain, e)[i] = chain[i]
        /\ Append(chain, e)[Len(chain) + 1] = e
    BY <2>3, AppendProperties DEF T
  <2>5. DOMAIN chain' = 1 .. Len(chain) + 1
    BY <2>1, <2>4, LenProperties
  <2>6. \A i \in DOMAIN chain' : i \in DOMAIN chain \/ i = Len(chain) + 1
    BY <1>2, <2>5
  <2>7. ASSUME NEW i \in DOMAIN chain' PROVE chain'[i].ol = Logs(Isolated(chain'[i].was, chain'[i].block).rs)
    <3>1. CASE i \in DOMAIN chain
      <4>1. chain'[i] = chain[i]
        BY <1>2, <2>1, <2>4, <3>1
      <4> QED
        BY <3>1, <4>1 DEF InvChain
    <3>2. CASE i = Len(chain) + 1
      BY <2>1, <2>2, <2>4, <3>2
    <3> QED
      BY <2>6, <3>1, <3>2
  <2> QED
    BY <2>7 DEF InvChain
<1>4. ASSUME Rollback PROVE InvChain'
  <2> DEFINE n == Len(chain) - 1
             s == SubSeq(chain, 1, n)
  <2>1. chain' = s /\ n \in Nat
    BY <1>2, <1>4, RollbackFacts, LastFacts
  <2>2. \A i \in 1 .. n : chain[i] \in R /\ i \in DOMAIN chain
    BY <1>2
  <2>3. s \in Seq(R) /\ Len(s) = (IF 1 <= n THEN n - 1 + 1 ELSE 0) /\ \A i \in 1 .. n - 1 + 1 : s[i] = chain[1 + i - 1]
    BY <1>1, <2>1, <2>2, SubSeqProperties
  <2> HIDE DEF n, s
  <2>4. n - 1 + 1 = n /\ (1 <= n \/ n = 0) /\ \A i \in 1 .. n : 1 + i - 1 = i
    BY <2>1
  <2>5. DOMAIN s = 1 .. n
    BY <2>1, <2>3, <2>4, LenProperties
  <2>6. \A i \in DOMAIN chain' : i \in DOMAIN chain /\ chain'[i] = chain[i]
    BY <2>1, <2>2, <2>3, <2>4, <2>5
  <2> QED
    BY <2>6 DEF InvChain
<1>5. chain' = chain => InvChain'
  BY DEF InvChain
<1>6. \/ \E p \in Preloader, b \in Block, t \in Tag : Start(p, b, t)
      \/ \E p \in Preloader : Dispatch(p) \/ TimeoutGroup(p) \/ Fail(p) \/ Finish(p)
      \/ \E c \in Contract : SandboxStep(c)
      \/ \E t \in Tag : Expire(t)
      => chain' = chain
  BY Zenon DEF Start, Dispatch, TimeoutGroup, Fail, Finish, SandboxStep, Expire
<1> QED
  BY <1>3, <1>4, <1>5, <1>6, Zenon DEF Next

-----------------------------------------------------------------------------
(* The results an execution has so far.                                     *)

\* They are the job's, and those of the group the job waits for.
ResultsKnown ==
    \A p \in Preloader : job[p].at # "idle" =>
        /\ job[p].at = "next" => Done(p) = job[p].rs
        /\ \A c \in Contract : \A i \in DOMAIN sbq[c] :
              sbq[c][i].owner = p => Pending(p) = sbq[c][i] /\ Done(p) = job[p].rs \o sbq[c][i].rs
        /\ job[p].at = "asked" =>
              \E c \in Contract : \E i \in DOMAIN sbq[c] : sbq[c][i].owner = p /\ Group(p)[1].cid = c
        /\ Done(p) \in Seq(Results) /\ Len(Done(p)) \in Nat /\ Len(Done(p)) <= Len(TxsOf(p))

LEMMA DoneFacts == TypeOK /\ InvRequests => ResultsKnown
<1> SUFFICES ASSUME TypeOK, InvRequests, NEW p \in Preloader, job[p].at # "idle"
             PROVE  /\ job[p].at = "next" => Done(p) = job[p].rs
                    /\ \A c \in Contract : \A i \in DOMAIN sbq[c] :
                          sbq[c][i].owner = p => Pending(p) = sbq[c][i] /\ Done(p) = job[p].rs \o sbq[c][i].rs
                    /\ job[p].at = "asked" =>
                          \E c \in Contract : \E i \in DOMAIN sbq[c] : sbq[c][i].owner = p /\ Group(p)[1].cid = c
                    /\ Done(p) \in Seq(Results) /\ Len(Done(p)) \in Nat /\ Len(Done(p)) <= Len(TxsOf(p))
  BY DEF ResultsKnown
<1>0. /\ job[p].at \in {"next", "asked"} /\ job[p].rs \in Seq(Results) /\ Len(job[p].rs) \in Nat
      /\ Len(job[p].rs) <= Len(TxsOf(p)) /\ Len(TxsOf(p)) \in Nat /\ p # Nobody
  BY JobFacts, PreloadAssumption
<1>1. CASE job[p].at = "next"
  <2>1. Done(p) = job[p].rs \o <<>>
    BY <1>1 DEF Done
  <2>2. Done(p) = job[p].rs
    BY <1>0, <2>1, ConcatEmptySeq
  <2>3. \A c \in Contract : \A i \in DOMAIN sbq[c] : sbq[c][i].owner # p
    BY <1>0, <1>1, OwnerFacts
  <2> QED
    BY <1>0, <1>1, <2>2, <2>3
<1>2. CASE job[p].at = "asked"
  <2> DEFINE c == Group(p)[1].cid
  <2>1. Len(job[p].rs) < Len(TxsOf(p)) /\ \E i \in DOMAIN sbq[c] : sbq[c][i].owner = p
    BY <1>2 DEF InvRequests
  <2>2. PICK i \in DOMAIN sbq[c] : sbq[c][i].owner = p
    BY <2>1
  <2>3. c \in Contract /\ Len(Group(p)) \in Nat /\ Len(job[p].rs) + Len(Group(p)) <= Len(TxsOf(p))
    BY <1>2, <2>1, GroupFacts
  <2>4. \A d \in Contract : \A k \in DOMAIN sbq[d] : sbq[d][k].owner = p => d = c /\ k = i
    <3>1. \A x, y \in Contract : \A m \in DOMAIN sbq[x], k \in DOMAIN sbq[y] :
             sbq[x][m].owner = sbq[y][k].owner /\ sbq[x][m].owner # Nobody => x = y /\ m = k
      BY DEF InvRequests
    <3> HIDE DEF c
    <3> QED
      BY <1>0, <2>2, <2>3, <3>1
  <2>5. Pending(p) = sbq[c][i]
    <3>1. ToSet(sbq[c]) = {sbq[c][k] : k \in DOMAIN sbq[c]}
      BY DEF ToSet
    <3>2. sbq[c][i] \in ToSet(sbq[c]) /\ \A f \in ToSet(sbq[c]) : f.owner = p => f = sbq[c][i]
      <4> HIDE DEF c
      <4> QED
        BY <2>2, <2>3, <2>4, <3>1
    <3>3. Pending(p) = CHOOSE f \in ToSet(sbq[c]) : f.owner = p
      BY DEF Pending
    <3> QED
      BY <2>2, <3>2, <3>3
  <2>6. Done(p) = job[p].rs \o Pending(p).rs
    BY <1>2 DEF Done, Pending
  <2>7. /\ sbq[c][i].rs \in Seq(Results) /\ Len(sbq[c][i].rs) \in Nat /\ Len(sbq[c][i].rs) < Len(sbq[c][i].txs)
        /\ sbq[c][i].txs = Group(p)
    <3> HIDE DEF c
    <3> QED
      BY <1>0, <2>2, <2>3, RequestFacts, OwnerFacts
  <2>8. Done(p) \in Seq(Results) /\ Len(Done(p)) = Len(job[p].rs) + Len(sbq[c][i].rs)
    <3> HIDE DEF c
    <3> QED
      BY <1>0, <2>5, <2>6, <2>7, ConcatProperties
  <2>9. Len(Done(p)) \in Nat /\ Len(Done(p)) <= Len(TxsOf(p))
    <3> DEFINE x == Len(job[p].rs)
               y == Len(sbq[c][i].rs)
               z == Len(Group(p))
    <3>1. x \in Nat /\ y \in Nat /\ z \in Nat /\ y < z /\ x + z <= Len(TxsOf(p)) /\ Len(Done(p)) = x + y
      BY <1>0, <2>3, <2>7, <2>8
    <3> HIDE DEF x, y, z
    <3> QED
      BY <1>0, <3>1
  <2> HIDE DEF c
  <2>10. \A d \in Contract : \A k \in DOMAIN sbq[d] :
            sbq[d][k].owner = p => Pending(p) = sbq[d][k] /\ Done(p) = job[p].rs \o sbq[d][k].rs
    BY <2>4, <2>5, <2>6
  <2> QED
    BY <1>2, <2>2, <2>3, <2>8, <2>9, <2>10 DEF c
<1> QED
  BY <1>0, <1>1, <1>2

LEMMA DoneNext == TypeOK' /\ InvRequests' => ResultsKnown'
  BY DoneFacts, PTL

-----------------------------------------------------------------------------
(* What a step does to an execution that is alone after it.                 *)

KeepsGroup(p) ==
    \A c \in Contract : \A i \in DOMAIN sbq[c] : sbq[c][i].owner = p =>
        \E k \in DOMAIN sbq'[c] : /\ sbq'[c][k].owner = p /\ sbq'[c][k].rs = sbq[c][i].rs
                                  /\ sbq'[c][k].mode = sbq[c][i].mode

LEMMA DoneKept ==
    ASSUME TypeOK, InvRequests, TypeOK', InvRequests', NEW p \in Preloader, job[p].at # "idle", SameWork(p), KeepsGroup(p)
    PROVE  Done(p)' = Done(p) /\ (job[p].at = "asked" => Pending(p)'.mode = Pending(p).mode)
<1>1. ResultsKnown /\ ResultsKnown'
  BY DoneFacts, DoneNext
<1>2. job'[p].at = job[p].at /\ job'[p].rs = job[p].rs /\ job[p].at \in {"next", "asked"}
  BY JobFacts DEF SameWork
<1>5. /\ job[p].at = "next" => Done(p) = job[p].rs
      /\ \A c \in Contract : \A i \in DOMAIN sbq[c] :
            sbq[c][i].owner = p => Pending(p) = sbq[c][i] /\ Done(p) = job[p].rs \o sbq[c][i].rs
      /\ job[p].at = "asked" => \E c \in Contract : \E i \in DOMAIN sbq[c] : sbq[c][i].owner = p /\ Group(p)[1].cid = c
  BY <1>1, Zenon DEF ResultsKnown
<1>6. /\ job'[p].at = "next" => Done(p)' = job'[p].rs
      /\ \A c \in Contract : \A i \in DOMAIN sbq'[c] :
            sbq'[c][i].owner = p => Pending(p)' = sbq'[c][i] /\ Done(p)' = job'[p].rs \o sbq'[c][i].rs
  <2>1. job'[p].at # "idle"
    BY <1>2
  <2> QED
    BY <1>1, <2>1, Zenon DEF ResultsKnown
<1>3. CASE job[p].at = "next"
  BY <1>2, <1>3, <1>5, <1>6
<1>4. CASE job[p].at = "asked"
  <2>1. PICK c \in Contract : \E i \in DOMAIN sbq[c] : sbq[c][i].owner = p
    BY <1>4, <1>5
  <2>2. PICK i \in DOMAIN sbq[c] : sbq[c][i].owner = p
    BY <2>1
  <2>3. PICK k \in DOMAIN sbq'[c] : sbq'[c][k].owner = p /\ sbq'[c][k].rs = sbq[c][i].rs /\ sbq'[c][k].mode = sbq[c][i].mode
    BY <2>2 DEF KeepsGroup
  <2>4. Pending(p) = sbq[c][i] /\ Done(p) = job[p].rs \o sbq[c][i].rs
    BY <1>5, <2>2
  <2>5. Pending(p)' = sbq'[c][k] /\ Done(p)' = job'[p].rs \o sbq'[c][k].rs
    BY <1>6, <2>3
  <2> QED
    BY <1>2, <2>3, <2>4, <2>5
<1> QED
  BY <1>2, <1>3, <1>4

\* It begins.
Begins(p) == job'[p].at = "next" /\ Done(p)' = <<>> /\ View(job[p].tag)' = world' /\ UNCHANGED world

\* It goes on: the same block under the same tag, and the world stays.
GoesOn(p) ==
    /\ Alone(p) /\ job[p].at # "idle" /\ UNCHANGED world
    /\ job'[p].block = job[p].block /\ job'[p].tag = job[p].tag

\* Nothing happens to it.
Untouched(p) ==
    /\ GoesOn(p) /\ job'[p].at = job[p].at
    /\ Done(p)' = Done(p) /\ View(job[p].tag)' = View(job[p].tag)
    /\ job[p].at = "asked" => Pending(p)'.mode = Pending(p).mode

\* What the dispatcher takes the contract of its next group for.
GroupDoor(p) == Door(dstate[Group(p)[1].cid], Group(p)[1], View(job[p].tag), world)

\* A group is passed on.
Sends(p) ==
    /\ GoesOn(p) /\ Dispatch(p) /\ job'[p].at = "asked" /\ GroupDoor(p) # "refused"
    /\ Done(p)' = Done(p) /\ View(job[p].tag)' = View(job[p].tag) /\ Pending(p)'.mode = GroupDoor(p)

\* A group is refused.
IsRefused(p) ==
    /\ GoesOn(p) /\ Dispatch(p) /\ job'[p].at = "next" /\ GroupDoor(p) = "refused"
    /\ Done(p) = job[p].rs /\ Done(p)' = Done(p) \o [i \in DOMAIN Group(p) |-> Refusal(105)]
    /\ View(job[p].tag)' = View(job[p].tag)

\* A transaction of it is executed.
Executes(p, c) ==
    LET e == First(c)
        r == NextResult(c) IN
    /\ GoesOn(p) /\ SandboxStep(c) /\ e.owner = p /\ Pending(p) = e /\ job[p].at = "asked" /\ e.tag = job[p].tag
    /\ NextTx(c) = TxsOf(p)[Len(Done(p)) + 1] /\ Len(Done(p)) + 1 <= Len(TxsOf(p))
    /\ Done(p)' = Append(Done(p), r)
    /\ View(job[p].tag)' = Over(Puts(NextTx(c), r.ol), View(job[p].tag))
    /\ job'[p].at = "asked" => Pending(p)'.mode = e.mode /\ Joins(TxsOf(p), Len(Done(p)) + 2)

LEMMA ViewKept ==
    ASSUME NEW p, UNCHANGED world, job'[p].tag = job[p].tag, overlay'[job[p].tag] = overlay[job[p].tag]
    PROVE  View(job[p].tag)' = View(job[p].tag)
  BY DEF View

\* Steps that are not the preloader's own.
LEMMA OthersSteps ==
    ASSUME TypeOK, InvRequests, TypeOK', InvRequests', NEW p \in Preloader, Alone(p), UNCHANGED world,
           job'[p] = job[p], overlay'[job[p].tag] = overlay[job[p].tag], KeepsGroup(p)
    PROVE  Untouched(p)
<1>1. job[p].at # "idle" /\ SameWork(p)
  BY DEF Alone, SameWork
<1>2. Done(p)' = Done(p) /\ (job[p].at = "asked" => Pending(p)'.mode = Pending(p).mode)
  BY <1>1, DoneKept
<1>3. View(job[p].tag)' = View(job[p].tag)
  BY ViewKept
<1> QED
  BY <1>1, <1>2, <1>3 DEF Untouched, GoesOn

\* Two that work under one tag are not alone.
LEMMA AloneTag ==
    ASSUME InvAlone, NEW p \in Preloader, Alone(p), NEW q \in Preloader \ {p}, job[q].at # "idle"
    PROVE  job[q].tag # job[p].tag
<1>1. Busy(job[p].tag) = {p}
  BY DEF InvAlone
<1> QED
  BY <1>1 DEF Busy

LEMMA KeepsAll == ASSUME sbq' = sbq, NEW p PROVE KeepsGroup(p)
  BY DEF KeepsGroup

LEMMA DispatchCases ==
    ASSUME TypeOK, InvRequests, TypeOK', InvRequests', NEW p \in Preloader, Alone(p), Dispatch(p)
    PROVE  Sends(p) \/ IsRefused(p)
<1> DEFINE c == Group(p)[1].cid
           mode == GroupDoor(p)
           o == job[p]
<1>1. /\ o.at = "next" /\ o.at # "idle" /\ Len(o.rs) < Len(TxsOf(p)) /\ c \in Contract
      /\ mode = "refused" => job' = [job EXCEPT ![p] = Refused(p)] /\ sbq' = sbq
      /\ mode # "refused" => /\ sbq' = [sbq EXCEPT ![c] = Append(sbq[c], Request(p, mode))]
                             /\ job' = [job EXCEPT ![p] = [o EXCEPT !.at = "asked"]]
                             /\ Request(p, mode) \in Requests
      /\ UNCHANGED <<world, overlay>>
  BY DispatchFacts DEF GroupDoor
<1>2. o \in Jobs /\ DOMAIN job = Preloader /\ o.rs \in Seq(Results)
  BY <1>1, JobFacts DEF TypeOK
<1>3. Done(p) = o.rs
  BY <1>1, DoneFacts DEF ResultsKnown
<1>4. CASE mode = "refused"
  <2> DEFINE rs == [i \in DOMAIN Group(p) |-> Refusal(105)]
             j == Answered(p, rs)
  <2>1. rs \in Seq(Results)
    BY <1>1, RefusalFacts
  <2>2. job' = [job EXCEPT ![p] = j]
    BY <1>1, <1>4 DEF Refused
  <2> HIDE DEF rs
  <2>3. j.at = "next" /\ j.rs = o.rs \o rs /\ j.block = o.block /\ j.tag = o.tag
    BY <1>1, <2>1, AnsweredFacts
  <2> HIDE DEF j
  <2>4. job'[p] = j
    BY <1>2, <2>2
  <2>5. Done(p)' = o.rs \o rs
    <3>1. ResultsKnown'
      BY DoneNext
    <3>2. job'[p].at = "next" /\ job'[p].at # "idle"
      BY <2>3, <2>4
    <3>3. Done(p)' = job'[p].rs
      BY <3>1, <3>2 DEF ResultsKnown
    <3> QED
      BY <2>3, <2>4, <3>3
  <2>6. View(job[p].tag)' = View(job[p].tag)
    BY <1>1, <2>3, <2>4, ViewKept
  <2> QED
    BY <1>1, <1>3, <1>4, <2>3, <2>4, <2>5, <2>6 DEF IsRefused, GoesOn, rs
<1>5. CASE mode # "refused"
  <2> DEFINE j == [o EXCEPT !.at = "asked"]
             e == Request(p, mode)
             n == Len(sbq[c]) + 1
  <2>1. j.at = "asked" /\ j.rs = o.rs /\ j.block = o.block /\ j.tag = o.tag
    <3> HIDE DEF o
    <3> QED
      BY <1>2 DEF Jobs
  <2>2. job'[p] = j /\ sbq' = [sbq EXCEPT ![c] = Append(sbq[c], e)] /\ e \in Requests
    BY <1>1, <1>2, <1>5
  <2> HIDE DEF j, o
  <2>3. e.owner = p /\ e.mode = mode /\ e.rs = <<>>
    BY DEF Request
  <2>4. sbq[c] \in Seq(Requests) /\ DOMAIN sbq = Contract
    BY <1>1 DEF TypeOK
  <2> HIDE DEF c, mode, e
  <2>5. sbq'[c] = Append(sbq[c], e)
    BY <1>1, <2>2, <2>4
  <2>6. n \in DOMAIN sbq'[c] /\ sbq'[c][n] = e
    <3>1. /\ Append(sbq[c], e) \in Seq(Requests) /\ Len(Append(sbq[c], e)) = n /\ Append(sbq[c], e)[n] = e
          /\ Len(sbq[c]) \in Nat
      BY <2>2, <2>4, AppendProperties, LenProperties
    <3>2. DOMAIN sbq'[c] = 1 .. n
      BY <2>5, <3>1, LenProperties
    <3> QED
      BY <2>5, <3>1, <3>2
  <2> HIDE DEF n
  <2>7. Pending(p)' = e /\ Done(p)' = o.rs
    <3>1. ResultsKnown'
      BY DoneNext
    <3>2. job'[p].at # "idle"
      BY <2>1, <2>2
    <3>3. \A d \in Contract : \A i \in DOMAIN sbq'[d] :
             sbq'[d][i].owner = p => Pending(p)' = sbq'[d][i] /\ Done(p)' = job'[p].rs \o sbq'[d][i].rs
      BY <3>1, <3>2, Zenon DEF ResultsKnown
    <3>5. c \in Contract /\ n \in DOMAIN sbq'[c] /\ sbq'[c][n].owner = p
      BY <1>1, <2>3, <2>6
    <3>6. Pending(p)' = sbq'[c][n] /\ Done(p)' = job'[p].rs \o sbq'[c][n].rs
      BY <3>3, <3>5, Zenon
    <3>4. Pending(p)' = e /\ Done(p)' = o.rs \o <<>>
      BY <2>1, <2>2, <2>3, <2>6, <3>6
    <3> QED
      BY <1>2, <3>4, ConcatEmptySeq
  <2>8. View(job[p].tag)' = View(job[p].tag)
    BY <1>1, <2>1, <2>2, ViewKept DEF o
  <2> QED
    BY <1>1, <1>3, <1>5, <2>1, <2>2, <2>3, <2>7, <2>8 DEF Sends, GoesOn, mode, o
<1> QED
  BY <1>4, <1>5

LEMMA ConcatAppend ==
    ASSUME NEW s \in Seq(Results), NEW t \in Seq(Results), NEW x \in Results
    PROVE  s \o Append(t, x) = Append(s \o t, x)
<1>1. s \o t \in Seq(Results) /\ <<x>> \in Seq(Results)
  BY ConcatProperties
<1>2. Append(t, x) = t \o <<x>>
  BY AppendIsConcat
<1>3. Append(s \o t, x) = (s \o t) \o <<x>>
  BY <1>1, AppendIsConcat
<1>4. (s \o t) \o <<x>> = s \o (t \o <<x>>)
  BY <1>1, ConcatAssociative
<1> QED
  BY <1>2, <1>3, <1>4

\* A sandbox keeps the groups it does not work on, whoever owns them.
LEMMA SandboxKeeps ==
    ASSUME TypeOK, InvRequests, NEW c \in Contract, SandboxStep(c), NEW p, p # First(c).owner
    PROVE  KeepsGroup(p)
<1> DEFINE e == First(c)
<1>1. sbq[c] # <<>>
  BY SandboxFacts
<1>2. /\ DOMAIN sbq[c] = 1 .. Len(sbq[c]) /\ Len(sbq[c]) \in Nat /\ e = sbq[c][1]
  BY <1>1, FirstFacts
<1>3. \A d \in Contract \ {c} : sbq'[d] = sbq[d]
  BY MoreFacts, TailFacts
<1>4. ASSUME NEW i \in DOMAIN sbq[c], sbq[c][i].owner = p
      PROVE  \E k \in DOMAIN sbq'[c] : sbq'[c][k] = sbq[c][i]
  <2>1. i # 1 /\ i \in 1 .. Len(sbq[c])
    BY <1>2, <1>4
  <2>2. CASE Len(e.rs) + 1 < Len(e.txs)
    <3>1. DOMAIN sbq'[c] = DOMAIN sbq[c] /\ \A k \in DOMAIN sbq[c] : k # 1 => sbq'[c][k] = sbq[c][k]
      BY <2>2, MoreFacts
    <3> QED
      BY <2>1, <3>1
  <2>3. CASE ~(Len(e.rs) + 1 < Len(e.txs))
    <3>1. DOMAIN sbq'[c] = 1 .. Len(sbq[c]) - 1 /\ \A k \in DOMAIN sbq'[c] : sbq'[c][k] = sbq[c][k + 1]
      BY <2>3, TailFacts
    <3>2. i - 1 \in 1 .. Len(sbq[c]) - 1 /\ (i - 1) + 1 = i
      BY <1>2, <2>1
    <3> QED
      BY <3>1, <3>2
  <2> QED
    BY <2>2, <2>3
<1> QED
  BY <1>3, <1>4 DEF KeepsGroup

LEMMA SandboxCases ==
    ASSUME TypeOK, InvRequests, TypeOK', InvRequests', NEW c \in Contract, SandboxStep(c),
           NEW p \in Preloader, Alone(p), First(c).owner = p
    PROVE  Executes(p, c)
<1> DEFINE e == First(c)
           tx == NextTx(c)
           r == NextResult(c)
           rs == Append(e.rs, r)
           o == job[p]
           j == Answered(p, rs)
           n == Len(o.rs)
           l == Len(e.rs)
           m == Len(e.txs)
           txs == TxsOf(p)
<1>0. p # Nobody
  BY PreloadAssumption
<1>1. /\ sbq[c] # <<>> /\ UNCHANGED world
      /\ job' = IF Len(rs) < m THEN job ELSE [job EXCEPT ![p] = j]
      /\ \A t \in Tag : View(t)' = IF t = e.tag THEN Over(Puts(tx, r.ol), View(t)) ELSE View(t)
  BY <1>0, SandboxFacts
<1>2. /\ 1 \in DOMAIN sbq[c] /\ e = sbq[c][1] /\ e.tag \in Tag
      /\ e.txs \in Seq(Transactions) /\ e.rs \in Seq(Results) /\ m \in Nat /\ l \in Nat /\ l < m
      /\ rs \in Seq(Results) /\ Len(rs) = l + 1 /\ r \in Results
  BY <1>1, FirstFacts
<1>3. /\ o.at = "asked" /\ o.at # "idle" /\ n < Len(txs) /\ o.tag = e.tag /\ e.txs = Group(p)
  <2> HIDE DEF e
  <2> QED
    BY <1>0, <1>2, OwnerFacts DEF e
<1>4. /\ n + m <= Len(txs) /\ \A i \in 1 .. m : e.txs[i] = txs[n + i]
      /\ \A i \in 2 .. m : Joins(txs, n + i)
  BY <1>3, GroupFacts
<1>5. o.rs \in Seq(Results) /\ n \in Nat /\ Len(txs) \in Nat /\ DOMAIN job = Preloader
  BY <1>3, JobFacts DEF TypeOK
<1>6. Pending(p) = e /\ Done(p) = o.rs \o e.rs
  <2>1. ResultsKnown
    BY DoneFacts
  <2>2. \A d \in Contract : \A i \in DOMAIN sbq[d] :
           sbq[d][i].owner = p => Pending(p) = sbq[d][i] /\ Done(p) = job[p].rs \o sbq[d][i].rs
    BY <1>3, <2>1, Zenon DEF ResultsKnown
  <2> HIDE DEF e, o
  <2> QED
    BY <1>2, <2>2 DEF e, o
<1>7. Len(Done(p)) = n + l
  <2> HIDE DEF e, o
  <2> QED
    BY <1>2, <1>5, <1>6, ConcatProperties
<1>8. tx = e.txs[l + 1]
  BY DEF NextTx
<1> HIDE DEF e, tx, r, o
<1>9. tx = txs[Len(Done(p)) + 1] /\ Len(Done(p)) + 1 <= Len(txs)
  <2>1. l + 1 \in 1 .. m /\ n + (l + 1) = (n + l) + 1 /\ (n + l) + 1 <= Len(txs)
    <3> HIDE DEF l, m, n
    <3> QED
      BY <1>2, <1>4, <1>5
  <2> HIDE DEF l, m, n
  <2> QED
    BY <1>4, <1>7, <1>8, <2>1
<1>10. o.rs \o rs = Append(Done(p), r)
  <2>1. Append(o.rs \o e.rs, r) = o.rs \o Append(e.rs, r)
    BY <1>2, <1>5, ConcatAppend, Zenon
  <2> QED
    BY <1>6, <2>1
<1>11. CASE ~(Len(rs) < m)
  <2>1. j.at = "next" /\ j.rs = o.rs \o rs /\ j.block = o.block /\ j.tag = o.tag
    <3> HIDE DEF rs
    <3> QED
      BY <1>2, <1>3, AnsweredFacts DEF o
  <2>2. job'[p] = j
    <3> HIDE DEF j, rs
    <3> QED
      BY <1>1, <1>5, <1>11
  <2> HIDE DEF j
  <2>3. Done(p)' = o.rs \o rs
    <3>1. ResultsKnown'
      BY DoneNext
    <3>2. job'[p].at = "next" /\ job'[p].at # "idle"
      BY <2>1, <2>2
    <3>3. Done(p)' = job'[p].rs
      BY <3>1, <3>2 DEF ResultsKnown
    <3> QED
      BY <2>1, <2>2, <3>3
  <2>4. View(job[p].tag)' = Over(Puts(tx, r.ol), View(job[p].tag))
    <3>1. View(job[p].tag)' = Over(overlay'[e.tag], world')
      BY <1>3, <2>1, <2>2 DEF View, o
    <3>2. \A t \in Tag : t = e.tag => Over(overlay'[t], world') = Over(Puts(tx, r.ol), View(t))
      BY <1>1 DEF View
    <3> QED
      BY <1>2, <1>3, <3>1, <3>2 DEF o
  <2> QED
    BY <1>1, <1>3, <1>6, <1>9, <1>10, <2>1, <2>2, <2>3, <2>4 DEF Executes, GoesOn, e, tx, r, o
<1>12. CASE Len(rs) < m
  <2> DEFINE f == More(c)
  <2>1. l + 1 < m
    BY <1>2, <1>12
  <2>2. /\ f.owner = e.owner /\ f.mode = e.mode /\ f.rs = rs
        /\ DOMAIN sbq'[c] = DOMAIN sbq[c]
        /\ \A i \in DOMAIN sbq[c] : sbq'[c][i] = IF i = 1 THEN f ELSE sbq[c][i]
    BY <2>1, MoreFacts DEF e, r
  <2> HIDE DEF f, rs
  <2>3. job' = job
    BY <1>1, <1>12
  <2>4. 1 \in DOMAIN sbq'[c] /\ sbq'[c][1].owner = p /\ sbq'[c][1].mode = e.mode /\ sbq'[c][1].rs = rs
    BY <1>2, <2>2 DEF e
  <2>5. Pending(p)' = sbq'[c][1] /\ Done(p)' = o.rs \o rs
    <3>1. ResultsKnown'
      BY DoneNext
    <3>2. job'[p].at # "idle"
      BY <1>3, <2>3 DEF o
    <3>3. \A d \in Contract : \A i \in DOMAIN sbq'[d] :
             sbq'[d][i].owner = p => Pending(p)' = sbq'[d][i] /\ Done(p)' = job'[p].rs \o sbq'[d][i].rs
      BY <3>1, <3>2, Zenon DEF ResultsKnown
    <3>4. Pending(p)' = sbq'[c][1] /\ Done(p)' = job'[p].rs \o sbq'[c][1].rs
      BY <2>4, <3>3, Zenon
    <3> QED
      BY <2>3, <2>4, <3>4 DEF o
  <2>6. View(job[p].tag)' = Over(Puts(tx, r.ol), View(job[p].tag))
    <3>1. View(job[p].tag)' = Over(overlay'[e.tag], world')
      BY <1>3, <2>3 DEF View, o
    <3>2. \A t \in Tag : t = e.tag => Over(overlay'[t], world') = Over(Puts(tx, r.ol), View(t))
      BY <1>1 DEF View
    <3> QED
      BY <1>2, <1>3, <3>1, <3>2 DEF o
  <2>7. Joins(txs, Len(Done(p)) + 2)
    <3>1. l + 2 \in 2 .. m /\ n + (l + 2) = (n + l) + 2
      <4> HIDE DEF l, m, n
      <4> QED
        BY <1>2, <1>5, <2>1
    <3> HIDE DEF l, m, n
    <3> QED
      BY <1>4, <1>7, <3>1
  <2> QED
    BY <1>1, <1>3, <1>6, <1>9, <1>10, <2>3, <2>4, <2>5, <2>6, <2>7 DEF Executes, GoesOn, e, tx, r, o
<1> QED
  BY <1>11, <1>12

\* What a step does to an execution that is alone after it: it begins, is not touched, sends a group, has one
\* refused, or one of its transactions is executed.
LEMMA StepCases ==
    ASSUME TypeOK, InvRequests, InvAlone, InvFree, TypeOK', InvRequests', Next,
           NEW p \in Preloader, job'[p].at # "idle", job'[p].alone
    PROVE  Begins(p) \/ Untouched(p) \/ Sends(p) \/ IsRefused(p) \/ \E c \in Contract : Executes(p, c)
<1>0. p # Nobody /\ DOMAIN job = Preloader /\ DOMAIN overlay = Tag
  BY PreloadAssumption DEF TypeOK
<1>1. ASSUME NEW q \in Preloader, NEW b \in Block, NEW t \in Tag, Start(q, b, t)
      PROVE  Begins(p) \/ Untouched(p)
  <2> DEFINE d == Disturbed(Busy(t))
             j == [at |-> "next", block |-> b, tag |-> t, rs |-> <<>>, alone |-> Busy(t) = {} /\ t \notin tainted]
  <2>1. job' = [d EXCEPT ![q] = j] /\ UNCHANGED <<world, overlay, sbq>>
    BY <1>1, Zenon DEF Start
  <2>2. /\ d \in [Preloader -> Jobs \cup {IdleJob}]
        /\ d[p].at = job[p].at /\ (d[p].alone => job[p].alone /\ p \notin Busy(t)) /\ (p \notin Busy(t) => d[p] = job[p])
    BY DisturbedFacts
  <2>3. j.at = "next" /\ j.tag = t /\ j.rs = <<>> /\ (j.alone => Busy(t) = {} /\ t \notin tainted)
    OBVIOUS
  <2> HIDE DEF d, j
  <2>4. CASE q = p
    <3>1. job'[p] = j
      BY <2>1, <2>2, <2>4
    <3>2. overlay[t] = NoWrites
      BY <2>3, <3>1 DEF InvFree
    <3>3. View(job[p].tag)' = Over(NoWrites, world)
      BY <2>1, <2>3, <3>1, <3>2 DEF View
    <3>4. Over(NoWrites, world) = world
      BY DEF Over, NoWrites, TypeOK, IsWorld
    <3>5. Done(p)' = <<>>
      <4>1. ResultsKnown'
        BY DoneNext
      <4>2. job'[p].at = "next" /\ job'[p].at # "idle" /\ job'[p].rs = <<>>
        BY <2>3, <3>1
      <4> QED
        BY <4>1, <4>2, Zenon DEF ResultsKnown
    <3> QED
      BY <2>1, <2>3, <3>1, <3>3, <3>4, <3>5 DEF Begins
  <2>5. CASE q # p
    <3>1. job'[p] = d[p]
      BY <2>1, <2>2, <2>5
    <3>2. Alone(p) /\ job'[p] = job[p]
      BY <2>2, <3>1 DEF Alone
    <3> QED
      BY <2>1, <3>2, KeepsAll, OthersSteps
  <2> QED
    BY <2>4, <2>5
<1>2. ASSUME NEW q \in Preloader, Dispatch(q) PROVE Untouched(p) \/ Sends(p) \/ IsRefused(p)
  <2>1. \A x \in Preloader : SameBusy(x) /\ (job'[x].alone => job[x].alone)
    BY <1>2, DispatchBusy
  <2>2. Alone(p)
    BY <2>1 DEF Alone, SameBusy
  <2>3. CASE q = p
    BY <1>2, <2>2, <2>3, DispatchCases
  <2>4. CASE q # p
    <3> DEFINE c == Group(q)[1].cid
               mode == Door(dstate[c], Group(q)[1], View(job[q].tag), world)
    <3>1. /\ c \in Contract
          /\ mode = "refused" => job' = [job EXCEPT ![q] = Refused(q)] /\ sbq' = sbq
          /\ mode # "refused" => /\ sbq' = [sbq EXCEPT ![c] = Append(sbq[c], Request(q, mode))]
                                 /\ job' = [job EXCEPT ![q] = [job[q] EXCEPT !.at = "asked"]]
                                 /\ Request(q, mode) \in Requests
          /\ UNCHANGED <<world, overlay>>
      BY <1>2, DispatchFacts
    <3>2. job'[p] = job[p]
      BY <1>0, <2>4, <3>1
    <3>3. KeepsGroup(p)
      <4>1. CASE sbq' = sbq
        BY <4>1, KeepsAll
      <4>2. CASE mode # "refused"
        <5> DEFINE e == Request(q, mode)
        <5>1. sbq' = [sbq EXCEPT ![c] = Append(sbq[c], e)] /\ e \in Requests
          BY <3>1, <4>2
        <5> HIDE DEF c, e
        <5>2. sbq'[c] = Append(sbq[c], e) /\ \A d \in Contract \ {c} : sbq'[d] = sbq[d]
          BY <3>1, <5>1 DEF TypeOK
        <5>3. sbq[c] \in Seq(Requests)
          BY <3>1 DEF TypeOK
        <5>4. \A i \in DOMAIN sbq[c] : i \in DOMAIN sbq'[c] /\ sbq'[c][i] = sbq[c][i]
          <6>1. /\ Append(sbq[c], e) \in Seq(Requests) /\ Len(Append(sbq[c], e)) = Len(sbq[c]) + 1
                /\ \A i \in 1 .. Len(sbq[c]) : Append(sbq[c], e)[i] = sbq[c][i]
            BY <5>1, <5>3, AppendProperties
          <6>2. DOMAIN sbq[c] = 1 .. Len(sbq[c]) /\ Len(sbq[c]) \in Nat /\ DOMAIN sbq'[c] = 1 .. Len(sbq[c]) + 1
            BY <5>2, <5>3, <6>1, LenProperties
          <6> QED
            BY <5>2, <6>1, <6>2
        <5> QED
          BY <5>2, <5>4 DEF KeepsGroup
      <4> QED
        BY <3>1, <4>1, <4>2
    <3> QED
      BY <2>2, <3>1, <3>2, <3>3, OthersSteps
  <2> QED
    BY <2>3, <2>4
<1>3. ASSUME NEW q \in Preloader, TimeoutGroup(q) PROVE Untouched(p)
  <2>1. ~job'[q].alone /\ \A x \in Preloader : SameBusy(x) /\ (job'[x].alone => job[x].alone)
    BY <1>3, TimeoutBusy
  <2>2. Alone(p) /\ q # p
    BY <2>1 DEF Alone, SameBusy
  <2>3. \E j : job' = [job EXCEPT ![q] = j]
    BY <1>3 DEF TimeoutGroup
  <2>4. sbq' = Reset(q) /\ UNCHANGED <<world, overlay>>
    BY <1>3 DEF TimeoutGroup, Reset
  <2>5. job'[p] = job[p]
    BY <1>0, <2>2, <2>3
  <2>6. KeepsGroup(p)
    <3> DEFINE s == Reset(q)
    <3>1. /\ \A c \in Contract : DOMAIN s[c] = DOMAIN sbq[c]
          /\ \A c \in Contract : \A i \in DOMAIN s[c] :
                /\ s[c][i].mode = sbq[c][i].mode /\ s[c][i].rs = sbq[c][i].rs
                /\ s[c][i].owner = IF sbq[c][i].owner = q THEN Nobody ELSE sbq[c][i].owner
      BY ResetFacts
    <3> HIDE DEF s
    <3>2. sbq' = s
      BY <2>4 DEF s
    <3> QED
      BY <2>2, <3>1, <3>2 DEF KeepsGroup
  <2> QED
    BY <2>2, <2>4, <2>5, <2>6, OthersSteps
<1>4. ASSUME NEW q \in Preloader, Fail(q) \/ Finish(q) PROVE Untouched(p)
  <2>1. /\ job[q].at = "next" /\ job' = [job EXCEPT ![q] = IdleJob] /\ UNCHANGED <<world, sbq>>
        /\ overlay' = overlay \/ overlay' = [overlay EXCEPT ![job[q].tag] = NoWrites]
    BY <1>4 DEF Fail, Finish, Free
  <2>2. q # p
    BY <1>0, <2>1, IdleFacts
  <2>3. job'[p] = job[p] /\ Alone(p)
    BY <1>0, <2>1, <2>2 DEF Alone
  <2>4. job[q].tag # job[p].tag
    BY <2>1, <2>2, <2>3, AloneTag
  <2>5. overlay'[job[p].tag] = overlay[job[p].tag]
    <3>1. job[p].tag \in Tag
      BY <2>3, JobFacts DEF Alone
    <3> QED
      BY <1>0, <2>1, <2>4, <3>1
  <2> QED
    BY <2>1, <2>3, <2>5, KeepsAll, OthersSteps
<1>5. ASSUME NEW c \in Contract, SandboxStep(c) PROVE Untouched(p) \/ Executes(p, c)
  <2> DEFINE e == First(c)
             o == e.owner
             rs == Append(e.rs, NextResult(c))
  <2>1. /\ sbq[c] # <<>> /\ UNCHANGED world
        /\ job' = IF o = Nobody THEN Disturbed(Busy(e.tag))
                  ELSE IF Len(rs) < Len(e.txs) THEN job ELSE [job EXCEPT ![o] = Answered(o, rs)]
        /\ \A t \in Tag \ {e.tag} : overlay'[t] = overlay[t]
    BY <1>5, SandboxFacts
  <2>2. /\ \A x \in Preloader : SameBusy(x) /\ (job'[x].alone => job[x].alone)
        /\ o = Nobody => \A x \in Busy(e.tag) : ~job'[x].alone
        /\ o # Nobody => o \in Preloader /\ job[o].at = "asked" /\ job[o].tag = e.tag
    BY <1>5, SandboxBusy
  <2>3. Alone(p)
    BY <2>2 DEF Alone, SameBusy
  <2>4. CASE o = p
    BY <1>5, <2>3, <2>4, SandboxCases
  <2>5. CASE o # p
    <3>1. KeepsGroup(p)
      BY <1>5, <2>5, SandboxKeeps
    <3>2. job[p].tag \in Tag /\ job[p].at # "idle"
      BY <2>3, JobFacts DEF Alone
    <3> HIDE DEF e, rs
    <3>3. job[p].tag # e.tag
      <4>1. CASE o = Nobody
        BY <2>2, <3>2, <4>1 DEF Busy
      <4>2. CASE o # Nobody
        <5>1. o \in Preloader \ {p} /\ job[o].at # "idle" /\ job[o].tag = e.tag
          BY <2>2, <2>5, <4>2
        <5> HIDE DEF o
        <5>2. job[o].tag # job[p].tag
          BY <2>3, <5>1, AloneTag
        <5> QED
          BY <5>1, <5>2
      <4> QED
        BY <4>1, <4>2
    <3>4. job'[p] = job[p]
      <4>1. CASE o = Nobody
        <5>1. job' = Disturbed(Busy(e.tag)) /\ p \notin Busy(e.tag)
          BY <2>1, <3>3, <4>1 DEF Busy
        <5> QED
          BY <5>1, DisturbedFacts
      <4>2. CASE o # Nobody
        BY <1>0, <2>1, <2>5, <4>2
      <4> QED
        BY <4>1, <4>2
    <3> QED
      BY <2>1, <2>3, <3>1, <3>2, <3>3, <3>4, OthersSteps
  <2> QED
    BY <2>4, <2>5
<1>6. ASSUME NEW t \in Tag, Expire(t) PROVE Untouched(p)
  <2>1. job' = Disturbed(Busy(t)) /\ overlay' = [overlay EXCEPT ![t] = NoWrites] /\ UNCHANGED <<world, sbq>>
    BY <1>6 DEF Expire, Free
  <2>2. job'[p].at = job[p].at /\ job[p].alone /\ p \notin Busy(t) /\ job'[p] = job[p]
    BY <2>1, DisturbedFacts
  <2>3. Alone(p)
    BY <2>2 DEF Alone
  <2>4. job[p].tag # t
    BY <2>2, <2>3 DEF Busy, Alone
  <2>5. overlay'[job[p].tag] = overlay[job[p].tag]
    <3>1. job[p].tag \in Tag
      BY <2>3, JobFacts DEF Alone
    <3> QED
      BY <1>0, <2>1, <2>4, <3>1
  <2> QED
    BY <2>1, <2>2, <2>3, <2>5, KeepsAll, OthersSteps
<1>7. ~((\E b \in Block : Store(b)) \/ Rollback)
  <2>1. (\E b \in Block : Store(b)) \/ Rollback => job' = Disturbed(Preloader)
    BY Zenon DEF Store, Rollback
  <2> QED
    BY <2>1, DisturbedFacts
<1> QED
  BY <1>1, <1>2, <1>3, <1>4, <1>5, <1>6, <1>7, Zenon DEF Next

-----------------------------------------------------------------------------
(* The logs lead from the world to what the execution sees.                 *)

LEMMA ApplyNothing == ASSUME NEW w, IsWorld(w) PROVE Apply(w, <<>>) = w
<1>1. <<>> \in Seq(OperLogs) /\ Len(<<>>) = 0
  OBVIOUS
<1> DEFINE ol == <<>>
<1>2. ol \in Seq(OperLogs) /\ Len(ol) = 0
  BY <1>1
<1> HIDE DEF ol
<1>3. ASSUME NEW k PROVE LastOn(k, ol) = 0
  <2>1. LastOn(k, ol) \in 0 .. Len(ol)
    BY <1>2, LastOnFacts
  <2> QED
    BY <1>2, <2>1
<1>4. DOMAIN w = Key /\ w = [k \in Key |-> w[k]]
  BY DEF IsWorld
<1>5. Apply(w, ol) = w
  BY <1>3, <1>4 DEF Apply
<1> QED
  BY <1>5 DEF ol

\* The last operation on a key, in logs that others follow.
LEMMA LastOnConcat ==
    ASSUME NEW ol \in Seq(OperLogs), NEW new \in Seq(OperLogs), NEW k
    PROVE  /\ LastOn(k, new) = 0 => LastOn(k, ol \o new) = LastOn(k, ol)
           /\ LastOn(k, new) # 0 => LastOn(k, ol \o new) = Len(ol) + LastOn(k, new)
<1> DEFINE both == ol \o new
           n == Len(ol)
           m == Len(new)
           x == LastOn(k, ol)
           y == LastOn(k, new)
           z == LastOn(k, both)
<1>1. /\ both \in Seq(OperLogs) /\ Len(both) = n + m /\ n \in Nat /\ m \in Nat
      /\ \A i \in 1 .. n : both[i] = ol[i]
      /\ \A i \in n + 1 .. n + m : both[i] = new[i - n]
  BY ConcatProperties, LenProperties
<1>2. /\ x \in 0 .. n /\ (x # 0 => ol[x].key = k) /\ \A i \in 1 .. n : ol[i].key = k => i <= x
      /\ y \in 0 .. m /\ (y # 0 => new[y].key = k) /\ \A i \in 1 .. m : new[i].key = k => i <= y
  BY LastOnFacts
<1> HIDE DEF both
<1>3. z \in 0 .. n + m /\ (z # 0 => both[z].key = k) /\ \A i \in 1 .. n + m : both[i].key = k => i <= z
  BY <1>1, LastOnFacts
<1> HIDE DEF n, m, x, y, z
<1>4. ASSUME z > n PROVE y # 0 /\ z - n <= y
  <2>1. z \in n + 1 .. n + m /\ z - n \in 1 .. m /\ z # 0
    BY <1>1, <1>3, <1>4
  <2>2. new[z - n].key = k
    BY <1>1, <1>3, <2>1
  <2> QED
    BY <1>1, <1>2, <2>1, <2>2
<1>5. ASSUME y # 0 PROVE z = n + y
  <2>1. n + y \in 1 .. n + m /\ n + y \in n + 1 .. n + m /\ (n + y) - n = y
    BY <1>1, <1>2, <1>5
  <2>2. n + y <= z
    BY <1>1, <1>2, <1>3, <1>5, <2>1
  <2> QED
    BY <1>1, <1>2, <1>3, <1>4, <1>5, <2>2
<1>6. ASSUME y = 0 PROVE z = x
  <2>1. z <= n
    BY <1>1, <1>3, <1>4, <1>6
  <2>2. x <= z
    <3>1. CASE x = 0
      BY <1>1, <1>3, <3>1
    <3>2. CASE x # 0
      <4>1. x \in 1 .. n /\ x \in 1 .. n + m
        BY <1>1, <1>2, <3>2
      <4> QED
        BY <1>1, <1>2, <1>3, <3>2, <4>1
    <3> QED
      BY <3>1, <3>2
  <2>3. z <= x
    <3>1. CASE z = 0
      BY <1>1, <1>2, <3>1
    <3>2. CASE z # 0
      <4>1. z \in 1 .. n
        BY <1>1, <1>3, <2>1, <3>2
      <4> QED
        BY <1>1, <1>2, <1>3, <3>2, <4>1
    <3> QED
      BY <3>1, <3>2
  <2> QED
    BY <1>1, <1>2, <1>3, <2>2, <2>3
<1> QED
  BY <1>5, <1>6 DEF n, x, y, z, both

\* Logs of one transaction, put over what the logs before have made.
LEMMA ApplyConcat ==
    ASSUME NEW w, IsWorld(w), NEW ol \in Seq(OperLogs), NEW new \in Seq(OperLogs), NEW tx, tx.op # "points",
           \A i, j \in DOMAIN new : new[i].key = new[j].key => i = j
    PROVE  Apply(w, ol \o new) = Over(Puts(tx, new), Apply(w, ol))
<1> DEFINE puts == Puts(tx, new)
<1>1. \A l : PutKey(tx, l) = l.key
  BY DEF PutKey
<1>2. DOMAIN new = 1 .. Len(new) /\ Len(new) \in Nat /\ \A i \in 1 .. Len(new) : new[i] \in OperLogs
  BY LenProperties, ElementOfSeq
<1>3. /\ DOMAIN puts = {PutKey(tx, new[i]) : i \in DOMAIN new}
      /\ \A i \in DOMAIN new : puts[PutKey(tx, new[i])] = new[i].newValue
  <2>1. \A i \in DOMAIN new : PutKey(tx, new[i]) \in Key /\ new[i].newValue \in Values(PutKey(tx, new[i]))
    BY <1>1, <1>2, LogFacts
  <2>2. \A i, j \in DOMAIN new : PutKey(tx, new[i]) = PutKey(tx, new[j]) => i = j
    BY <1>1
  <2> QED
    BY <2>1, <2>2, PutsFacts, ZenonT(40)
<1> HIDE DEF puts
<1>4. IsWorld(Apply(w, ol)) /\ IsWorld(Apply(w, ol \o new)) /\ ol \o new \in Seq(OperLogs)
  <2>1. ol \o new \in Seq(OperLogs)
    BY ConcatProperties
  <2> QED
    BY <2>1, ApplyType
<1>5. DOMAIN puts \subseteq Key
  BY <1>1, <1>2, <1>3, LogFacts
<1>6. DOMAIN w = Key
  BY DEF IsWorld
<1>7. Over(puts, Apply(w, ol)) = [k \in Key |-> IF k \in DOMAIN puts THEN puts[k] ELSE Apply(w, ol)[k]]
  BY <1>4, <1>5 DEF Over, IsWorld
<1>8. ASSUME NEW k \in Key
      PROVE  Apply(w, ol \o new)[k] = IF k \in DOMAIN puts THEN puts[k] ELSE Apply(w, ol)[k]
  <2> DEFINE y == LastOn(k, new)
             x == LastOn(k, ol)
             z == LastOn(k, ol \o new)
  <2>1. /\ y \in 0 .. Len(new) /\ (y # 0 => new[y].key = k)
        /\ \A i \in 1 .. Len(new) : new[i].key = k => i <= y
        /\ x \in 0 .. Len(ol) /\ Len(ol) \in Nat
    BY LastOnFacts, LenProperties
  <2>2. (y = 0 => z = x) /\ (y # 0 => z = Len(ol) + y)
    BY LastOnConcat
  <2>3. /\ Apply(w, ol \o new)[k] = IF z = 0 THEN w[k] ELSE (ol \o new)[z].newValue
        /\ Apply(w, ol)[k] = IF x = 0 THEN w[k] ELSE ol[x].newValue
    BY <1>6 DEF Apply
  <2>4. /\ \A i \in 1 .. Len(ol) : (ol \o new)[i] = ol[i]
        /\ \A i \in Len(ol) + 1 .. Len(ol) + Len(new) : (ol \o new)[i] = new[i - Len(ol)]
    BY ConcatProperties
  <2> HIDE DEF x, y, z
  <2>5. CASE y = 0
    <3>1. k \notin DOMAIN puts
      <4>1. \A i \in 1 .. Len(new) : new[i].key # k
        BY <1>2, <2>1, <2>5
      <4> QED
        BY <1>1, <1>2, <1>3, <4>1
    <3>2. x # 0 => (ol \o new)[x] = ol[x]
      BY <2>1, <2>4
    <3> QED
      BY <2>2, <2>3, <2>5, <3>1, <3>2
  <2>6. CASE y # 0
    <3>1. y \in DOMAIN new /\ z \in Len(ol) + 1 .. Len(ol) + Len(new) /\ z - Len(ol) = y /\ z # 0
      BY <1>2, <2>1, <2>2, <2>6
    <3>2. PutKey(tx, new[y]) = k
      BY <1>1, <2>1, <2>6
    <3>3. k \in DOMAIN puts /\ puts[k] = new[y].newValue
      BY <1>3, <3>1, <3>2
    <3> QED
      BY <2>3, <2>4, <3>1, <3>3
  <2> QED
    BY <2>5, <2>6
<1>9. Apply(w, ol \o new) = [k \in Key |-> Apply(w, ol \o new)[k]]
  BY <1>4 DEF IsWorld
<1> QED
  BY <1>7, <1>8, <1>9 DEF puts

LEMMA SubAppend ==
    ASSUME NEW S, NEW s \in Seq(S), NEW i \in 0 .. Len(s), i < Len(s)
    PROVE  /\ SubSeq(s, 1, i + 1) = Append(SubSeq(s, 1, i), s[i + 1])
           /\ SubSeq(s, 1, i) \in Seq(S) /\ Len(SubSeq(s, 1, i)) = i /\ s[i + 1] \in S
<1>1. Len(s) \in Nat
  BY LenProperties
<1>2. 1 \in 1 .. Len(s) /\ i + 1 \in 1 .. Len(s) /\ (i + 1) - 1 = i
  BY <1>1
<1>3. SubSeq(s, 1, i + 1) = SubSeq(s, 1, i) \o <<s[i + 1]>>
  BY <1>2, SubSeqRecursiveSecond
<1>4. \A j \in 1 .. i : s[j] \in S
  <2>1. \A j \in 1 .. i : j \in 1 .. Len(s)
    BY <1>1
  <2> QED
    BY <2>1, ElementOfSeq
<1>5. SubSeq(s, 1, i) \in Seq(S) /\ Len(SubSeq(s, 1, i)) = i
  BY <1>4, SubSeqProperties
<1>6. s[i + 1] \in S
  BY <1>2, ElementOfSeq
<1>7. Append(SubSeq(s, 1, i), s[i + 1]) = SubSeq(s, 1, i) \o <<s[i + 1]>>
  BY <1>5, <1>6, AppendIsConcat
<1> QED
  BY <1>3, <1>5, <1>6, <1>7

\* Results that log nothing add nothing to the logs.
LEMMA LogsRefused ==
    ASSUME NEW rs \in Seq(Results), NEW es \in Seq(Results), \A i \in 1 .. Len(es) : es[i].ol = <<>>
    PROVE  Logs(rs \o es) = Logs(rs)
<1> DEFINE n == Len(es)
           T == {i \in 0 .. n : Logs(rs \o SubSeq(es, 1, i)) = Logs(rs)}
<1>1. n \in Nat /\ SubSeq(es, 1, n) = es
  BY LenProperties, SubSeqFull
<1>2. 0 \in T
  <2>1. SubSeq(es, 1, 0) = <<>> /\ rs \o <<>> = rs
    BY SubSeqEmpty, ConcatEmptySeq
  <2>2. Logs(rs \o SubSeq(es, 1, 0)) = Logs(rs)
    <3> DEFINE e == SubSeq(es, 1, 0)
    <3>1. rs \o e = rs
      BY <2>1
    <3> HIDE DEF e
    <3>2. Logs(rs \o e) = Logs(rs)
      BY <3>1, Zenon
    <3> QED
      BY <3>2 DEF e
  <2>3. 0 \in 0 .. n
    BY <1>1
  <2> QED
    BY <2>2, <2>3, Zenon
<1>3. \A i \in 0 .. n : i < n /\ i \in T => i + 1 \in T
  <2> SUFFICES ASSUME NEW i \in 0 .. n, i < n, i \in T PROVE i + 1 \in T
    OBVIOUS
  <2> DEFINE s == SubSeq(es, 1, i)
             x == es[i + 1]
  <2>1. SubSeq(es, 1, i + 1) = Append(s, x) /\ s \in Seq(Results) /\ x \in Results
    BY SubAppend
  <2>2. i + 1 \in 0 .. n /\ i + 1 \in 1 .. n
    BY <1>1
  <2>3. x.ol = <<>>
    BY <2>2
  <2>4. Logs(rs \o s) = Logs(rs)
    OBVIOUS
  <2> HIDE DEF s, x, T
  <2>5. rs \o Append(s, x) = Append(rs \o s, x)
    BY <2>1, ConcatAppend
  <2>6. rs \o s \in Seq(Results)
    BY <2>1, ConcatProperties
  <2>7. Logs(Append(rs \o s, x)) = Logs(rs \o s) \o x.ol
    BY <2>1, <2>6, LogsAppend
  <2>8. Logs(rs) \o <<>> = Logs(rs)
    BY LogsType, ConcatEmptySeq
  <2>9. Logs(rs \o SubSeq(es, 1, i + 1)) = Logs(rs)
    BY <2>1, <2>3, <2>4, <2>5, <2>7, <2>8
  <2> QED
    BY <2>2, <2>9 DEF T
<1> HIDE DEF n
<1>4. \A i \in 0 .. n : i \in T
  <2> HIDE DEF T
  <2> QED
    BY <1>1, <1>2, <1>3, UpTo
<1>5. n \in T
  BY <1>1, <1>4
<1> QED
  BY <1>1, <1>5

\* Every step keeps the logs in agreement with the view.
LEMMA ReplayStep ==
    ASSUME TypeOK, InvRequests, InvAlone, InvFree, LogsReplayToView, TypeOK', InvRequests', Next
    PROVE  LogsReplayToView'
<1> SUFFICES ASSUME NEW p \in Preloader, Alone(p)', ~HasPoints(job[p].block)'
             PROVE  Replays(p)'
  BY DEF LogsReplayToView
<1>1. job'[p].at # "idle" /\ job'[p].alone
  BY DEF Alone
<1>2. Begins(p) \/ Untouched(p) \/ Sends(p) \/ IsRefused(p) \/ \E c \in Contract : Executes(p, c)
  BY <1>1, StepCases
<1>3. ResultsKnown
  BY DoneFacts
<1>4. ASSUME GoesOn(p)
      PROVE  /\ Replays(p) /\ Done(p) \in Seq(Results) /\ IsWorld(world) /\ job[p].at # "idle"
             /\ ~HasPoints(job[p].block) /\ IsWorld(View(job[p].tag))
  <2>1. Alone(p) /\ job[p].at # "idle" /\ ~HasPoints(job[p].block)
    BY <1>4 DEF GoesOn, HasPoints
  <2>2. Done(p) \in Seq(Results)
    BY <1>3, <2>1, Zenon DEF ResultsKnown
  <2>3. IsWorld(world)
    BY DEF TypeOK
  <2>4. IsWorld(View(job[p].tag))
    BY <2>1, JobFacts, ViewType
  <2> QED
    BY <2>1, <2>2, <2>3, <2>4 DEF LogsReplayToView
<1>5. CASE Begins(p)
  <2>1. IsWorld(world') /\ Logs(<<>>) = <<>>
    <3>1. <<>> \in Seq(Results)
      OBVIOUS
    <3>2. [code |-> 0, ol |-> <<>>] \in Results
      BY DEF Results
    <3> QED
      BY <3>1, <3>2, LogsAppend DEF TypeOK
  <2>2. Apply(world', <<>>) = world'
    BY <2>1, ApplyNothing
  <2> QED
    BY <1>5, <2>1, <2>2 DEF Begins, Replays
<1>6. CASE Untouched(p) \/ Sends(p)
  <2>1. GoesOn(p) /\ Done(p)' = Done(p) /\ View(job[p].tag)' = View(job[p].tag) /\ world' = world
    BY <1>6 DEF Untouched, Sends, GoesOn
  <2> QED
    BY <1>4, <2>1 DEF Replays
<1>7. CASE IsRefused(p)
  <2> DEFINE es == [i \in DOMAIN Group(p) |-> Refusal(105)]
  <2>1. /\ GoesOn(p) /\ Done(p)' = Done(p) \o es /\ View(job[p].tag)' = View(job[p].tag) /\ world' = world
        /\ Dispatch(p)
    BY <1>7 DEF IsRefused, GoesOn
  <2>2. es \in Seq(Results) /\ \A i \in 1 .. Len(es) : es[i] = Refusal(105)
    BY <1>4, <2>1, DispatchFacts, RefusalFacts
  <2> HIDE DEF es
  <2>3. \A i \in 1 .. Len(es) : es[i].ol = <<>>
    BY <2>2 DEF Refusal
  <2>4. Logs(Done(p) \o es) = Logs(Done(p))
    BY <1>4, <2>1, <2>2, <2>3, LogsRefused
  <2> QED
    BY <1>4, <2>1, <2>4 DEF Replays
<1>8. ASSUME NEW c \in Contract, Executes(p, c) PROVE Replays(p)'
  <2> DEFINE tx == NextTx(c)
             r == NextResult(c)
             ol == Logs(Done(p))
             v == View(job[p].tag)
  <2>1. /\ GoesOn(p) /\ Done(p)' = Append(Done(p), r) /\ world' = world
        /\ View(job[p].tag)' = Over(Puts(tx, r.ol), v)
        /\ tx = TxsOf(p)[Len(Done(p)) + 1] /\ Len(Done(p)) + 1 <= Len(TxsOf(p)) /\ SandboxStep(c)
        /\ First(c).tag = job[p].tag
    BY <1>8 DEF Executes, GoesOn
  <2>2. /\ Replays(p) /\ Done(p) \in Seq(Results) /\ IsWorld(world) /\ IsWorld(v)
        /\ ~HasPoints(job[p].block) /\ Len(Done(p)) \in Nat /\ Len(TxsOf(p)) \in Nat
    <3>1. job[p].at # "idle"
      BY <1>4, <2>1
    <3> QED
      BY <1>4, <2>1, <3>1, LenProperties, JobFacts
  <2>3. sbq[c] # <<>>
    BY <2>1, SandboxFacts
  <2>4. /\ r \in Results /\ tx \in Transactions /\ NextCode(c) \in Nat \cup {None} /\ (r.code # 0 => r.ol = <<>>)
        /\ r.code = 0 => r.ol = Writes(tx, v, NextCode(c)) /\ (tx.op \in Invokes => NextCode(c) \in Nat)
    BY <2>1, <2>3, FirstFacts
  <2>5. tx.op # "points"
    <3>1. Len(Done(p)) + 1 \in DOMAIN TxsOf(p)
      <4>1. DOMAIN TxsOf(p) = 1 .. Len(TxsOf(p))
        BY <1>4, <2>1, JobFacts
      <4> QED
        BY <2>1, <2>2, <4>1
    <3> HIDE DEF tx
    <3> QED
      BY <2>1, <2>2, <3>1 DEF HasPoints, TxsOf
  <2>6. Logs(Append(Done(p), r)) = ol \o r.ol
    BY <2>2, <2>4, LogsAppend
  <2>7. ol \in Seq(OperLogs) /\ Apply(world, ol) = v
    BY <2>2, LogsType DEF Replays
  <2> HIDE DEF r, tx, ol, v
  <2>8. Apply(world, ol \o r.ol) = Over(Puts(tx, r.ol), v)
    <3>1. CASE r.code # 0
      <4>1. r.ol = <<>> /\ ol \o <<>> = ol
        BY <2>4, <2>7, <3>1, ConcatEmptySeq
      <4>2. Over(Puts(tx, <<>>), v) = v
        BY <2>2, PutsNothing
      <4> QED
        BY <2>7, <4>1, <4>2
    <3>2. CASE r.code = 0
      <4> DEFINE new == Writes(tx, v, NextCode(c))
      <4>1. new \in Seq(OperLogs) /\ \A i, j \in DOMAIN new : new[i].key = new[j].key => i = j
        BY <2>2, <2>4, <3>2, WritesFacts
      <4> HIDE DEF new
      <4>2. Apply(world, ol \o new) = Over(Puts(tx, new), Apply(world, ol))
        BY <2>2, <2>5, <2>7, <4>1, ApplyConcat
      <4> QED
        BY <2>4, <2>7, <3>2, <4>2 DEF new
    <3> QED
      BY <3>1, <3>2
  <2>9. /\ Done(p)' = Append(Done(p), r) /\ View(job[p].tag)' = Over(Puts(tx, r.ol), v)
    BY <2>1
  <2> QED
    BY <2>1, <2>6, <2>8, <2>9 DEF Replays, ol
<1> QED
  BY <1>2, <1>5, <1>6, <1>7, <1>8

-----------------------------------------------------------------------------
(* The old values of a block's logs are those of the world before it.       *)

\* What the execution of the first j transactions has logged, and what is visible then, when the old values
\* restore the world: what is not logged is as it was, and what is logged was what the log says.
Restorable(w, txs, ol, view, j) ==
    /\ \A k \in Key : (\A i \in DOMAIN ol : ol[i].key # k) => view[k] = w[k]
    /\ \A i \in DOMAIN ol :
          LET k == ol[i].key IN
          /\ ol[i].oldValue = w[k]
          /\ k[1] = "coder" => ol[i].oldValue = None
          /\ k[1] = "data" => \E m \in 1 .. j : txs[m].op = "invoke" /\ k = <<"data", Name[txs[m].cid]>>

\* Where a key is written is where it is logged, but for points.
LEMMA PutsKeys ==
    ASSUME NEW tx, tx.op # "points", NEW ol \in Seq(OperLogs), \A i, j \in DOMAIN ol : ol[i].key = ol[j].key => i = j
    PROVE  DOMAIN Puts(tx, ol) = {ol[i].key : i \in DOMAIN ol}
  BY DEF Puts, PutKey

LEMMA StepLogs ==
    ASSUME NEW w, IsWorld(w), NEW txs, NEW s, NEW i \in Nat \ {0}, IsReference(s, i - 1), txs[i] \in Transactions
    PROVE  /\ StepResult(w, txs, s, i).code # 0 => StepResult(w, txs, s, i).ol = <<>>
           /\ StepResult(w, txs, s, i).code = 0 =>
                 /\ StepResult(w, txs, s, i).ol = Writes(txs[i], s.view, Loaded(s.cls, txs[i], w))
                 /\ txs[i].op # "throw"
                 /\ txs[i].op \in Invokes => Loaded(s.cls, txs[i], w) \in Nat
           /\ StepResult(w, txs, s, i) \in Results /\ Loaded(s.cls, txs[i], w) \in Nat \cup {None}
           /\ IsolatedStep(w, txs, s, i).rs = Append(s.rs, StepResult(w, txs, s, i))
<1>1. LET r == StepResult(w, txs, s, i)
          code == Loaded(s.cls, txs[i], w)
          t == IsolatedStep(w, txs, s, i) IN
      /\ IsReference(t, i) /\ r \in Results /\ code \in Nat \cup {None}
      /\ t.rs = Append(s.rs, r) /\ t.view = Over(Puts(txs[i], r.ol), s.view)
      /\ t.cls = IF r.code \in {0, 102} /\ txs[i].op # "state" THEN [s.cls EXCEPT ![txs[i].cid] = code] ELSE s.cls
      /\ t.mode = IF Joins(txs, i) THEN s.mode ELSE Door("none", txs[i], s.view, w)
      /\ r.code = 0 => /\ r.ol = Writes(txs[i], s.view, code) /\ txs[i].op # "throw"
                       /\ (txs[i].op \in Invokes => code \in Nat)
      /\ r.code # 0 => r.ol = <<>>
      /\ IsPart(Puts(txs[i], r.ol))
  BY StepFacts, Zenon
<1> QED
  BY <1>1, Zenon

LEMMA StepView ==
    ASSUME NEW w, NEW txs, NEW s, NEW i
    PROVE  IsolatedStep(w, txs, s, i).view = Over(Puts(txs[i], StepResult(w, txs, s, i).ol), s.view)
  BY DEF IsolatedStep, StepResult

\* A transaction whose old values are those of the world, after others.
LEMMA RestorableAdd ==
    ASSUME NEW w, NEW txs, NEW ol \in Seq(OperLogs), NEW view, IsWorld(view), NEW j \in Nat \ {0},
           Restorable(w, txs, ol, view, j - 1), txs[j].op # "points",
           NEW new \in Seq(OperLogs), \A a, b \in DOMAIN new : new[a].key = new[b].key => a = b,
           \A i \in DOMAIN new :
              /\ new[i].oldValue = w[new[i].key]
              /\ new[i].key[1] = "coder" => new[i].oldValue = None
              /\ new[i].key[1] = "data" => txs[j].op = "invoke" /\ new[i].key = <<"data", Name[txs[j].cid]>>
    PROVE  Restorable(w, txs, ol \o new, Over(Puts(txs[j], new), view), j)
<1> DEFINE puts == Puts(txs[j], new)
           both == ol \o new
           n == Len(ol)
           m == Len(new)
<1>1. /\ DOMAIN ol = 1 .. n /\ DOMAIN new = 1 .. m /\ n \in Nat /\ m \in Nat
      /\ \A i \in 1 .. m : new[i] \in OperLogs
  BY LenProperties, ElementOfSeq
<1>2. /\ both \in Seq(OperLogs) /\ Len(both) = n + m /\ DOMAIN both = 1 .. n + m
      /\ \A i \in 1 .. n : both[i] = ol[i]
      /\ \A i \in n + 1 .. n + m : both[i] = new[i - n]
  BY ConcatProperties, LenProperties
<1>3. \A l : PutKey(txs[j], l) = l.key
  BY DEF PutKey
<1>4. DOMAIN puts = {new[i].key : i \in DOMAIN new}
  BY PutsKeys
<1>5. DOMAIN view = Key
  BY DEF IsWorld
<1> HIDE DEF both, puts, n, m
<1>6. ASSUME NEW k \in Key, \A i \in DOMAIN both : both[i].key # k PROVE Over(puts, view)[k] = w[k]
  <2>1. \A i \in 1 .. n : ol[i].key # k
    <3>1. \A i \in 1 .. n : i \in 1 .. n + m
      BY <1>1
    <3> QED
      BY <1>2, <1>6, <3>1
  <2>2. \A i \in 1 .. m : new[i].key # k
    <3>1. \A i \in 1 .. m : i + n \in n + 1 .. n + m /\ i + n \in 1 .. n + m /\ (i + n) - n = i
      BY <1>1
    <3> QED
      BY <1>2, <1>6, <3>1
  <2>3. k \notin DOMAIN puts
    BY <1>1, <1>4, <2>2
  <2>4. view[k] = w[k]
    BY <1>1, <2>1 DEF Restorable
  <2> QED
    BY <1>5, <2>3, <2>4 DEF Over
<1>7. ASSUME NEW i \in DOMAIN both
      PROVE  /\ both[i].oldValue = w[both[i].key]
             /\ both[i].key[1] = "coder" => both[i].oldValue = None
             /\ both[i].key[1] = "data" =>
                   \E q \in 1 .. j : txs[q].op = "invoke" /\ both[i].key = <<"data", Name[txs[q].cid]>>
  <2>1. CASE i \in 1 .. n
    <3> DEFINE k == both[i].key
    <3>1. both[i] = ol[i] /\ i \in DOMAIN ol
      BY <1>1, <1>2, <2>1
    <3>2. /\ ol[i].oldValue = w[ol[i].key]
          /\ ol[i].key[1] = "coder" => ol[i].oldValue = None
          /\ ol[i].key[1] = "data" =>
                \E q \in 1 .. j - 1 : txs[q].op = "invoke" /\ ol[i].key = <<"data", Name[txs[q].cid]>>
      BY <3>1 DEF Restorable
    <3>3. \A q \in 1 .. j - 1 : q \in 1 .. j
      OBVIOUS
    <3> QED
      BY <3>1, <3>2, <3>3
  <2>2. CASE i \in n + 1 .. n + m
    <3>1. both[i] = new[i - n] /\ i - n \in 1 .. m
      BY <1>1, <1>2, <2>2
    <3>2. j \in 1 .. j
      OBVIOUS
    <3> QED
      BY <1>1, <3>1, <3>2, SMTT(30)
  <2> QED
    BY <1>1, <1>2, <2>1, <2>2
<1> QED
  BY <1>6, <1>7 DEF Restorable, both, puts

\* What keeps a transaction's old values from being those of the world before the block is not there.
Revocable(w, txs, j) ==
    LET tx == txs[j] IN
    /\ tx.op \notin {"state", "points"}
    /\ tx.op = "deploy" => w[<<"coder", Name[tx.cid]>>] # tx.signer /\ w[<<"state", tx.cid>>] = None
    /\ tx.op = "invoke" => \A m \in 1 .. j - 1 : ~(txs[m].op = "invoke" /\ Name[txs[m].cid] = Name[tx.cid])

LEMMA RestorableStep ==
    ASSUME NEW w, IsWorld(w), NEW txs, NEW s, NEW j \in Nat \ {0}, IsReference(s, j - 1), txs[j] \in Transactions,
           NEW ol \in Seq(OperLogs), Restorable(w, txs, ol, s.view, j - 1), Revocable(w, txs, j)
    PROVE  LET r == StepResult(w, txs, s, j)
           IN  Restorable(w, txs, ol \o r.ol, Over(Puts(txs[j], r.ol), s.view), j)
<1>1. /\ StepResult(w, txs, s, j).code # 0 => StepResult(w, txs, s, j).ol = <<>>
      /\ StepResult(w, txs, s, j).code = 0 =>
            /\ StepResult(w, txs, s, j).ol = Writes(txs[j], s.view, Loaded(s.cls, txs[j], w))
            /\ txs[j].op # "throw"
            /\ txs[j].op \in Invokes => Loaded(s.cls, txs[j], w) \in Nat
      /\ StepResult(w, txs, s, j) \in Results /\ Loaded(s.cls, txs[j], w) \in Nat \cup {None}
  BY StepLogs, Zenon
<1> DEFINE tx == txs[j]
           r == StepResult(w, txs, s, j)
           view == s.view
           new == r.ol
           code == Loaded(s.cls, tx, w)
           mode == IF Joins(txs, j) THEN s.mode ELSE Door("none", tx, view, w)
<1>2. tx.op \in Op /\ tx.cid \in Contract /\ Name[tx.cid] \in Names /\ tx.op # "points" /\ tx.op # "state"
  BY TxFacts DEF Revocable
<1>3. /\ r.code = 0 => new = Writes(tx, view, code) /\ tx.op # "throw" /\ (tx.op \in Invokes => code \in Nat)
      /\ r.code # 0 => new = <<>>
      /\ code \in Nat \cup {None} /\ r \in Results
      /\ IsWorld(view)
  BY <1>1 DEF IsReference
<1>4. new \in Seq(OperLogs)
  BY <1>3 DEF Results
<1>5. r.code = 0 => Checked(tx, view, w, mode)
  <2>1. CASE mode = "refused"
    BY <2>1 DEF StepResult, Refusal
  <2>2. CASE mode # "refused"
    <3>1. r = Execute(tx, view, w, mode, code)
      BY <2>2 DEF StepResult
    <3> HIDE DEF r, mode, code, view
    <3> QED
      BY <1>3, <3>1, ExecuteFacts
  <2> QED
    BY <2>1, <2>2
<1>6. \A a, b \in DOMAIN new : new[a].key = new[b].key => a = b
  <2>1. CASE r.code = 0
    <3> DEFINE wr == Writes(tx, view, code)
    <3>1. \A a, b \in DOMAIN wr : wr[a].key = wr[b].key => a = b
      <4> HIDE DEF code, view
      <4> QED
        BY <1>3, <2>1, WritesFacts
    <3> QED
      BY <1>3, <2>1, <3>1
  <2>2. CASE r.code # 0
    BY <1>3, <2>2
  <2> QED
    BY <2>1, <2>2
<1>7. \A i \in DOMAIN new :
         /\ new[i].oldValue = w[new[i].key]
         /\ new[i].key[1] = "coder" => new[i].oldValue = None
         /\ new[i].key[1] = "data" => tx.op = "invoke" /\ new[i].key = <<"data", Name[tx.cid]>>
  <2>1. CASE r.code # 0
    BY <1>3, <2>1
  <2>2. CASE r.code = 0 /\ tx.op = "deploy"
    <3>1. mode # "leveldb" /\ ByCoder(tx, view)
      BY <1>5, <2>2 DEF Checked, Invokes
    <3>2. ~Joins(txs, j)
      BY <2>2 DEF Joins, Invokes
    <3>3. w[<<"tx", tx.cid>>] = None
      BY <3>1, <3>2 DEF Door
    <3>4. w[<<"coder", Name[tx.cid]>>] # tx.signer /\ w[<<"state", tx.cid>>] = None
      BY <2>2 DEF Revocable
    <3>5. w[<<"coder", Name[tx.cid]>>] = None
      <4> DEFINE k == <<"coder", Name[tx.cid]>>
      <4>1. k \in Key /\ k[1] = "coder"
        BY <1>2, KeyFacts
      <4>2. view[k] \in {None, tx.signer}
        BY <3>1 DEF ByCoder
      <4> HIDE DEF k, view
      <4>3. CASE \A i \in DOMAIN ol : ol[i].key # k
        <5>1. view[k] = w[k]
          BY <4>1, <4>3 DEF Restorable, view
        <5> QED
          BY <3>4, <4>2, <5>1 DEF k
      <4>4. CASE \E i \in DOMAIN ol : ol[i].key = k
        <5>1. w[k] = None
          BY <4>1, <4>4 DEF Restorable
        <5> QED
          BY <5>1 DEF k
      <4> QED
        BY <4>3, <4>4
    <3>6. new = <<OperLog(<<"tx", tx.cid>>, None, tx.code),
                  OperLog(<<"state", tx.cid>>, None, TRUE),
                  OperLog(<<"coder", Name[tx.cid]>>, None, tx.signer)>>
      BY <1>3, <2>2 DEF Writes, Deploy
    <3> HIDE DEF new, tx
    <3>7. /\ DOMAIN new = {1, 2, 3}
          /\ new[1].key = <<"tx", tx.cid>> /\ new[1].oldValue = None
          /\ new[2].key = <<"state", tx.cid>> /\ new[2].oldValue = None
          /\ new[3].key = <<"coder", Name[tx.cid]>> /\ new[3].oldValue = None
      BY <3>6 DEF OperLog
    <3>8. <<"tx", tx.cid>>[1] = "tx" /\ <<"state", tx.cid>>[1] = "state" /\ <<"coder", Name[tx.cid]>>[1] = "coder"
      OBVIOUS
    <3>9. \A i \in DOMAIN new : new[i].key[1] # "data"
      BY <3>7, <3>8
    <3> QED
      BY <3>3, <3>4, <3>5, <3>7, <3>9 DEF tx
  <2>3. CASE r.code = 0 /\ tx.op = "invoke"
    <3> DEFINE k == <<"data", Name[tx.cid]>>
    <3>1. new = <<OperLog(k, view[k], Sum(view[k], code))>>
      BY <1>3, <2>3 DEF Writes, SetVal
    <3>2. k \in Key /\ k[1] = "data"
      BY <1>2, KeyFacts
    <3>3. \A i \in DOMAIN ol : ol[i].key # k
      <4> SUFFICES ASSUME NEW i \in DOMAIN ol, ol[i].key = k PROVE FALSE
        OBVIOUS
      <4> DEFINE key == ol[i].key
      <4>1. key[1] = "data"
        BY <3>2
      <4>2. key[1] = "data" => \E m \in 1 .. j - 1 : txs[m].op = "invoke" /\ key = <<"data", Name[txs[m].cid]>>
        BY DEF Restorable
      <4>3. PICK m \in 1 .. j - 1 : txs[m].op = "invoke" /\ key = <<"data", Name[txs[m].cid]>>
        BY <4>1, <4>2
      <4>4. Name[txs[m].cid] = Name[tx.cid]
        BY <4>3
      <4> QED
        BY <2>3, <4>3, <4>4 DEF Revocable
    <3>4. view[k] = w[k]
      BY <3>2, <3>3 DEF Restorable
    <3> HIDE DEF new, k, view, tx
    <3>5. DOMAIN new = {1} /\ new[1].key = k /\ new[1].oldValue = view[k]
      BY <3>1 DEF OperLog
    <3>6. "data" # "coder"
      OBVIOUS
    <3>7. \A i \in DOMAIN new : new[i].key = k /\ new[i].oldValue = w[k] /\ new[i].key[1] # "coder"
      BY <3>2, <3>4, <3>5, <3>6
    <3> QED
      BY <2>3, <3>7 DEF k, tx
  <2> QED
    BY <1>2, <1>3, <2>1, <2>2, <2>3 DEF Op, Invokes
<1> HIDE DEF new, view
<1>8. Restorable(w, txs, ol \o new, Over(Puts(txs[j], new), view), j)
  BY <1>2, <1>3, <1>4, <1>6, <1>7, RestorableAdd DEF view
<1> QED
  BY <1>8 DEF new, view

LEMMA UndoRestores ==
    ASSUME NEW w, IsWorld(w), NEW ol \in Seq(OperLogs), \A i \in DOMAIN ol : ol[i].oldValue = w[ol[i].key]
    PROVE  Undo(Apply(w, ol), ol) = w
<1>1. DOMAIN w = Key /\ DOMAIN Apply(w, ol) = Key
  BY ApplyType DEF IsWorld
<1>2. ASSUME NEW k \in Key PROVE Undo(Apply(w, ol), ol)[k] = w[k]
  <2> DEFINE i == LastOn(k, ol)
  <2>1. i \in 0 .. Len(ol) /\ (i # 0 => ol[i].key = k) /\ DOMAIN ol = 1 .. Len(ol) /\ Len(ol) \in Nat
    BY LastOnFacts, LenProperties
  <2>2. /\ Undo(Apply(w, ol), ol)[k] = IF i = 0 THEN Apply(w, ol)[k] ELSE ol[i].oldValue
        /\ Apply(w, ol)[k] = IF i = 0 THEN w[k] ELSE ol[i].newValue
    BY <1>1 DEF Undo, Apply
  <2> HIDE DEF i
  <2> QED
    BY <2>1, <2>2
<1>3. Undo(Apply(w, ol), ol) = [k \in Key |-> Undo(Apply(w, ol), ol)[k]]
  BY <1>1 DEF Undo
<1> QED
  BY <1>2, <1>3 DEF IsWorld

LEMMA NothingIrrevocable ==
    ASSUME NEW e, e.block \in Block, ~Irrevocable(e), NEW j \in 1 .. Len(Txs[e.block])
    PROVE  Revocable(e.was, Txs[e.block], j)
<1> DEFINE txs == Txs[e.block]
           w == e.was
           tx == txs[j]
<1>1. DOMAIN txs = 1 .. Len(txs) /\ Len(txs) \in Nat
  BY TxsFacts, LenProperties
<1>2. tx.op \notin {"state", "points"}
  BY <1>1 DEF Irrevocable, HasPoints
<1>3. tx.op = "deploy" => w[<<"coder", Name[tx.cid]>>] # tx.signer /\ w[<<"state", tx.cid>>] = None
  BY <1>1 DEF Irrevocable
<1>4. \A m \in 1 .. j - 1 : tx.op = "invoke" => ~(txs[m].op = "invoke" /\ Name[txs[m].cid] = Name[tx.cid])
  <2> TAKE m \in 1 .. j - 1
  <2>1. m \in DOMAIN txs /\ j \in DOMAIN txs /\ m < j
    BY <1>1
  <2> QED
    BY <2>1 DEF Irrevocable, WritesTwice
<1> QED
  BY <1>2, <1>3, <1>4 DEF Revocable

\* Unless it is irrevocable, the block's old values restore the world.
LEMMA BlockRestores ==
    ASSUME NEW e, e.block \in Block, IsWorld(e.was), ~Irrevocable(e), e.ol = Logs(Isolated(e.was, e.block).rs)
    PROVE  Undo(Apply(e.was, e.ol), e.ol) = e.was
<1> DEFINE w == e.was
           b == e.block
           txs == Txs[b]
           n == Len(txs)
           at == IsolatedUpTo(w, b)
           T == {i \in 0 .. n : Restorable(w, txs, Logs(at[i].rs), at[i].view, i)}
<1>1. n \in Nat /\ \A i \in 1 .. n : txs[i] \in Transactions
  BY TxsFacts
<1>2. /\ Isolated(w, b) = at[n] /\ at[0] = Start0(w)
      /\ \A i \in 1 .. n : at[i] = IsolatedStep(w, txs, at[i - 1], i)
  BY IsolatedDef
<1>3. \A i \in 0 .. n : IsReference(at[i], i)
  BY IsolatedType
<1>4. \A i \in 1 .. n : Revocable(w, txs, i)
  BY NothingIrrevocable
<1>5. IsWorld(w)
  OBVIOUS
<1>6. e.ol = Logs(Isolated(w, b).rs)
  OBVIOUS
<1> HIDE DEF w, n, at, txs, b
<1>7. 0 \in T
  <2> DEFINE ol == Logs(at[0].rs)
  <2>1. at[0].rs = <<>> /\ at[0].view = w
    BY <1>2 DEF Start0
  <2>2. ol = <<>>
    <3>1. [code |-> 0, ol |-> <<>>] \in Results /\ <<>> \in Seq(Results)
      BY DEF Results
    <3> QED
      BY <2>1, <3>1, LogsAppend
  <2> HIDE DEF ol
  <2>3. Restorable(w, txs, ol, at[0].view, 0)
    BY <2>1, <2>2 DEF Restorable
  <2> QED
    BY <1>1, <2>3 DEF ol
<1>8. \A i \in 0 .. n : i < n /\ i \in T => i + 1 \in T
  <2> SUFFICES ASSUME NEW i \in 0 .. n, i < n, i \in T PROVE i + 1 \in T
    OBVIOUS
  <2> DEFINE s == at[i]
             k == i + 1
             r == StepResult(w, txs, s, k)
             t == IsolatedStep(w, txs, s, k)
             ol == Logs(s.rs)
  <2>1. k \in 1 .. n /\ k \in 0 .. n /\ k - 1 = i /\ k \in Nat \ {0}
    BY <1>1
  <2>2. at[k] = t /\ IsReference(s, k - 1) /\ Revocable(w, txs, k) /\ txs[k] \in Transactions
        /\ Restorable(w, txs, ol, s.view, k - 1)
    BY <1>1, <1>2, <1>3, <1>4, <2>1
  <2> HIDE DEF s, k, T
  <2>3. t.rs = Append(s.rs, r) /\ t.view = Over(Puts(txs[k], r.ol), s.view) /\ r \in Results
    <3>1. k \in Nat \ {0}
      BY <2>1
    <3>2. IsReference(s, k - 1) /\ txs[k] \in Transactions
      BY <2>2
    <3>3. t.rs = Append(s.rs, r)
      BY <1>5, <3>1, <3>2, StepLogs, Zenon
    <3>4. t.view = Over(Puts(txs[k], r.ol), s.view)
      BY StepView
    <3>5. r \in Results
      BY <1>5, <3>1, <3>2, StepLogs
    <3> QED
      BY <3>3, <3>4, <3>5
  <2> HIDE DEF t
  <2>4. s.rs \in Seq(Results)
    BY <2>2 DEF IsReference
  <2>5. ol \in Seq(OperLogs)
    BY <2>4, LogsType
  <2> HIDE DEF ol
  <2>6. Restorable(w, txs, ol \o r.ol, Over(Puts(txs[k], r.ol), s.view), k)
    BY <1>5, <2>1, <2>2, <2>5, RestorableStep, Zenon
  <2> HIDE DEF r
  <2>7. Logs(t.rs) = ol \o r.ol
    BY <2>3, <2>4, LogsAppend DEF ol
  <2>8. Restorable(w, txs, Logs(t.rs), t.view, k)
    BY <2>3, <2>6, <2>7
  <2>9. k \in T
    BY <2>1, <2>2, <2>8, Zenon DEF T
  <2> QED
    BY <2>9 DEF k
<1>9. \A i \in 0 .. n : i \in T
  <2> HIDE DEF T
  <2> QED
    BY <1>1, <1>7, <1>8, UpTo
<1>10. Restorable(w, txs, e.ol, at[n].view, n)
  BY <1>1, <1>2, <1>6, <1>9
<1>11. e.ol \in Seq(OperLogs)
  BY <1>1, <1>2, <1>3, <1>6, LogsType DEF IsReference
<1>12. \A i \in DOMAIN e.ol : e.ol[i].oldValue = w[e.ol[i].key]
  BY <1>10 DEF Restorable
<1> QED
  BY <1>5, <1>11, <1>12, UndoRestores DEF w

LEMMA RestoresStep ==
    ASSUME TypeOK, InvChain, Rollback, MadeWorld(Last(chain)), ~Irrevocable(Last(chain))
    PROVE  world' = Last(chain).was
<1> DEFINE e == Last(chain)
<1>1. chain # <<>> /\ world' = Undo(world, e.ol)
  BY RollbackFacts
<1>2. e = chain[Len(chain)] /\ Len(chain) \in DOMAIN chain /\ e.block \in Block /\ IsWorld(e.was)
  BY <1>1, LastFacts
<1>3. e.ol = Logs(Isolated(e.was, e.block).rs)
  BY <1>2 DEF InvChain
<1> HIDE DEF e
<1>4. Undo(Apply(e.was, e.ol), e.ol) = e.was
  BY <1>2, <1>3, BlockRestores DEF e
<1>5. world = Apply(e.was, e.ol)
  BY DEF MadeWorld, e
<1> QED
  BY <1>1, <1>4, <1>5 DEF e

-----------------------------------------------------------------------------
(* What the reference knows stays known.                                    *)

LEMMA StepClasses ==
    ASSUME NEW w, NEW txs, NEW s, NEW i, s.cls \in [Contract -> Nat \cup {None}],
           NEW c \in Contract, s.cls[c] # None
    PROVE  IsolatedStep(w, txs, s, i).cls[c] = s.cls[c]
<1> DEFINE r == StepResult(w, txs, s, i)
           tx == txs[i]
           code == Loaded(s.cls, tx, w)
<1>1. IsolatedStep(w, txs, s, i).cls =
         IF r.code \in {0, 102} /\ tx.op # "state" THEN [s.cls EXCEPT ![tx.cid] = code] ELSE s.cls
  BY DEF IsolatedStep, StepResult
<1>2. tx.cid = c => code = s.cls[c]
  BY DEF Loaded
<1> HIDE DEF r, code
<1> QED
  BY <1>1, <1>2

LEMMA ReferenceSteps ==
    ASSUME NEW w, IsWorld(w), NEW b \in Block, NEW i \in 0 .. Len(Txs[b]), i < Len(Txs[b])
    PROVE  /\ i + 1 \in 1 .. Len(Txs[b]) /\ i + 1 \in Nat \ {0} /\ (i + 1) - 1 = i
           /\ IsolatedUpTo(w, b)[i + 1] = IsolatedStep(w, Txs[b], IsolatedUpTo(w, b)[i], i + 1)
           /\ IsReference(IsolatedUpTo(w, b)[i], i) /\ Txs[b][i + 1] \in Transactions
<1>1. Len(Txs[b]) \in Nat /\ \A j \in 1 .. Len(Txs[b]) : Txs[b][j] \in Transactions
  BY TxsFacts
<1>2. i + 1 \in 1 .. Len(Txs[b]) /\ i + 1 \in Nat \ {0} /\ (i + 1) - 1 = i
  BY <1>1
<1>3. \A j \in 1 .. Len(Txs[b]) :
         IsolatedUpTo(w, b)[j] = IsolatedStep(w, Txs[b], IsolatedUpTo(w, b)[j - 1], j)
  BY IsolatedDef
<1>4. IsolatedUpTo(w, b)[i + 1] = IsolatedStep(w, Txs[b], IsolatedUpTo(w, b)[(i + 1) - 1], i + 1)
  BY <1>2, <1>3, Zenon
<1>5. IsReference(IsolatedUpTo(w, b)[i], i)
  BY IsolatedType
<1> QED
  BY <1>1, <1>2, <1>4, <1>5

\* A class the reference has made is there at its end.
LEMMA ReferenceClasses ==
    ASSUME NEW w, IsWorld(w), NEW b \in Block, NEW i \in 0 .. Len(Txs[b]), NEW c \in Contract,
           IsolatedUpTo(w, b)[i].cls[c] # None
    PROVE  Isolated(w, b).cls[c] = IsolatedUpTo(w, b)[i].cls[c]
<1> DEFINE n == Len(Txs[b])
           at == IsolatedUpTo(w, b)
           T == {j \in 0 .. n : i <= j => at[j].cls[c] = at[i].cls[c]}
<1>1. n \in Nat
  BY TxsFacts
<1>2. 0 \in T
  BY <1>1
<1>3. \A j \in 0 .. n : j < n /\ j \in T => j + 1 \in T
  <2> SUFFICES ASSUME NEW j \in 0 .. n, j < n, j \in T PROVE j + 1 \in T
    OBVIOUS
  <2>1. at[j + 1] = IsolatedStep(w, Txs[b], at[j], j + 1) /\ at[j].cls \in [Contract -> Nat \cup {None}]
    BY ReferenceSteps DEF IsReference
  <2>2. i <= j => at[j].cls[c] = at[i].cls[c]
    OBVIOUS
  <2>3. at[i].cls[c] # None
    OBVIOUS
  <2> HIDE DEF at, T
  <2>4. i <= j => at[j + 1].cls[c] = at[i].cls[c]
    BY <2>1, <2>2, <2>3, StepClasses
  <2>5. i <= j + 1 => i <= j \/ i = j + 1
    BY <1>1
  <2>6. j + 1 \in 0 .. n
    BY <1>1
  <2> QED
    BY <2>4, <2>5, <2>6 DEF T
<1> HIDE DEF n
<1>4. \A j \in 0 .. n : j \in T
  <2> HIDE DEF T
  <2> QED
    BY <1>1, <1>2, <1>3, UpTo
<1>5. n \in T /\ i <= n
  BY <1>1, <1>4 DEF n
<1>6. at[n].cls[c] = at[i].cls[c]
  BY <1>5
<1> QED
  BY <1>6, IsolatedDef DEF n

LEMMA StepStates ==
    ASSUME NEW w, IsWorld(w), NEW txs, NEW s, NEW i \in Nat \ {0}, IsReference(s, i - 1), txs[i] \in Transactions,
           NEW c \in Contract, s.view[<<"state", c>>] # None => w[<<"state", c>>] # None \/ s.cls[c] # None
    PROVE  LET t == IsolatedStep(w, txs, s, i)
           IN  t.view[<<"state", c>>] # None => w[<<"state", c>>] # None \/ t.cls[c] # None
<1> DEFINE r == StepResult(w, txs, s, i)
           tx == txs[i]
           code == Loaded(s.cls, tx, w)
           t == IsolatedStep(w, txs, s, i)
           view == s.view
           k == <<"state", c>>
           mode == IF Joins(txs, i) THEN s.mode ELSE Door("none", tx, view, w)
<1>1. IsWorld(view) /\ s.cls \in [Contract -> Nat \cup {None}]
  BY DEF IsReference
<1>2. /\ t.cls = IF r.code \in {0, 102} /\ tx.op # "state" THEN [s.cls EXCEPT ![tx.cid] = code] ELSE s.cls
      /\ t.view = Over(Puts(tx, r.ol), view)
  BY DEF IsolatedStep, StepResult
<1>3. /\ r.code # 0 => r.ol = <<>>
      /\ r.code = 0 => r.ol = Writes(tx, view, code)
      /\ code \in Nat \cup {None}
  BY StepLogs, Zenon
<1>4. s.cls[c] # None => t.cls[c] # None
  BY <1>1, StepClasses
<1>5. tx \in Transactions /\ tx.op \in Op /\ tx.cid \in Contract /\ tx.code \in Nat \ {0} /\ None \notin Nat
  BY TxFacts, PreloadAssumption
<1>6. DOMAIN view = Key /\ k \in Key
  BY <1>1, KeyFacts DEF IsWorld
<1>7. ASSUME r.code = 0 PROVE Checked(tx, view, w, mode)
  <2>1. mode # "refused"
    BY <1>7 DEF StepResult, Refusal
  <2>2. r = Execute(tx, view, w, mode, code)
    BY <2>1 DEF StepResult
  <2> HIDE DEF r, mode, code, view, tx
  <2> QED
    BY <1>1, <1>3, <1>5, <1>7, <2>2, ExecuteFacts
<1>8. ASSUME k \notin DOMAIN Puts(tx, r.ol)
      PROVE  t.view[k] # None => w[k] # None \/ t.cls[c] # None
  <2>1. t.view[k] = view[k]
    BY <1>2, <1>6, <1>8 DEF Over
  <2> QED
    BY <1>4, <2>1
<1>9. ASSUME k \in DOMAIN Puts(tx, r.ol)
      PROVE  t.view[k] # None => w[k] # None \/ t.cls[c] # None
  <2>1. r.code = 0
    <3> SUFFICES ASSUME r.code # 0 PROVE FALSE
      OBVIOUS
    <3>1. r.ol = <<>>
      BY <1>3
    <3> HIDE DEF r, k
    <3>2. DOMAIN Puts(tx, <<>>) = {}
      BY DEF Puts
    <3> QED
      BY <1>9, <3>1, <3>2
  <2> DEFINE ol == Writes(tx, view, code)
  <2>2. PICK j \in DOMAIN ol : PutKey(tx, ol[j]) = k
    BY <1>3, <1>9, <2>1 DEF Puts
  <2>3. CASE tx.op = "deploy"
    <3>1. ol = <<OperLog(<<"tx", tx.cid>>, None, tx.code),
                 OperLog(<<"state", tx.cid>>, None, TRUE),
                 OperLog(<<"coder", Name[tx.cid]>>, None, tx.signer)>>
      BY <2>3 DEF Writes, Deploy
    <3> HIDE DEF ol, tx, k
    <3>2. /\ DOMAIN ol = {1, 2, 3} /\ ol[1].key = <<"tx", tx.cid>> /\ ol[2].key = <<"state", tx.cid>>
          /\ ol[3].key = <<"coder", Name[tx.cid]>>
      BY <3>1 DEF OperLog
    <3>3. \A l : PutKey(tx, l) = l.key
      BY <2>3 DEF PutKey
    <3>4. <<"tx", tx.cid>> # <<"state", c>> /\ <<"coder", Name[tx.cid]>> # <<"state", c>>
      OBVIOUS
    <3>5. <<"state", tx.cid>> = <<"state", c>>
      BY <2>2, <3>2, <3>3, <3>4 DEF k
    <3>6. tx.cid = c
      BY <3>5
    <3>7. code # None
      BY <1>5, <2>3 DEF Loaded
    <3> HIDE DEF code, r, t
    <3>8. t.cls[c] = code
      BY <1>1, <1>2, <2>1, <2>3, <3>6
    <3> QED
      BY <3>7, <3>8
  <2>4. CASE tx.op = "state"
    <3>1. ol = <<OperLog(<<"state", tx.cid>>, tx.enable, tx.enable)>>
      BY <2>4 DEF Writes, SetState
    <3> HIDE DEF ol, tx, k
    <3>2. DOMAIN ol = {1} /\ ol[1].key = <<"state", tx.cid>>
      BY <3>1 DEF OperLog
    <3>3. \A l : PutKey(tx, l) = l.key
      BY <2>4 DEF PutKey
    <3>4. <<"state", tx.cid>> = <<"state", c>>
      BY <2>2, <3>2, <3>3 DEF k
    <3>5. tx.cid = c
      BY <3>4
    <3>6. view[k] # None
      BY <1>7, <2>1, <2>4, <3>5 DEF Checked, Exists, Invokes, k
    <3> QED
      BY <1>4, <3>6 DEF k
  <2>5. CASE tx.op \in Invokes
    <3>1. \/ ol = <<OperLog(<<"data", Name[tx.cid]>>, view[<<"data", Name[tx.cid]>>], Sum(view[<<"data", Name[tx.cid]>>], code))>>
             /\ \A l : PutKey(tx, l) = l.key
          \/ \A l : PutKey(tx, l) = <<"points", Name[tx.cid]>>
      BY <2>5 DEF Writes, SetVal, PutKey, Invokes
    <3>2. <<"data", Name[tx.cid]>> # k /\ <<"points", Name[tx.cid]>> # k
      OBVIOUS
    <3> HIDE DEF ol, tx, k
    <3> QED
      BY <2>2, <3>1, <3>2 DEF OperLog
  <2> QED
    BY <1>5, <2>3, <2>4, <2>5 DEF Op
<1> QED
  BY <1>8, <1>9

\* A state is visible only of what the world knows or the reference has loaded.
LEMMA ReferenceStates ==
    ASSUME NEW w, IsWorld(w), NEW b \in Block, NEW c \in Contract
    PROVE  \A i \in 0 .. Len(Txs[b]) :
              LET s == IsolatedUpTo(w, b)[i]
              IN  s.view[<<"state", c>>] # None => w[<<"state", c>>] # None \/ s.cls[c] # None
<1> DEFINE n == Len(Txs[b])
           at == IsolatedUpTo(w, b)
           k == <<"state", c>>
           T == {j \in 0 .. n : at[j].view[k] # None => w[k] # None \/ at[j].cls[c] # None}
<1>1. n \in Nat
  BY TxsFacts
<1>2. 0 \in T
  <2>1. at[0].view = w
    <3>1. at[0] = Start0(w)
      BY IsolatedDef
    <3> HIDE DEF at
    <3> QED
      BY <3>1 DEF Start0
  <2> HIDE DEF at
  <2> QED
    BY <1>1, <2>1
<1>3. \A j \in 0 .. n : j < n /\ j \in T => j + 1 \in T
  <2> SUFFICES ASSUME NEW j \in 0 .. n, j < n, j \in T PROVE j + 1 \in T
    OBVIOUS
  <2> DEFINE s == at[j]
             i == j + 1
             txs == Txs[b]
  <2>1. at[i] = IsolatedStep(w, txs, s, i) /\ IsReference(s, i - 1) /\ i \in Nat \ {0} /\ txs[i] \in Transactions
    <3> HIDE DEF i
    <3>1. at[j + 1] = IsolatedStep(w, txs, s, j + 1) /\ IsReference(s, j) /\ j + 1 \in Nat \ {0} /\ txs[j + 1] \in Transactions
          /\ (j + 1) - 1 = j
      BY ReferenceSteps
    <3> HIDE DEF at, s, txs
    <3> QED
      BY <3>1 DEF i
  <2>2. s.view[k] # None => w[k] # None \/ s.cls[c] # None
    OBVIOUS
  <2> HIDE DEF at, T, s, i, txs
  <2>3. LET t == IsolatedStep(w, txs, s, i) IN t.view[k] # None => w[k] # None \/ t.cls[c] # None
    BY <2>1, <2>2, StepStates, Zenon
  <2>4. at[i].view[k] # None => w[k] # None \/ at[i].cls[c] # None
    BY <2>1, <2>3
  <2>5. i \in 0 .. n
    BY <1>1 DEF i
  <2> QED
    BY <2>4, <2>5 DEF T, i
<1>4. \A j \in 0 .. n : j \in T
  <2> HIDE DEF T, n
  <2> QED
    BY <1>1, <1>2, <1>3, UpTo
<1> QED
  BY <1>4

\* The results so far are the first ones of all.
LEMMA ReferencePrefix ==
    ASSUME NEW w, IsWorld(w), NEW b \in Block, NEW i \in 0 .. Len(Txs[b])
    PROVE  IsolatedUpTo(w, b)[i].rs = SubSeq(Isolated(w, b).rs, 1, i)
<1> DEFINE n == Len(Txs[b])
           at == IsolatedUpTo(w, b)
           T == {j \in 0 .. n : i <= j => SubSeq(at[j].rs, 1, i) = at[i].rs}
<1>1. n \in Nat
  BY TxsFacts
<1>2. \A j \in 0 .. n : at[j].rs \in Seq(Results) /\ Len(at[j].rs) = j
  BY IsolatedType DEF IsReference
<1>3. SubSeq(at[i].rs, 1, i) = at[i].rs
  <2> DEFINE rs == at[i].rs
  <2>1. rs \in Seq(Results) /\ Len(rs) = i
    BY <1>2
  <2> HIDE DEF rs
  <2>2. SubSeq(rs, 1, Len(rs)) = rs
    BY <2>1, SubSeqFull
  <2>3. SubSeq(rs, 1, i) = rs
    BY <2>1, <2>2
  <2> QED
    BY <2>3 DEF rs
<1>4. 0 \in T
  <2>1. i <= 0 => i = 0
    BY <1>1
  <2> QED
    BY <1>1, <1>3, <2>1
<1>5. \A j \in 0 .. n : j < n /\ j \in T => j + 1 \in T
  <2> SUFFICES ASSUME NEW j \in 0 .. n, j < n, j \in T PROVE j + 1 \in T
    OBVIOUS
  <2> DEFINE s == at[j]
             r == StepResult(w, Txs[b], s, j + 1)
  <2>1. at[j + 1].rs = Append(s.rs, r)
    <3>1. at[j + 1] = IsolatedStep(w, Txs[b], s, j + 1)
      BY ReferenceSteps
    <3> HIDE DEF s, at
    <3> QED
      BY <3>1 DEF IsolatedStep, StepResult
  <2>2. s.rs \in Seq(Results) /\ Len(s.rs) = j
    BY <1>2
  <2>3. i <= j => SubSeq(s.rs, 1, i) = at[i].rs
    OBVIOUS
  <2>4. r \in Results
    <3> DEFINE k == j + 1
               txs == Txs[b]
    <3>1. k \in Nat \ {0} /\ IsReference(s, k - 1) /\ txs[k] \in Transactions
      BY ReferenceSteps
    <3> HIDE DEF k, s, txs
    <3>2. StepResult(w, txs, s, k) \in Results
      BY <3>1, StepLogs, Zenon
    <3> QED
      BY <3>2 DEF k, txs
  <2>5. j + 1 \in 0 .. n /\ (i <= j + 1 => i <= j \/ i = j + 1)
    BY <1>1
  <2> HIDE DEF T, r, s
  <2>6. ASSUME i <= j PROVE SubSeq(Append(s.rs, r), 1, i) = SubSeq(s.rs, 1, i)
    <3> DEFINE rs == s.rs
    <3>1. rs \in Seq(Results) /\ Len(rs) = j /\ <<r>> \in Seq(Results) /\ Append(rs, r) = rs \o <<r>>
      BY <2>2, <2>4, AppendIsConcat
    <3> HIDE DEF rs
    <3>2. CASE i = 0
      <4>1. SubSeq(Append(rs, r), 1, 0) = <<>> /\ SubSeq(rs, 1, 0) = <<>>
        BY SubSeqEmpty
      <4> QED
        BY <3>2, <4>1 DEF rs
    <3>3. CASE i # 0
      <4>1. 1 \in 1 .. Len(rs) /\ i \in 1 .. Len(rs)
        BY <1>1, <2>6, <3>1, <3>3
      <4>2. SubSeq(rs \o <<r>>, 1, i) = SubSeq(rs, 1, i)
        BY <3>1, <4>1, SubSeqOfConcat1
      <4> QED
        BY <3>1, <4>2 DEF rs
    <3> QED
      BY <3>2, <3>3
  <2>7. ASSUME i <= j + 1 PROVE SubSeq(at[j + 1].rs, 1, i) = at[i].rs
    <3>1. CASE i <= j
      BY <2>1, <2>3, <2>6, <3>1
    <3>2. CASE i = j + 1
      BY <1>3, <3>2
    <3> QED
      BY <2>5, <2>7, <3>1, <3>2
  <2> QED
    BY <2>5, <2>7, Zenon DEF T
<1> HIDE DEF n
<1>6. \A j \in 0 .. n : j \in T
  <2> HIDE DEF T
  <2> QED
    BY <1>1, <1>4, <1>5, UpTo
<1>7. n \in T /\ i <= n
  BY <1>1, <1>6 DEF n
<1>8. SubSeq(at[n].rs, 1, i) = at[i].rs
  BY <1>7
<1> QED
  BY <1>8, IsolatedDef DEF n

-----------------------------------------------------------------------------
(* What the node's contracts know stays known.                              *)

LEMMA StaysKnown ==
    ASSUME TypeOK, InvRequests, Next, NEW c \in Contract
    PROVE  /\ dstate[c] = "leveldb" => dstate'[c] = "leveldb"
           /\ class[c] # None => class'[c] = class[c]
<1>0. DOMAIN dstate = Contract /\ DOMAIN class = Contract
  BY DEF TypeOK
<1>1. ASSUME NEW q \in Preloader, NEW b \in Block, NEW t \in Tag, Start(q, b, t)
      PROVE  UNCHANGED <<dstate, class>>
  BY <1>1, Zenon DEF Start
<1>2. ASSUME NEW q \in Preloader, Dispatch(q)
      PROVE  class' = class /\ (dstate[c] = "leveldb" => dstate'[c] = "leveldb")
  <2> DEFINE d == Group(q)[1].cid
             mode == Door(dstate[d], Group(q)[1], View(job[q].tag), world)
  <2>1. class' = class /\ dstate' = IF mode = "refused" THEN dstate ELSE [dstate EXCEPT ![d] = mode]
    BY <1>2, DispatchFacts, Zenon
  <2>2. dstate[d] = "leveldb" => mode = "leveldb"
    BY DEF Door
  <2> HIDE DEF d, mode
  <2> QED
    BY <1>0, <2>1, <2>2
<1>3. ASSUME NEW q \in Preloader, TimeoutGroup(q) \/ Fail(q) \/ Finish(q) PROVE UNCHANGED <<dstate, class>>
  BY <1>3, Zenon DEF TimeoutGroup, Fail, Finish
<1>4. ASSUME NEW d \in Contract, SandboxStep(d) PROVE dstate' = dstate /\ (class[c] # None => class'[c] = class[c])
  <2> DEFINE r == NextResult(d)
             tx == NextTx(d)
  <2>1. dstate' = dstate /\ sbq[d] # <<>>
        /\ class' = IF r.code \in {0, 102} /\ tx.op # "state" THEN [class EXCEPT ![d] = NextCode(d)] ELSE class
    BY <1>4, SandboxFacts
  <2>2. tx.cid = d
    BY <2>1, FirstFacts
  <2>3. class[d] # None => NextCode(d) = class[d]
    BY <2>2 DEF NextCode, Loaded
  <2> HIDE DEF r, tx
  <2> QED
    BY <1>0, <2>1, <2>3
<1>5. ASSUME NEW t \in Tag, Expire(t) PROVE UNCHANGED <<dstate, class>>
  BY <1>5, Zenon DEF Expire
<1>6. ASSUME (\E b \in Block : Store(b)) \/ Rollback PROVE UNCHANGED <<dstate, class>>
  BY <1>6, Zenon DEF Store, Rollback
<1> QED
  BY <1>1, <1>2, <1>3, <1>4, <1>5, <1>6 DEF Next

LEMMA CidsFacts == \A b \in Block : Cids(b) \subseteq Contract /\ \A i \in 1 .. Len(Txs[b]) : Txs[b][i].cid \in Cids(b)
<1> TAKE b \in Block
<1>1. DOMAIN Txs[b] = 1 .. Len(Txs[b]) /\ \A i \in 1 .. Len(Txs[b]) : Txs[b][i] \in Transactions
  BY TxsFacts, LenProperties
<1> QED
  BY <1>1, TxFacts DEF Cids

\* What belongs to the chain after a step that left the world alone belonged to it before.
LEMMA RemembersBack ==
    ASSUME TypeOK, InvRequests, Next, UNCHANGED world, NEW p, job[p].block \in Block,
           job'[p].block = job[p].block, Remembers(job[p].block)'
    PROVE  Remembers(job[p].block)
<1> DEFINE b == job[p].block
<1>1. \A c \in Cids(b) : /\ dstate'[c] = "leveldb" => world[<<"tx", c>>] # None
                         /\ class'[c] # None => Isolated(world, b).cls[c] \in {None, class'[c]}
                         /\ world[<<"state", c>>] # None => world[<<"tx", c>>] # None
  <2>1. \A c \in Cids(job'[p].block) :
           /\ dstate'[c] = "leveldb" => world'[<<"tx", c>>] # None
           /\ class'[c] # None => Isolated(world', job'[p].block).cls[c] \in {None, class'[c]}
           /\ world'[<<"state", c>>] # None => world'[<<"tx", c>>] # None
    BY DEF Remembers
  <2> QED
    BY <2>1
<1> HIDE DEF b
<1>2. \A c \in Cids(b) : c \in Contract
  BY CidsFacts DEF b
<1>3. \A c \in Cids(b) : /\ dstate[c] = "leveldb" => world[<<"tx", c>>] # None
                         /\ class[c] # None => Isolated(world, b).cls[c] \in {None, class[c]}
                         /\ world[<<"state", c>>] # None => world[<<"tx", c>>] # None
  <2> TAKE c \in Cids(b)
  <2>1. /\ dstate[c] = "leveldb" => dstate'[c] = "leveldb"
        /\ class[c] # None => class'[c] = class[c]
    BY <1>2, StaysKnown
  <2> QED
    BY <1>1, <2>1
<1> QED
  BY <1>3 DEF Remembers, b

-----------------------------------------------------------------------------
(* An execution that is alone, on contracts that remember what belongs to   *)
(* the chain, goes with the reference.                                      *)

\* What the node's class does is what the reference's does.
LEMMA ExecuteAgrees ==
    ASSUME NEW w, IsWorld(w), NEW b \in Block, NEW n \in 0 .. Len(Txs[b]), n < Len(Txs[b]),
           NEW cls \in [Contract -> Nat \cup {None}], NEW c \in Contract, Txs[b][n + 1].cid = c,
           NEW s, s = IsolatedUpTo(w, b)[n], s.cls[c] # None => cls[c] = s.cls[c],
           cls[c] # None => Isolated(w, b).cls[c] \in {None, cls[c]},
           w[<<"state", c>>] # None => w[<<"tx", c>>] # None,
           NEW mode, mode # "refused",
           mode = IF Joins(Txs[b], n + 1) THEN s.mode ELSE Door("none", Txs[b][n + 1], s.view, w)
    PROVE  LET tx == Txs[b][n + 1]
               r == Execute(tx, s.view, w, mode, Loaded(cls, tx, w)) IN
           /\ r = StepResult(w, Txs[b], s, n + 1)
           /\ r.code \in {0, 102} /\ tx.op # "state" /\ Loaded(s.cls, tx, w) # None => Loaded(cls, tx, w) = Loaded(s.cls, tx, w)
<1> DEFINE txs == Txs[b]
           tx == txs[n + 1]
           code == Loaded(cls, tx, w)
           ref == Loaded(s.cls, tx, w)
           r == Execute(tx, s.view, w, mode, code)
           R == Execute(tx, s.view, w, mode, ref)
           t == IsolatedUpTo(w, b)[n + 1]
<1>1. /\ n + 1 \in 1 .. Len(txs) /\ n + 1 \in 0 .. Len(txs) /\ t = IsolatedStep(w, txs, s, n + 1)
      /\ IsReference(s, n) /\ tx \in Transactions
  <2>1. Len(txs) \in Nat
    BY TxsFacts
  <2>2. n + 1 \in 0 .. Len(txs)
    BY <2>1
  <2> QED
    BY <2>2, ReferenceSteps
<1>2. IsWorld(s.view) /\ s.cls \in [Contract -> Nat \cup {None}]
  BY <1>1 DEF IsReference
<1>3. tx.op \in Op /\ tx.cid = c /\ tx.code \in Nat \ {0} /\ None \notin Nat
  BY <1>1, TxFacts, PreloadAssumption
<1>4. R = StepResult(w, txs, s, n + 1)
  BY DEF StepResult
<1>5. t.cls = IF R.code \in {0, 102} /\ tx.op # "state" THEN [s.cls EXCEPT ![c] = ref] ELSE s.cls
  <2> HIDE DEF t, tx, R, ref
  <2>1. t.cls = IF StepResult(w, txs, s, n + 1).code \in {0, 102} /\ tx.op # "state" THEN [s.cls EXCEPT ![tx.cid] = ref] ELSE s.cls
    <3>1. t = IsolatedStep(w, txs, s, n + 1)
      BY <1>1
    <3> QED
      BY <3>1 DEF IsolatedStep, StepResult, ref, tx
  <2> QED
    BY <1>3, <1>4, <2>1
\* A class that the reference makes is the one that the node has.
<1>6. ASSUME R.code \in {0, 102}, tx.op # "state", ref # None, cls[c] # None PROVE ref = cls[c]
  <2> HIDE DEF t, tx, R, ref
  <2>1. t.cls[c] = ref
    BY <1>2, <1>5, <1>6
  <2>2. Isolated(w, b).cls[c] = t.cls[c]
    <3>1. IsolatedUpTo(w, b)[n + 1].cls[c] # None
      BY <1>6, <2>1 DEF t
    <3> DEFINE i == n + 1
    <3>2. i \in 0 .. Len(Txs[b])
      BY <1>1
    <3> HIDE DEF i
    <3>3. IsolatedUpTo(w, b)[i].cls[c] # None
      BY <3>1 DEF i
    <3>4. Isolated(w, b).cls[c] = IsolatedUpTo(w, b)[i].cls[c]
      BY <3>2, <3>3, ReferenceClasses
    <3> QED
      BY <3>4 DEF i, t
  <2> QED
    BY <1>6, <2>1, <2>2
<1>7. CASE cls[c] = None
  <2>1. s.cls[c] = None
    BY <1>7
  <2>2. code = ref
    BY <1>3, <1>7, <2>1 DEF Loaded
  <2> QED
    BY <1>4, <2>2
<1>8. CASE s.cls[c] # None
  <2>1. code = ref
    BY <1>3, <1>8 DEF Loaded
  <2> QED
    BY <1>4, <2>1
<1>9. CASE cls[c] # None /\ s.cls[c] = None
  <2>1. code = cls[c] /\ ref = IF tx.op = "deploy" THEN tx.code ELSE w[<<"tx", c>>]
    BY <1>3, <1>9 DEF Loaded
  <2> HIDE DEF tx, code, ref, t
  <2>2. ASSUME r = R PROVE r.code \in {0, 102} /\ tx.op # "state" /\ ref # None => code = ref
    BY <1>6, <1>9, <2>1, <2>2
  <2>3. CASE ~Checked(tx, s.view, w, mode)
    <3>1. r = Refusal(101) /\ R = Refusal(101)
      BY <2>3 DEF Execute
    <3> HIDE DEF r, R
    <3> QED
      BY <1>4, <2>2, <3>1 DEF tx, r, code, ref
  <2>4. CASE Checked(tx, s.view, w, mode)
    <3>1. CASE tx.op = "throw"
      <4>1. r = Refusal(102) /\ R = Refusal(102)
        BY <2>4, <3>1 DEF Execute
      <4> HIDE DEF r, R
      <4> QED
        BY <1>4, <2>2, <4>1 DEF tx, r, code, ref
    <3>2. CASE tx.op \notin Invokes
      <4>1. tx.op # "throw" /\ tx.op # "points" /\ tx.op \in {"deploy", "state"}
        BY <1>3, <3>2 DEF Invokes, Op
      <4>2. Writes(tx, s.view, code) = Writes(tx, s.view, ref)
        BY <4>1, Zenon DEF Writes
      <4>3. r = [code |-> 0, ol |-> Writes(tx, s.view, code)] /\ R = [code |-> 0, ol |-> Writes(tx, s.view, ref)]
        BY <2>4, <3>2, <4>1 DEF Execute
      <4> HIDE DEF r, R
      <4> QED
        BY <1>4, <2>2, <4>2, <4>3 DEF tx, r, code, ref
    <3>3. CASE tx.op \in Invokes /\ tx.op # "throw"
      <4>1. s.view[<<"state", c>>] # None
        BY <1>3, <2>4, <3>3 DEF Checked, Exists, Invokes
      <4>2. w[<<"state", c>>] # None
        BY <1>9, <4>1, ReferenceStates
      <4>3. ref # None
        BY <2>1, <3>3, <4>2 DEF Invokes
      <4>4. R = [code |-> 0, ol |-> Writes(tx, s.view, ref)]
        BY <2>4, <3>3, <4>3 DEF Execute
      <4>5. ref = code
        <5>1. R.code \in {0, 102} /\ tx.op # "state"
          BY <3>3, <4>4 DEF Invokes
        <5> QED
          BY <1>6, <1>9, <2>1, <4>3, <5>1
      <4>6. r = R
        BY <4>5
      <4> HIDE DEF r, R
      <4> QED
        BY <1>4, <2>2, <4>6 DEF tx, r, code, ref
    <3> QED
      BY <3>1, <3>2, <3>3
  <2> QED
    BY <2>3, <2>4
<1> QED
  BY <1>7, <1>8, <1>9

\* What the reference takes the contract of its n-th transaction for.
ModeAt(w, txs, s, n) == IF Joins(txs, n) THEN s.mode ELSE Door("none", txs[n], s.view, w)

\* What makes an execution agree with the reference after a step that leaves the world alone.
LEMMA AgreesNext ==
    ASSUME NEW p, GoesOn(p),
           NEW s, s = IsolatedUpTo(world, job[p].block)[Len(Done(p)')],
           Done(p)' = s.rs, View(job[p].tag)' = s.view,
           \A c \in Contract : s.cls[c] # None => class'[c] = s.cls[c],
           job'[p].at = "asked" => Pending(p)'.mode = ModeAt(world, TxsOf(p), s, Len(Done(p)') + 1)
    PROVE  IsolatedSoFar(p)'
<1>1. world' = world /\ job'[p].block = job[p].block
  BY DEF GoesOn
<1>2. TxsOf(p)' = TxsOf(p)
  BY <1>1 DEF TxsOf
<1> QED
  BY <1>1, <1>2 DEF IsolatedSoFar, ModeAt

\* The same, before the step.
LEMMA AgreesNow ==
    ASSUME TypeOK, InvRequests, NEW p \in Preloader, job[p].at # "idle", IsolatedSoFar(p)
    PROVE  LET n == Len(Done(p))
               s == IsolatedUpTo(world, job[p].block)[n] IN
           /\ n \in Nat /\ n \in 0 .. Len(TxsOf(p)) /\ Done(p) = s.rs /\ View(job[p].tag) = s.view
           /\ \A c \in Contract : s.cls[c] # None => class[c] = s.cls[c]
           /\ job[p].at = "asked" => Pending(p).mode = ModeAt(world, TxsOf(p), s, n + 1)
           /\ job[p].block \in Block /\ IsWorld(world) /\ IsReference(s, n) /\ TxsOf(p) = Txs[job[p].block]
<1> DEFINE n == Len(Done(p))
           s == IsolatedUpTo(world, job[p].block)[n]
<1>1. n \in Nat /\ n <= Len(TxsOf(p))
  BY DoneFacts DEF ResultsKnown
<1>2. Len(TxsOf(p)) \in Nat /\ job[p].block \in Block
  BY JobFacts
<1>3. IsWorld(world) /\ TxsOf(p) = Txs[job[p].block]
  BY DEF TypeOK, TxsOf
<1>4. n \in 0 .. Len(TxsOf(p))
  BY <1>1, <1>2
<1> HIDE DEF n
<1>5. IsReference(s, n)
  BY <1>2, <1>3, <1>4, IsolatedType
<1>6. /\ Done(p) = s.rs /\ View(job[p].tag) = s.view
      /\ \A c \in Contract : s.cls[c] # None => class[c] = s.cls[c]
      /\ job[p].at = "asked" => Pending(p).mode = ModeAt(world, TxsOf(p), s, n + 1)
  BY DEF IsolatedSoFar, ModeAt, n
<1> QED
  BY <1>1, <1>2, <1>3, <1>4, <1>5, <1>6 DEF n

\* A group is passed on with what the reference takes its contract for.
LEMMA SendsAgrees ==
    ASSUME TypeOK, InvRequests, TypeOK', Next, NEW p \in Preloader, Sends(p), IsolatedSoFar(p), Remembers(job[p].block)
    PROVE  IsolatedSoFar(p)'
<1> DEFINE n == Len(Done(p))
           s == IsolatedUpTo(world, job[p].block)[n]
           txs == TxsOf(p)
           c == Group(p)[1].cid
<1>1. /\ GoesOn(p) /\ Dispatch(p) /\ job'[p].at = "asked" /\ job[p].at # "idle"
      /\ Done(p)' = Done(p) /\ View(job[p].tag)' = View(job[p].tag) /\ Pending(p)'.mode = GroupDoor(p)
  BY DEF Sends, GoesOn
<1>2. /\ job[p].at = "next" /\ Len(job[p].rs) < Len(txs) /\ c \in Contract
  BY <1>1, DispatchFacts, Zenon
<1>3. /\ n \in Nat /\ Done(p) = s.rs /\ View(job[p].tag) = s.view
      /\ \A d \in Contract : s.cls[d] # None => class[d] = s.cls[d]
      /\ job[p].block \in Block /\ txs = Txs[job[p].block]
  BY <1>1, AgreesNow, Zenon
<1>4. Done(p) = job[p].rs
  BY <1>1, <1>2, DoneFacts DEF ResultsKnown
<1>5. n = Len(job[p].rs) /\ n \in Nat /\ Len(txs) \in Nat
  BY <1>1, <1>4, JobFacts
<1>6. /\ Group(p)[1] = txs[n + 1] /\ n + 1 \in 1 .. Len(txs)
  <2>1. \A j \in 1 .. Len(Group(p)) : Group(p)[j] = txs[Len(job[p].rs) + j]
    BY <1>1, <1>2, GroupFacts, Zenon
  <2>2. Len(Group(p)) \in Nat \ {0}
    BY <1>1, <1>2, GroupFacts, Zenon
  <2>3. 1 \in 1 .. Len(Group(p))
    BY <2>2
  <2> HIDE DEF n, txs
  <2>4. n + 1 \in 1 .. Len(txs)
    BY <1>2, <1>5
  <2> QED
    BY <1>5, <2>1, <2>3, <2>4
<1>7. ~Joins(txs, n + 1)
  BY <1>1, <1>2, <1>5 DEF InvRequests
<1>8. c \in Cids(job[p].block)
  <2> HIDE DEF n
  <2> QED
    BY <1>3, <1>6, CidsFacts
<1>9. dstate[c] = "leveldb" => world[<<"tx", c>>] # None
  BY <1>8 DEF Remembers
<1>10. GroupDoor(p) = ModeAt(world, txs, s, n + 1)
  <2> DEFINE tx == Group(p)[1]
  <2>1. GroupDoor(p) = Door(dstate[c], tx, s.view, world)
    BY <1>3 DEF GroupDoor
  <2>2. ModeAt(world, txs, s, n + 1) = Door("none", tx, s.view, world)
    BY <1>6, <1>7 DEF ModeAt
  <2> HIDE DEF s
  <2>3. Door(dstate[c], tx, s.view, world) = Door("none", tx, s.view, world)
    BY <1>9 DEF Door
  <2> QED
    BY <2>1, <2>2, <2>3
<1>11. \A d \in Contract : s.cls[d] # None => class'[d] = s.cls[d]
  <2> HIDE DEF s
  <2> QED
    BY <1>3, StaysKnown
<1>12. s = IsolatedUpTo(world, job[p].block)[Len(Done(p)')]
  BY <1>1
<1>13. Pending(p)'.mode = ModeAt(world, txs, s, Len(Done(p)') + 1)
  BY <1>1, <1>10
<1> HIDE DEF s, n
<1> QED
  BY <1>1, <1>3, <1>11, <1>12, <1>13, AgreesNext, Z3

\* Nothing happens to the execution, and the contracts forget nothing.
LEMMA UntouchedAgrees ==
    ASSUME TypeOK, InvRequests, TypeOK', Next, NEW p \in Preloader, Untouched(p), IsolatedSoFar(p)
    PROVE  IsolatedSoFar(p)'
<1> DEFINE n == Len(Done(p))
           s == IsolatedUpTo(world, job[p].block)[n]
           txs == TxsOf(p)
<1>1. /\ GoesOn(p) /\ job'[p].at = job[p].at /\ job[p].at # "idle"
      /\ Done(p)' = Done(p) /\ View(job[p].tag)' = View(job[p].tag)
      /\ job[p].at = "asked" => Pending(p)'.mode = Pending(p).mode
  BY DEF Untouched, GoesOn
<1>2. /\ n \in Nat /\ Done(p) = s.rs /\ View(job[p].tag) = s.view
      /\ \A d \in Contract : s.cls[d] # None => class[d] = s.cls[d]
      /\ job[p].at = "asked" => Pending(p).mode = ModeAt(world, txs, s, n + 1)
  BY <1>1, AgreesNow, Zenon
<1>3. \A d \in Contract : s.cls[d] # None => class'[d] = s.cls[d]
  <2> HIDE DEF s
  <2> QED
    BY <1>2, StaysKnown
<1>4. s = IsolatedUpTo(world, job[p].block)[Len(Done(p)')]
  BY <1>1
<1>5. job'[p].at = "asked" => Pending(p)'.mode = ModeAt(world, txs, s, Len(Done(p)') + 1)
  BY <1>1, <1>2
<1> HIDE DEF s, n
<1> QED
  BY <1>1, <1>2, <1>3, <1>4, <1>5, AgreesNext

LEMMA BeginsAgrees ==
    ASSUME TypeOK', NEW p \in Preloader, Begins(p), job'[p].block \in Block
    PROVE  IsolatedSoFar(p)'
<1> DEFINE b == job'[p].block
           s == IsolatedUpTo(world', b)[0]
<1>1. job'[p].at = "next" /\ Done(p)' = <<>> /\ View(job[p].tag)' = world' /\ Len(<<>>) = 0
  BY DEF Begins
<1>2. s = Start0(world')
  BY IsolatedDef
<1> HIDE DEF s
<1>3. s.rs = <<>> /\ s.view = world' /\ \A c \in Contract : s.cls[c] = None
  BY <1>2 DEF Start0
<1>4. s = IsolatedUpTo(world', b)[Len(Done(p)')]
  BY <1>1 DEF s
<1>5. job'[p].at # "asked"
  BY <1>1
<1> QED
  BY <1>1, <1>3, <1>4, <1>5 DEF IsolatedSoFar

LEMMA RefusedStep ==
    ASSUME NEW w, NEW txs, NEW s, NEW k, IsReference(s, k - 1), ModeAt(w, txs, s, k) = "refused"
    PROVE  LET t == IsolatedStep(w, txs, s, k) IN
           /\ t.rs = Append(s.rs, Refusal(105)) /\ t.view = s.view /\ t.cls = s.cls /\ t.mode = "refused"
<1> DEFINE r == StepResult(w, txs, s, k)
           t == IsolatedStep(w, txs, s, k)
<1>1. r = Refusal(105)
  BY DEF ModeAt, StepResult
<1>2. /\ t.rs = Append(s.rs, r) /\ t.view = Over(Puts(txs[k], r.ol), s.view) /\ t.mode = "refused"
      /\ t.cls = IF r.code \in {0, 102} /\ txs[k].op # "state" THEN [s.cls EXCEPT ![txs[k].cid] = Loaded(s.cls, txs[k], w)] ELSE s.cls
  BY DEF IsolatedStep, StepResult, ModeAt
<1> HIDE DEF r, t
<1>3. r.code = 105 /\ r.ol = <<>>
  BY <1>1 DEF Refusal
<1>4. IsWorld(s.view)
  BY DEF IsReference
<1>5. t.view = s.view
  BY <1>2, <1>3, <1>4, PutsNothing
<1> QED
  BY <1>1, <1>2, <1>3, <1>5 DEF t

\* A group that is refused is refused by the reference too, all of it.
LEMMA RefusedAgrees ==
    ASSUME TypeOK, InvRequests, TypeOK', Next, NEW p \in Preloader, IsRefused(p), IsolatedSoFar(p), Remembers(job[p].block)
    PROVE  IsolatedSoFar(p)'
<1> DEFINE n == Len(Done(p))
           at == IsolatedUpTo(world, job[p].block)
           s == at[n]
           txs == TxsOf(p)
           c == Group(p)[1].cid
           es == [i \in DOMAIN Group(p) |-> Refusal(105)]
           m == Len(es)
           T == {i \in 0 .. m : /\ at[n + i].rs = Done(p) \o SubSeq(es, 1, i)
                                /\ at[n + i].view = s.view /\ at[n + i].cls = s.cls
                                /\ i # 0 => at[n + i].mode = "refused"}
<1>1. /\ GoesOn(p) /\ Dispatch(p) /\ job'[p].at = "next" /\ job[p].at # "idle" /\ GroupDoor(p) = "refused"
      /\ Done(p) = job[p].rs /\ Done(p)' = Done(p) \o es /\ View(job[p].tag)' = View(job[p].tag)
  BY DEF IsRefused, GoesOn
<1>2. /\ job[p].at = "next" /\ Len(job[p].rs) < Len(txs) /\ c \in Contract
  BY <1>1, DispatchFacts, Zenon
<1>3. /\ n \in Nat /\ Done(p) = s.rs /\ View(job[p].tag) = s.view
      /\ \A d \in Contract : s.cls[d] # None => class[d] = s.cls[d]
      /\ job[p].block \in Block /\ txs = Txs[job[p].block] /\ IsWorld(world)
  BY <1>1, AgreesNow, Zenon
<1>4. es \in Seq(Results) /\ m \in Nat /\ m = Len(Group(p)) /\ \A i \in 1 .. m : es[i] = Refusal(105)
  <2>1. es \in Seq(Results) /\ m = Len(Group(p)) /\ \A i \in 1 .. m : es[i] = Refusal(105)
    BY <1>1, <1>2, RefusalFacts
  <2> HIDE DEF es
  <2> QED
    BY <2>1, LenProperties
<1>5. n = Len(job[p].rs) /\ Len(txs) \in Nat /\ Done(p) \in Seq(Results)
  BY <1>1, JobFacts
<1>6. /\ \A j \in 1 .. m : Group(p)[j] = txs[n + j]
      /\ \A j \in 2 .. m : Joins(txs, n + j)
      /\ n + m <= Len(txs) /\ m \in Nat \ {0}
  <2> HIDE DEF es
  <2>1. /\ \A j \in 1 .. Len(Group(p)) : Group(p)[j] = txs[Len(job[p].rs) + j] /\ Group(p)[j].cid = Group(p)[1].cid
        /\ \A j \in 2 .. Len(Group(p)) : Joins(txs, Len(job[p].rs) + j)
        /\ Len(Group(p)) \in Nat \ {0} /\ Len(job[p].rs) + Len(Group(p)) <= Len(txs)
    BY <1>1, <1>2, GroupFacts, Zenon
  <2> HIDE DEF n, m, txs
  <2> QED
    BY <1>4, <1>5, <2>1
<1>7. ~Joins(txs, n + 1) /\ Group(p)[1] = txs[n + 1] /\ n + 1 \in 1 .. Len(txs)
  <2>1. ~Joins(txs, Len(job[p].rs) + 1)
    BY <1>1, <1>2 DEF InvRequests
  <2> HIDE DEF n, m, txs, es
  <2>2. 1 \in 1 .. m /\ n + 1 \in 1 .. Len(txs)
    BY <1>3, <1>5, <1>6
  <2> QED
    BY <1>5, <1>6, <2>1, <2>2
<1>8. c \in Cids(job[p].block)
  <2> HIDE DEF n
  <2> QED
    BY <1>3, <1>7, CidsFacts
<1>9. dstate[c] = "leveldb" => world[<<"tx", c>>] # None
  BY <1>8 DEF Remembers
<1>10. ModeAt(world, txs, s, n + 1) = "refused"
  <2> DEFINE tx == Group(p)[1]
  <2>1. GroupDoor(p) = Door(dstate[c], tx, s.view, world)
    BY <1>3 DEF GroupDoor
  <2>2. ModeAt(world, txs, s, n + 1) = Door("none", tx, s.view, world)
    BY <1>7 DEF ModeAt
  <2> HIDE DEF s
  <2>3. Door(dstate[c], tx, s.view, world) = Door("none", tx, s.view, world)
    BY <1>9 DEF Door
  <2> QED
    BY <1>1, <2>1, <2>2, <2>3
<1>11. 0 \in T
  <2>1. SubSeq(es, 1, 0) = <<>> /\ Done(p) \o <<>> = Done(p)
    <3> HIDE DEF es, n
    <3> QED
      BY <1>5, SubSeqEmpty, ConcatEmptySeq
  <2> HIDE DEF es, m, at, n
  <2>2. n + 0 = n /\ 0 \in 0 .. m
    BY <1>3, <1>4
  <2>3. Done(p) \o SubSeq(es, 1, 0) = Done(p)
    BY <2>1
  <2>4. at[n + 0] = s
    BY <2>2
  <2> HIDE DEF s
  <2> QED
    BY <1>3, <2>2, <2>3, <2>4
<1>12. \A i \in 0 .. m : i < m /\ i \in T => i + 1 \in T
  <2> SUFFICES ASSUME NEW i \in 0 .. m, i < m, i \in T PROVE i + 1 \in T
    OBVIOUS
  <2> DEFINE k == n + i
             u == at[k]
             w == world
             b == job[p].block
  <2>1. /\ u.rs = Done(p) \o SubSeq(es, 1, i) /\ u.view = s.view /\ u.cls = s.cls /\ (i # 0 => u.mode = "refused")
    OBVIOUS
  <2>2. /\ SubSeq(es, 1, i + 1) = Append(SubSeq(es, 1, i), es[i + 1]) /\ SubSeq(es, 1, i) \in Seq(Results)
    <3> HIDE DEF es, T
    <3> QED
      BY <1>4, SubAppend
  <2> HIDE DEF T, s, u, m, es
  <2>3. k \in 0 .. Len(txs) /\ k < Len(txs) /\ n + (i + 1) = k + 1 /\ i + 1 \in 0 .. m /\ i + 1 \in 1 .. m
    <3> DEFINE l == Len(txs)
    <3>1. n \in Nat /\ m \in Nat /\ l \in Nat /\ n + m <= l
      BY <1>3, <1>4, <1>5, <1>6
    <3> HIDE DEF n, l, txs, at
    <3>2. i \in 0 .. m /\ i < m
      OBVIOUS
    <3>3. n + i \in 0 .. l /\ n + i < l /\ n + (i + 1) = (n + i) + 1 /\ i + 1 \in 0 .. m /\ i + 1 \in 1 .. m
      BY <3>1, <3>2
    <3> QED
      BY <3>3 DEF l
  <2> HIDE DEF k, n
  <2>4. /\ at[k + 1] = IsolatedStep(w, txs, u, k + 1) /\ IsReference(u, k) /\ (k + 1) - 1 = k
    <3>1. b \in Block /\ IsWorld(w) /\ txs = Txs[b] /\ u = IsolatedUpTo(w, b)[k]
      BY <1>3 DEF u
    <3> HIDE DEF u, txs, b, w
    <3>2. k \in 0 .. Len(Txs[b]) /\ k < Len(Txs[b])
      BY <2>3, <3>1
    <3>3. IsolatedUpTo(w, b)[k + 1] = IsolatedStep(w, Txs[b], u, k + 1) /\ IsReference(u, k) /\ (k + 1) - 1 = k
      BY <3>1, <3>2, ReferenceSteps
    <3> QED
      BY <3>1, <3>3 DEF b, w
  <2>5. ModeAt(w, txs, u, k + 1) = "refused"
    <3>1. CASE i = 0
      <4>1. k = n /\ u = s
        BY <1>3, <3>1 DEF k, u, s
      <4> QED
        BY <1>10, <4>1
    <3>2. CASE i # 0
      <4>1. i + 1 \in 2 .. m
        BY <2>3, <3>2
      <4>2. Joins(txs, k + 1)
        BY <1>6, <2>3, <4>1
      <4> QED
        BY <2>1, <3>2, <4>2 DEF ModeAt
    <3> QED
      BY <3>1, <3>2
  <2> DEFINE t == IsolatedStep(w, txs, u, k + 1)
  <2>6. t.rs = Append(u.rs, Refusal(105)) /\ t.view = u.view /\ t.cls = u.cls /\ t.mode = "refused"
    BY <2>4, <2>5, RefusedStep
  <2> HIDE DEF t, at
  <2>7. es[i + 1] = Refusal(105) /\ Refusal(105) \in Results
    <3>1. es[i + 1] = Refusal(105) /\ es[i + 1] \in Results
      BY <1>4, <2>3, ElementOfSeq DEF m
    <3> QED
      BY <3>1
  <2>8. t.rs = Done(p) \o SubSeq(es, 1, i + 1)
    <3>1. Done(p) \o Append(SubSeq(es, 1, i), Refusal(105)) = Append(Done(p) \o SubSeq(es, 1, i), Refusal(105))
      BY <1>5, <2>2, <2>7, ConcatAppend
    <3> QED
      BY <2>1, <2>2, <2>6, <2>7, <3>1
  <2>9. at[n + (i + 1)] = t
    BY <2>3, <2>4 DEF t
  <2> QED
    BY <2>1, <2>3, <2>6, <2>8, <2>9 DEF T
<1>13. \A i \in 0 .. m : i \in T
  <2> HIDE DEF T, m
  <2> QED
    BY <1>4, <1>11, <1>12, UpTo
<1>14. /\ at[n + m].rs = Done(p) \o es /\ at[n + m].view = s.view /\ at[n + m].cls = s.cls
  <2>1. m \in 0 .. m /\ SubSeq(es, 1, m) = es
    <3> HIDE DEF es
    <3> QED
      BY <1>4, SubSeqFull
  <2> HIDE DEF at, m, es, n
  <2> QED
    BY <1>13, <2>1
<1>15. Len(Done(p)') = n + m
  <2> HIDE DEF es, n, m
  <2>1. Len(Done(p) \o es) = Len(Done(p)) + Len(es)
    BY <1>4, <1>5, ConcatProperties
  <2> QED
    BY <1>1, <2>1 DEF n, m
<1> DEFINE t == at[n + m]
<1>16. t = IsolatedUpTo(world, job[p].block)[Len(Done(p)')]
  BY <1>15
<1> HIDE DEF es, m, n, at, t, s
<1>17. \A d \in Contract : t.cls[d] # None => class'[d] = t.cls[d]
  BY <1>3, <1>14, StaysKnown DEF t
<1>18. Done(p)' = t.rs /\ View(job[p].tag)' = t.view
  BY <1>1, <1>3, <1>14 DEF t
<1>19. job'[p].at # "asked"
  BY <1>1
<1> QED
  BY <1>1, <1>16, <1>17, <1>18, <1>19, AgreesNext

\* A transaction that is executed has the reference's result, and its class is the reference's.
LEMMA ExecutesAgrees ==
    ASSUME TypeOK, InvRequests, TypeOK', Next, NEW p \in Preloader, NEW c \in Contract, Executes(p, c),
           IsolatedSoFar(p), Remembers(job[p].block)
    PROVE  IsolatedSoFar(p)'
<1> DEFINE n == Len(Done(p))
           b == job[p].block
           w == world
           s == IsolatedUpTo(w, b)[n]
           t == IsolatedUpTo(w, b)[n + 1]
           txs == TxsOf(p)
           tx == NextTx(c)
           r == NextResult(c)
           mode == First(c).mode
           ref == Loaded(s.cls, tx, w)
<1>1. /\ GoesOn(p) /\ SandboxStep(c) /\ Pending(p) = First(c) /\ job[p].at = "asked" /\ First(c).tag = job[p].tag
      /\ tx = txs[n + 1] /\ n + 1 <= Len(txs) /\ job[p].at # "idle"
      /\ Done(p)' = Append(Done(p), r)
      /\ View(job[p].tag)' = Over(Puts(tx, r.ol), View(job[p].tag))
      /\ job'[p].at = "asked" => Pending(p)'.mode = mode /\ Joins(txs, n + 2)
  BY DEF Executes, GoesOn
<1>2. /\ n \in Nat /\ n \in 0 .. Len(txs) /\ Done(p) = s.rs /\ View(job[p].tag) = s.view
      /\ \A d \in Contract : s.cls[d] # None => class[d] = s.cls[d]
      /\ Pending(p).mode = ModeAt(w, txs, s, n + 1)
      /\ b \in Block /\ IsWorld(w) /\ IsReference(s, n) /\ txs = Txs[b]
  BY <1>1, AgreesNow, Zenon
<1>3. sbq[c] # <<>> /\ class' = IF r.code \in {0, 102} /\ tx.op # "state" THEN [class EXCEPT ![c] = NextCode(c)] ELSE class
  BY <1>1, SandboxFacts
<1>4. mode \in {"snapshot", "leveldb"} /\ tx \in Transactions /\ tx.cid = c /\ r \in Results
  BY <1>3, FirstFacts
<1>5. mode = ModeAt(w, txs, s, n + 1) /\ mode # "refused"
  BY <1>1, <1>2, <1>4
<1>6. Len(txs) \in Nat /\ Len(Done(p)) = n /\ Done(p) \in Seq(Results)
  BY <1>1, <1>2, JobFacts DEF IsReference
<1>7. n < Len(txs) /\ n + 1 \in 1 .. Len(txs) /\ n + 1 \in 0 .. Len(txs) /\ (n + 1) - 1 = n /\ (n + 1) + 1 = n + 2
      /\ n + 1 \in Nat \ {0}
  <2> HIDE DEF n, txs
  <2> QED
    BY <1>1, <1>2, <1>6
<1>8. c \in Cids(b)
  <2> HIDE DEF n, tx
  <2> QED
    BY <1>1, <1>2, <1>4, <1>7, CidsFacts
<1>9. /\ class[c] # None => Isolated(w, b).cls[c] \in {None, class[c]}
      /\ w[<<"state", c>>] # None => w[<<"tx", c>>] # None
  BY <1>8 DEF Remembers
<1>10. class \in [Contract -> Nat \cup {None}]
  BY DEF TypeOK
<1>11. r = Execute(tx, s.view, w, mode, Loaded(class, tx, w))
  BY <1>1, <1>2 DEF NextResult, NextCode
<1>12. t = IsolatedStep(w, txs, s, n + 1) /\ NextCode(c) = Loaded(class, tx, w)
  <2>1. NextCode(c) = Loaded(class, tx, w)
    BY DEF NextCode
  <2> HIDE DEF n
  <2>2. IsolatedUpTo(w, b)[n + 1] = IsolatedStep(w, Txs[b], IsolatedUpTo(w, b)[n], n + 1)
    BY <1>2, <1>7, ReferenceSteps
  <2> QED
    BY <1>2, <2>1, <2>2
<1>13. /\ r = StepResult(w, txs, s, n + 1)
       /\ r.code \in {0, 102} /\ tx.op # "state" /\ ref # None => NextCode(c) = ref
  <2> HIDE DEF n, tx, r, mode, txs, w, b
  <2>1. s.cls[c] # None => class[c] = s.cls[c]
    BY <1>2
  <2>2. mode = IF Joins(txs, n + 1) THEN s.mode ELSE Door("none", txs[n + 1], s.view, w)
    BY <1>5 DEF ModeAt
  <2>3. s = IsolatedUpTo(w, b)[n]
    OBVIOUS
  <2> HIDE DEF s
  <2>4. n \in 0 .. Len(Txs[b]) /\ n < Len(Txs[b]) /\ b \in Block /\ IsWorld(w)
    BY <1>2, <1>7
  <2>5. Txs[b][n + 1].cid = c /\ tx = Txs[b][n + 1]
    BY <1>1, <1>2, <1>4
  <2>6. mode = IF Joins(Txs[b], n + 1) THEN s.mode ELSE Door("none", Txs[b][n + 1], s.view, w)
    BY <1>2, <2>2
  <2>7. LET y == Txs[b][n + 1]
            x == Execute(y, s.view, w, mode, Loaded(class, y, w)) IN
        /\ x = StepResult(w, Txs[b], s, n + 1)
        /\ x.code \in {0, 102} /\ y.op # "state" /\ Loaded(s.cls, y, w) # None => Loaded(class, y, w) = Loaded(s.cls, y, w)
    <3>1. class[c] # None => Isolated(w, b).cls[c] \in {None, class[c]}
      BY <1>9
    <3>2. w[<<"state", c>>] # None => w[<<"tx", c>>] # None
      BY <1>9
    <3>3. mode # "refused" /\ n \in 0 .. Len(Txs[b]) /\ n < Len(Txs[b]) /\ b \in Block /\ IsWorld(w) /\ Txs[b][n + 1].cid = c
      BY <1>5, <2>4, <2>5
    <3> QED
      BY <1>10, <2>1, <2>3, <2>6, <3>1, <3>2, <3>3, ExecuteAgrees
  <2> QED
    BY <1>2, <1>11, <1>12, <2>5, <2>7 DEF ref
<1>14. /\ t.rs = Append(s.rs, r) /\ t.view = Over(Puts(tx, r.ol), s.view) /\ t.mode = mode
       /\ t.cls = IF r.code \in {0, 102} /\ tx.op # "state" THEN [s.cls EXCEPT ![c] = ref] ELSE s.cls
  <2> HIDE DEF n, tx, r, mode, txs, w, b, t, s
  <2>1. /\ t.rs = Append(s.rs, StepResult(w, txs, s, n + 1))
        /\ t.view = Over(Puts(txs[n + 1], StepResult(w, txs, s, n + 1).ol), s.view)
        /\ t.mode = ModeAt(w, txs, s, n + 1)
        /\ t.cls = IF StepResult(w, txs, s, n + 1).code \in {0, 102} /\ txs[n + 1].op # "state"
                   THEN [s.cls EXCEPT ![txs[n + 1].cid] = Loaded(s.cls, txs[n + 1], w)] ELSE s.cls
    BY <1>12 DEF IsolatedStep, StepResult, ModeAt
  <2> QED
    BY <1>1, <1>4, <1>5, <1>13, <2>1 DEF ref
<1>15. \A d \in Contract : t.cls[d] # None => class'[d] = t.cls[d]
  <2> HIDE DEF n, tx, r, mode, txs, w, b, t, ref
  <2>1. s.cls \in [Contract -> Nat \cup {None}]
    BY <1>2 DEF IsReference
  <2> HIDE DEF s
  <2> TAKE d \in Contract
  <2>2. CASE r.code \in {0, 102} /\ tx.op # "state" /\ d = c
    <3>1. t.cls[d] = ref /\ class'[d] = NextCode(c)
      BY <1>3, <1>10, <1>14, <2>1, <2>2
    <3> QED
      BY <1>13, <2>2, <3>1
  <2>3. CASE ~(r.code \in {0, 102} /\ tx.op # "state" /\ d = c)
    <3>1. t.cls[d] = s.cls[d] /\ class'[d] = class[d]
      BY <1>3, <1>10, <1>14, <2>1, <2>3
    <3> QED
      BY <1>2, <3>1
  <2> QED
    BY <2>2, <2>3
<1>16. Len(Done(p)') = n + 1
  <2> HIDE DEF r, tx
  <2> QED
    BY <1>1, <1>4, <1>6, AppendProperties
<1>17. t = IsolatedUpTo(world, job[p].block)[Len(Done(p)')]
  BY <1>16
<1>18. Done(p)' = t.rs /\ View(job[p].tag)' = t.view
  <2> HIDE DEF n, tx, r, t, s
  <2> QED
    BY <1>1, <1>2, <1>14
<1>19. job'[p].at = "asked" => Pending(p)'.mode = ModeAt(world, TxsOf(p), t, Len(Done(p)') + 1)
  <2> HIDE DEF n, tx, r, t, s, mode
  <2>1. job'[p].at = "asked" => Joins(txs, (n + 1) + 1) /\ Pending(p)'.mode = mode
    BY <1>1, <1>7
  <2> QED
    BY <1>14, <1>16, <2>1 DEF ModeAt
<1> HIDE DEF t
<1> QED
  BY <1>1, <1>15, <1>17, <1>18, <1>19, AgreesNext

LEMMA InvIsolatedStep ==
    ASSUME TypeOK, InvRequests, InvAlone, InvFree, InvIsolated, TypeOK', InvRequests', Next
    PROVE  InvIsolated'
<1> SUFFICES ASSUME NEW p \in Preloader, Alone(p)', Remembers(job[p].block)'
             PROVE  IsolatedSoFar(p)'
  BY DEF InvIsolated
<1>1. job'[p].at # "idle" /\ job'[p].alone
  BY DEF Alone
<1>2. Begins(p) \/ Untouched(p) \/ Sends(p) \/ IsRefused(p) \/ \E c \in Contract : Executes(p, c)
  BY <1>1, StepCases
<1>3. ASSUME GoesOn(p) PROVE IsolatedSoFar(p) /\ Remembers(job[p].block)
  <2>1. Alone(p) /\ job[p].at # "idle" /\ UNCHANGED world /\ job'[p].block = job[p].block
    BY <1>3 DEF GoesOn
  <2>2. job[p].block \in Block
    BY <2>1, JobFacts
  <2>3. Remembers(job[p].block)
    BY <2>1, <2>2, RemembersBack
  <2> QED
    BY <2>1, <2>3 DEF InvIsolated
<1>4. CASE Begins(p)
  <2>1. job'[p] \in Jobs
    BY <1>1, IdleFacts DEF TypeOK
  <2>2. job'[p].block \in Block
    BY <2>1 DEF Jobs
  <2> QED
    BY <1>4, <2>2, BeginsAgrees
<1>5. CASE Untouched(p)
  <2>1. GoesOn(p)
    BY <1>5 DEF Untouched
  <2> QED
    BY <1>3, <1>5, <2>1, UntouchedAgrees
<1>6. CASE Sends(p)
  <2>1. GoesOn(p)
    BY <1>6 DEF Sends
  <2> QED
    BY <1>3, <1>6, <2>1, SendsAgrees
<1>7. CASE IsRefused(p)
  <2>1. GoesOn(p)
    BY <1>7 DEF IsRefused
  <2> QED
    BY <1>3, <1>7, <2>1, RefusedAgrees
<1>8. ASSUME NEW c \in Contract, Executes(p, c) PROVE IsolatedSoFar(p)'
  <2>1. GoesOn(p)
    BY <1>8 DEF Executes
  <2> QED
    BY <1>3, <1>8, <2>1, ExecutesAgrees
<1> QED
  BY <1>2, <1>4, <1>5, <1>6, <1>7, <1>8

-----------------------------------------------------------------------------
(* The theorems.                                                            *)

LEMMA InitInvariant == Init => IInv
<1> SUFFICES ASSUME Init PROVE IInv
  OBVIOUS
<1>1. /\ world = World0 /\ chain = <<>> /\ tainted = {}
      /\ overlay = [t \in Tag |-> NoWrites]
      /\ dstate = [c \in Contract |-> "none"] /\ class = [c \in Contract |-> None]
      /\ sbq = [c \in Contract |-> <<>>] /\ job = [p \in Preloader |-> IdleJob]
  BY Zenon DEF Init
<1>2. \A p \in Preloader : job[p].at = "idle" /\ ~Alone(p)
  <2> TAKE p \in Preloader
  <2>1. job[p].at = "idle"
    BY <1>1, IdleFacts
  <2> QED
    BY <2>1 DEF Alone
<1>3. IsWorld(world)
  BY <1>1, PreloadAssumption
<1>4. \A c \in Contract : sbq[c] = <<>> /\ DOMAIN sbq[c] = {}
  BY <1>1
<1>5. \A t \in Tag : overlay[t] = NoWrites /\ DOMAIN overlay[t] = {}
  BY <1>1 DEF NoWrites
<1>6. TypeOK
  <2>1. chain \in Seq([block : Block, ol : Seq(OperLogs), was : {chain[i].was : i \in DOMAIN chain}]) /\ DOMAIN chain = {}
    BY <1>1
  <2>2. dstate \in [Contract -> {"none", "snapshot", "leveldb"}] /\ class \in [Contract -> Nat \cup {None}]
    BY <1>1
  <2>3. sbq \in [Contract -> Seq(Requests)] /\ job \in [Preloader -> Jobs \cup {IdleJob}]
    BY <1>1
  <2>4. DOMAIN overlay = Tag /\ tainted \subseteq Tag
    BY <1>1
  <2> QED
    BY <1>2, <1>3, <1>4, <1>5, <2>1, <2>2, <2>3, <2>4 DEF TypeOK
<1>7. InvRequests
  <2>1. \A p \in Preloader : job[p].at # "asked"
    BY <1>2
  <2> QED
    BY <1>2, <1>4, <2>1 DEF InvRequests
<1>8. InvAlone /\ LogsReplayToView /\ InvIsolated
  BY <1>2 DEF InvAlone, LogsReplayToView, InvIsolated
<1>9. InvFree
  BY <1>5 DEF InvFree
<1>10. InvChain
  BY <1>1 DEF InvChain
<1> QED
  BY <1>6, <1>7, <1>8, <1>9, <1>10 DEF IInv

LEMMA NextInvariant == IInv /\ [Next]_vars => IInv'
<1> SUFFICES ASSUME IInv, [Next]_vars PROVE IInv'
  OBVIOUS
<1>1. TypeOK /\ InvRequests /\ InvAlone /\ InvFree /\ InvChain /\ LogsReplayToView /\ InvIsolated
  BY DEF IInv
<1>2. CASE Next
  <2>1. TypeOK'
    BY <1>1, <1>2, TypeStep
  <2>2. InvRequests'
    BY <1>1, <1>2, RequestsStep
  <2>3. InvAlone' /\ InvFree' /\ InvChain'
    BY <1>1, <1>2, AloneStep, FreeStep, InvChainStep
  <2>4. LogsReplayToView' /\ InvIsolated'
    BY <1>1, <1>2, <2>1, <2>2, ReplayStep, InvIsolatedStep
  <2> QED
    BY <2>1, <2>2, <2>3, <2>4 DEF IInv
<1>3. CASE UNCHANGED vars
  <2>1. /\ TypeOK' <=> TypeOK
        /\ InvRequests' <=> InvRequests
    BY <1>3 DEF vars, TypeOK, InvRequests, TxsOf, Group
  <2>2. \A p \in Preloader : (Alone(p)' <=> Alone(p)) /\ Done(p)' = Done(p) /\ View(job[p].tag)' = View(job[p].tag)
                             /\ TxsOf(p)' = TxsOf(p) /\ Pending(p)' = Pending(p)
                             /\ (Remembers(job[p].block)' <=> Remembers(job[p].block))
    BY <1>3 DEF vars, Alone, Done, View, TxsOf, Pending, Group, Remembers
  <2>3. InvAlone' /\ InvFree' /\ InvChain'
    BY <1>1, <1>3 DEF vars, InvAlone, InvFree, InvChain, Alone, Busy
  <2>4. LogsReplayToView'
    BY <1>1, <1>3, <2>2 DEF vars, LogsReplayToView, Replays
  <2>5. \A p \in Preloader : IsolatedSoFar(p)' <=> IsolatedSoFar(p)
    BY <1>3, <2>2 DEF vars, IsolatedSoFar
  <2>6. InvIsolated'
    BY <1>1, <1>3, <2>2, <2>5 DEF vars, InvIsolated
  <2> QED
    BY <1>1, <2>1, <2>3, <2>4, <2>6 DEF IInv
<1> QED
  BY <1>2, <1>3

\* The invariant: requests and jobs belong together, who is alone has the overlay to itself, the chain's logs
\* are those of isolated executions, and executions that are alone keep up with the reference.
THEOREM InvariantHolds == Spec => []IInv
  BY InitInvariant, NextInvariant, PTL DEF Spec

\* The world and every overlay hold values of their keys, requests and results are what they should be
\* (ImpDataPreload, SandboxDispatcher, PreloaderForTransaction).
THEOREM TypeCorrect == Spec => []TypeOK
<1>1. IInv => TypeOK
  BY DEF IInv
<1> QED
  BY <1>1, InvariantHolds, PTL

\* LevelDB with the logs of an execution's results shows what its contracts see, at every moment of it
\* (SandboxScala.doTransaction, WriteOperLogToDBWithRestoreBlock).
THEOREM LogsReplay_ToView == Spec => []LogsReplayToView
<1>1. IInv => LogsReplayToView
  BY DEF IInv
<1> QED
  BY <1>1, InvariantHolds, PTL

\* Executions of one node leave no trace in each other's results (PreloaderForTransaction,
\* SandboxDispatcher, ImpDataPreloadMgr).
THEOREM Results_AreIsolated == Spec => []ResultsAreIsolated
<1>1. IInv => ResultsAreIsolated
  <2> SUFFICES ASSUME IInv, NEW p \in Preloader, Alone(p), Remembers(job[p].block)
               PROVE  Done(p) = SubSeq(Isolated(world, job[p].block).rs, 1, Len(Done(p)))
    BY DEF ResultsAreIsolated
  <2> DEFINE n == Len(Done(p))
             b == job[p].block
  <2>1. TypeOK /\ InvRequests /\ IsolatedSoFar(p) /\ job[p].at # "idle"
    BY DEF IInv, InvIsolated, Alone
  <2>2. /\ n \in 0 .. Len(TxsOf(p)) /\ Done(p) = IsolatedUpTo(world, b)[n].rs
        /\ b \in Block /\ IsWorld(world) /\ TxsOf(p) = Txs[b]
    BY <2>1, AgreesNow, Zenon
  <2> HIDE DEF n, b
  <2>3. IsolatedUpTo(world, b)[n].rs = SubSeq(Isolated(world, b).rs, 1, n)
    BY <2>2, ReferencePrefix
  <2> QED
    BY <2>2, <2>3 DEF n, b
<1> QED
  BY <1>1, InvariantHolds, PTL

\* A rollback brings back the world before the block (Rollback4Storager.rollbackWorldState).
THEOREM Rollback_Restores == Spec => RollbackRestores
<1>1. IInv /\ [Next]_vars =>
         [Rollback /\ MadeWorld(Last(chain)) /\ ~Irrevocable(Last(chain)) => world' = Last(chain).was]_vars
  <2> SUFFICES ASSUME IInv, Rollback, MadeWorld(Last(chain)), ~Irrevocable(Last(chain))
               PROVE  world' = Last(chain).was
    BY Zenon
  <2> QED
    BY RestoresStep DEF IInv
<1> QED
  BY <1>1, InvariantHolds, PTL DEF Spec, RollbackRestores
=============================================================================
