-------------------------- MODULE BlockStore_proofs --------------------------
(***************************************************************************)
(* The storage of a node for every set of blocks, transactions and keys and *)
(* every size of files and caches, as long as saving and rolling back do    *)
(* not overlap and a rollback is followed by a reset of pe: the indexes     *)
(* describe one chain, the cache agrees with them, and what is below the    *)
(* last block can be read, wherever the process stops; chain and world      *)
(* state are those of ChainLog.                                             *)
(***************************************************************************)
EXTENDS BlockStore, TLAPS, FiniteSetTheorems, SequenceTheorems, WellFoundedInduction

\* The storager and the synchroniser take turns, and pe is read anew when blocks
\* were rolled back.
Apart == ~Overlap /\ FollowUp \subseteq {"reset"}

-----------------------------------------------------------------------------
(* The inductive invariant.                                                  *)

OneUpdate(u) == [open |-> TRUE, updates |-> <<u>>]

\* One of the two works at a time; the transaction holds what it has put.
InvTurn ==
    /\ saver.at = "idle" \/ roller.at = "idle"
    /\ saver.at # "idle" \/ roller.at # "idle" => status = "up"
    /\ saver.at # "idle" => saver.block \in Block
    /\ saver.at \in {"put", "written"} => saver.place \in Place
    /\ roller.at # "idle" => roller.follow = "reset" /\ 0 < roller.to
    /\ roller.at \notin {"idle", "next"} =>
         /\ roller.block \in Block /\ roller.entry \in Entry
         /\ roller.to < roller.loop /\ roller.loop \in Heights
    /\ batch = CASE saver.at = "begun" \/ roller.at = "begun" -> OpenBatch
                 [] saver.at \in {"put", "written"} -> OneUpdate(Save(saver))
                 [] roller.at \in {"put", "cut"} -> OneUpdate(Undo(roller))
                 [] OTHER -> NoBatch

\* The blocks of the database are a chain, one block for a height.
InvChain ==
    /\ \A b \in Stored : Height[b] <= db.height /\ db.hash[Height[b]] = b
    /\ \A h \in Heights :
         /\ h <= db.height => db.hash[h] \in Stored /\ Height[db.hash[h]] = h
         /\ h > db.height => db.hash[h] = NoHash
    /\ \A b \in Stored : Parent[b] # NoHash => Parent[b] \in Stored
    /\ Cardinality(Stored) = db.height

\* Higher blocks are in later files, and a file knows its first block.
InvFiles ==
    /\ \A b \in Stored : /\ db.index[b].no <= db.maxFile
                         /\ db.first[db.index[b].no] <= Height[b]
    /\ \A b, d \in Stored : Height[b] <= Height[d] => db.index[b].no <= db.index[d].no
    /\ \A f \in Files : db.first[f] > 0 => /\ db.first[f] <= db.height
                                           /\ db.index[db.hash[db.first[f]]].no = f

\* Indexed are the transactions of the chain.
InvTx ==
    /\ \A t \in Tx : db.tx[t] # NoHash => db.tx[t] \in Stored /\ t \in Txs[db.tx[t]]
    /\ \A b \in Stored : \A t \in Txs[b] : db.tx[t] = b
    /\ db.txs = Cardinality({t \in Tx : db.tx[t] # NoHash})

\* What the cache has for a height of the chain is what the database has.
InvCache ==
    /\ \A h \in Heights : cache[h] # NoEntry /\ h <= db.height =>
         cache[h] = [block |-> db.hash[h], place |-> db.index[db.hash[h]]]
    /\ saver.at \in {"put", "written"} =>
         cache[Height[saver.block]] = [block |-> saver.block, place |-> saver.place]

\* The bytes of a block are at a place.
Intact(b, p) ==
    /\ p.pos + Size[b] <= Len(file[p.no])
    /\ \A i \in 1 .. Size[b] : file[p.no][p.pos + i] = <<b, i>>

\* The bytes of a block are at its place unless a rollback of it stopped; the
\* blocks above are behind them.
InvBytes ==
    /\ \A b \in Stored : \/ Height[b] \in cut
                         \/ roller.at = "cut" /\ b = roller.block
                         \/ Intact(b, db.index[b])
    /\ \A b, d \in Stored :
         Height[b] < Height[d] /\ db.index[b].no = db.index[d].no /\ Height[b] \notin cut
         => db.index[b].pos + Size[b] <= db.index[d].pos

\* pe shows the last block, but for the blocks a rollback has undone so far.
InvStatus ==
    /\ status = "up" /\ roller.at = "idle" => pe = LastHash(db)
    /\ roller.at # "idle" => pe \in Block /\ roller.loop = db.height

\* A save starts from the last block and what the database has for it.
InvSaver ==
    saver.at # "idle" =>
        /\ saver.block \notin Stored /\ Parent[saver.block] = LastHash(db)
        /\ Height[saver.block] = db.height + 1
        /\ saver.height = db.height /\ saver.no = db.maxFile
        /\ saver.txs = db.txs + Cardinality(Txs[saver.block])
        /\ saver.at \in {"put", "written"} => saver.place.no \in {saver.no, saver.no + 1}
        /\ saver.at = "put" => saver.place.pos = Len(file[saver.place.no])
        /\ saver.at = "written" => Intact(saver.block, saver.place)
        /\ saver.at = "written" => \A b \in Stored :
             db.index[b].no = saver.place.no /\ Height[b] \notin cut =>
               db.index[b].pos + Size[b] <= saver.place.pos

\* A rollback undoes the last block, which it could read.
InvRoller ==
    roller.at \notin {"idle", "next"} =>
        /\ roller.block = db.hash[roller.loop] /\ roller.txs = db.txs
        /\ roller.entry = [block |-> roller.block, place |-> db.index[roller.block]]
        /\ roller.at # "cut" => Intact(roller.block, roller.entry.place)

InvStore == /\ InvChain /\ InvFiles /\ InvTx /\ InvCache /\ InvBytes /\ InvStatus
            /\ InvSaver /\ InvRoller

IInv == TypeOK /\ InvTurn /\ (halfway \/ InvStore)

-----------------------------------------------------------------------------
(* Cells, bytes and places.                                                  *)

LEMMA SizeType ==
    ASSUME NEW b \in Block
    PROVE  /\ Size[b] \in Nat /\ 0 < Size[b] /\ Height[b] \in Heights /\ Height[b] \in Nat
           /\ Bytes(b) \in Seq(Cell) /\ Len(Bytes(b)) = Size[b]
           /\ \A i \in 1 .. Size[b] : Bytes(b)[i] = <<b, i>>
<1>1. Size[b] \in Nat /\ 0 < Size[b] /\ Height[b] \in Heights
  BY StoreAssumption
<1>2. Height[b] \in Nat
  BY <1>1, StoreAssumption DEF Heights
<1>3. \A i \in 1 .. Size[b] : <<b, i>> \in Cell
  BY DEF Cell
<1>4. Bytes(b) \in Seq(Cell) /\ Len(Bytes(b)) = Size[b]
  BY <1>1, <1>3 DEF Bytes
<1> QED
  BY <1>1, <1>2, <1>4 DEF Bytes

\* What readBlock compares is what lies at the place.
LEMMA IntactRead ==
    ASSUME TypeOK, NEW b \in Block, NEW p \in Place
    PROVE  Intact(b, p) <=> /\ Len(file[p.no]) >= p.pos + Size[b]
                            /\ SubSeq(file[p.no], p.pos + 1, p.pos + Size[b]) = Bytes(b)
<1>1. /\ p.no \in Files /\ p.pos \in Nat /\ file[p.no] \in Seq(Cell)
      /\ Size[b] \in Nat /\ 0 < Size[b] /\ Len(Bytes(b)) = Size[b]
      /\ \A i \in 1 .. Size[b] : Bytes(b)[i] = <<b, i>>
  BY SizeType DEF TypeOK, Place
<1> DEFINE s == file[p.no]
           x == SubSeq(s, p.pos + 1, p.pos + Size[b])
<1> HIDE DEF s
<1>2. ASSUME p.pos + Size[b] <= Len(s), s \in Seq(Cell)
      PROVE  /\ x \in Seq(Cell) /\ Len(x) = Size[b]
             /\ \A i \in 1 .. Size[b] : x[i] = s[p.pos + i]
  <2> DEFINE m == p.pos + 1
             n == p.pos + Size[b]
  <2>1. m \in Int /\ n \in Int /\ m <= n /\ n - m + 1 = Size[b]
    BY <1>1
  <2>2. \A i \in m .. n : s[i] \in Cell
    <3>1. Len(s) \in Nat /\ \A i \in 1 .. Len(s) : s[i] \in Cell
      BY <1>2, ElementOfSeq, LenProperties
    <3>2. \A i \in m .. n : i \in 1 .. Len(s)
      BY <1>1, <1>2, <3>1
    <3> QED
      BY <3>1, <3>2
  <2> HIDE DEF m, n
  <2>3. /\ x \in Seq(Cell) /\ Len(x) = Size[b]
        /\ \A i \in 1 .. Size[b] : x[i] = s[m + i - 1]
    BY <2>1, <2>2, SubSeqProperties DEF m, n
  <2>4. \A i \in 1 .. Size[b] : m + i - 1 = p.pos + i
    BY <1>1 DEF m
  <2> QED
    BY <2>3, <2>4
<1> HIDE DEF x
<1>3. ASSUME p.pos + Size[b] <= Len(s), s \in Seq(Cell)
      PROVE  x = Bytes(b) <=> \A i \in 1 .. Size[b] : s[p.pos + i] = <<b, i>>
  <2>1. x = Bytes(b) => \A i \in 1 .. Size[b] : s[p.pos + i] = <<b, i>>
    BY <1>1, <1>2, <1>3
  <2>2. ASSUME \A i \in 1 .. Size[b] : s[p.pos + i] = <<b, i>> PROVE x = Bytes(b)
    <3>1. Bytes(b) \in Seq(Cell) /\ x \in Seq(Cell) /\ Len(x) = Len(Bytes(b))
      BY <1>1, <1>2, <1>3, SizeType
    <3>2. \A i \in 1 .. Len(x) : x[i] = Bytes(b)[i]
      BY <1>1, <1>2, <1>3, <2>2
    <3> QED
      BY <3>1, <3>2, SeqEqual
  <2> QED
    BY <2>1, <2>2
<1> QED
  BY <1>1, <1>3 DEF Intact, s, x

\* A file that is written somewhere, and one that is written at its end.
LEMMA WriteType ==
    ASSUME NEW f \in Seq(Cell), NEW pos \in Nat, NEW c \in Seq(Cell)
    PROVE  WriteAt(f, pos, c) \in Seq(Cell)
<1> DEFINE n == IF pos + Len(c) > Len(f) THEN pos + Len(c) ELSE Len(f)
           e(i) == IF i > pos /\ i <= pos + Len(c) THEN c[i - pos]
                   ELSE IF i <= Len(f) THEN f[i] ELSE <<NoHash, 0>>
<1>1. n \in Nat /\ Len(c) \in Nat /\ Len(f) \in Nat
  OBVIOUS
<1>2. ASSUME NEW i \in 1 .. n PROVE e(i) \in Cell
  <2>1. CASE i > pos /\ i <= pos + Len(c)
    <3>1. i - pos \in 1 .. Len(c)
      BY <1>1, <2>1
    <3> QED
      BY <2>1, <3>1
  <2>2. CASE ~(i > pos /\ i <= pos + Len(c)) /\ i <= Len(f)
    BY <1>1, <2>2
  <2>3. CASE ~(i > pos /\ i <= pos + Len(c)) /\ ~(i <= Len(f))
    BY <2>3 DEF Cell
  <2> QED
    BY <2>1, <2>2, <2>3
<1>3. WriteAt(f, pos, c) = [i \in 1 .. n |-> e(i)]
  BY DEF WriteAt
<1> HIDE DEF n, e
<1> QED
  BY <1>1, <1>2, <1>3

LEMMA WriteAtEnd ==
    ASSUME NEW f \in Seq(Cell), NEW c \in Seq(Cell)
    PROVE  /\ WriteAt(f, Len(f), c) \in Seq(Cell)
           /\ Len(WriteAt(f, Len(f), c)) = Len(f) + Len(c)
           /\ \A i \in 1 .. Len(f) : WriteAt(f, Len(f), c)[i] = f[i]
           /\ \A i \in 1 .. Len(c) : WriteAt(f, Len(f), c)[Len(f) + i] = c[i]
<1>1. Len(c) \in Nat /\ Len(f) \in Nat
  OBVIOUS
<1>2. WriteAt(f, Len(f), c) = [i \in 1 .. (Len(f) + Len(c)) |->
                                 IF i > Len(f) THEN c[i - Len(f)] ELSE f[i]]
  BY <1>1 DEF WriteAt
<1>3. Len(WriteAt(f, Len(f), c)) = Len(f) + Len(c)
  BY <1>1, <1>2
<1>4. WriteAt(f, Len(f), c) \in Seq(Cell)
  BY <1>1, WriteType
<1>5. \A i \in 1 .. Len(f) : WriteAt(f, Len(f), c)[i] = f[i]
  BY <1>1, <1>2
<1>6. \A i \in 1 .. Len(c) : WriteAt(f, Len(f), c)[Len(f) + i] = c[i]
  BY <1>1, <1>2
<1> QED
  BY <1>3, <1>4, <1>5, <1>6

-----------------------------------------------------------------------------
(* The updates.                                                              *)

\* A set of positions in a sequence has a last one.
LEMMA LastPosition ==
    ASSUME NEW n \in Nat, NEW S \in SUBSET (1 .. n), S # {}
    PROVE  \E m \in S : \A x \in S : x <= m
<1> DEFINE R == {ss \in Nat \X Nat : ss[1] < ss[2]}
           D == {n - x : x \in S}
<1>1. IsWellFoundedOn(R, Nat)
  <2>1. OpToRel(<, Nat) = R
    BY Zenon DEF OpToRel
  <2> QED
    BY <2>1, NatLessThanWellFounded
<1>2. D \subseteq Nat /\ D # {}
  <2>1. \A x \in S : x \in Nat /\ x <= n
    OBVIOUS
  <2>2. \A x \in S : n - x \in Nat
    BY <2>1
  <2> QED
    BY <2>2
<1>3. \A x, y \in Nat : <<y, x>> \in R <=> y < x
  OBVIOUS
<1> HIDE DEF R
<1>4. PICK d \in D : \A y \in D : ~(<<y, d>> \in R)
  BY <1>1, <1>2, WFMin
<1>5. PICK m \in S : d = n - m
  OBVIOUS
<1>6. ASSUME NEW x \in S PROVE x <= m
  <2>1. n - x \in D /\ n - x \in Nat /\ d \in Nat /\ x \in Nat /\ m \in Nat
    BY <1>2, <1>5
  <2>2. ~(n - x < d)
    BY <1>3, <1>4, <2>1
  <2> QED
    BY <1>5, <2>1, <2>2
<1> QED
  BY <1>6

LEMMA LastWriteType ==
    ASSUME NEW b \in Block, NEW x \in Key, WritesOf(b, x) # {}
    PROVE  LastWrite(b, x).old \in Value /\ LastWrite(b, x).new \in Value
<1>1. Logs[b] \in Seq(LogEntry) /\ Len(Logs[b]) \in Nat
  BY StoreAssumption
<1>2. WritesOf(b, x) \in SUBSET (1 .. Len(Logs[b]))
  BY <1>1 DEF WritesOf
<1>3. \E m \in WritesOf(b, x) : \A y \in WritesOf(b, x) : y <= m
  BY <1>1, <1>2, LastPosition
<1>4. (CHOOSE i \in WritesOf(b, x) : \A y \in WritesOf(b, x) : y <= i) \in WritesOf(b, x)
  BY <1>3
<1>5. LastWrite(b, x) \in LogEntry
  BY <1>1, <1>2, <1>4 DEF LastWrite
<1> QED
  BY <1>5 DEF LogEntry

\* What an update of a save does to each part of the database.
LEMMA SavedParts ==
    ASSUME NEW d \in DBType, NEW s \in SaverType, s.block \in Block, s.place \in Place
    PROVE  LET b == s.block
               opens == s.place.no # s.no \/ (Height[b] = 1 /\ s.no = 0)
               e == Apply(d, Save(s))
           IN /\ e \in DBType
              /\ e.height = Height[b] /\ e.txs = s.txs
              /\ e.maxFile = IF opens THEN s.place.no ELSE d.maxFile
              /\ e.first = [d.first EXCEPT ![s.place.no] = IF opens THEN Height[b] ELSE @]
              /\ e.hash = [d.hash EXCEPT ![Height[b]] = b]
              /\ e.index = [d.index EXCEPT ![b] = s.place]
              /\ e.tx = [t \in Tx |-> IF t \in Txs[b] THEN b ELSE d.tx[t]]
<1> DEFINE b == s.block
           opens == s.place.no # s.no \/ (Height[b] = 1 /\ s.no = 0)
           u == Save(s)
           e == Apply(d, u)
           w == [x \in Key |-> IF WritesOf(b, x) = {} THEN d.world[x] ELSE LastWrite(b, x).new]
           f == [height |-> Height[b],
                 maxFile |-> IF opens THEN s.place.no ELSE d.maxFile,
                 txs |-> s.txs,
                 first |-> [d.first EXCEPT ![s.place.no] = IF opens THEN Height[b] ELSE @],
                 hash |-> [d.hash EXCEPT ![Height[b]] = b],
                 index |-> [d.index EXCEPT ![b] = s.place],
                 tx |-> [t \in Tx |-> IF t \in Txs[b] THEN b ELSE d.tx[t]],
                 world |-> w]
<1>1. /\ u.kind = "save" /\ u.block = b /\ u.place = s.place /\ u.txs = s.txs /\ u.opens = opens
  BY DEF Save
<1>2. e = f
  BY <1>1 DEF Apply, Saved, DBType
<1>3. /\ Height[b] \in Heights /\ Height[b] \in 0 .. MaxHeight /\ s.place.no \in Files
      /\ s.txs \in Int
  BY StoreAssumption DEF Heights, SaverType, Place
<1>4. w \in [Key -> Value]
  BY LastWriteType DEF DBType
<1> HIDE DEF w
<1>5. f \in DBType
  BY <1>3, <1>4 DEF DBType
<1> QED
  BY <1>2, <1>5

LEMMA TxsType ==
    ASSUME NEW b \in Block
    PROVE  IsFiniteSet(Txs[b]) /\ Cardinality(Txs[b]) \in Nat /\ Txs[b] \subseteq Tx
<1>1. Txs[b] \subseteq Tx /\ IsFiniteSet(Tx)
  BY StoreAssumption
<1>2. IsFiniteSet(Txs[b])
  BY <1>1, FS_Subset
<1> QED
  BY <1>1, <1>2, FS_CardinalityType

\* What an update of a rollback does to each part of the database.
LEMMA UndoneParts ==
    ASSUME db \in DBType, NEW r \in RollerType, r.block \in Block, r.entry \in Entry
    PROVE  LET b == r.block
               no == r.entry.place.no
               opened == db.first[no] = Height[r.entry.block]
               e == Apply(db, Undo(r))
           IN /\ e \in DBType
              /\ e.height = Height[b] - 1
              /\ e.txs = r.txs - Cardinality(Txs[r.entry.block])
              /\ e.maxFile = IF ~opened THEN db.maxFile ELSE IF no = 0 THEN 0 ELSE no - 1
              /\ e.first = [db.first EXCEPT ![no] = IF opened THEN 0 ELSE @]
              /\ e.hash = [db.hash EXCEPT ![Height[b]] = NoHash]
              /\ e.index = [db.index EXCEPT ![b] = NoPlace]
              /\ e.tx = [t \in Tx |-> IF t \in Txs[r.entry.block] THEN NoHash ELSE db.tx[t]]
<1> DEFINE b == r.block
           no == r.entry.place.no
           opened == db.first[no] = Height[r.entry.block]
           u == Undo(r)
           e == Apply(db, u)
           w == [x \in Key |-> IF WritesOf(b, x) = {} THEN db.world[x] ELSE LastWrite(b, x).old]
           f == [height |-> Height[b] - 1,
                 maxFile |-> IF ~opened THEN db.maxFile ELSE IF no = 0 THEN 0 ELSE no - 1,
                 txs |-> r.txs - Cardinality(Txs[r.entry.block]),
                 first |-> [db.first EXCEPT ![no] = IF opened THEN 0 ELSE @],
                 hash |-> [db.hash EXCEPT ![Height[b]] = NoHash],
                 index |-> [db.index EXCEPT ![b] = NoPlace],
                 tx |-> [t \in Tx |-> IF t \in Txs[r.entry.block] THEN NoHash ELSE db.tx[t]],
                 world |-> w]
<1>1. /\ u.kind = "undo" /\ u.block = b /\ u.entry = r.entry /\ u.opened = opened
      /\ u.txs = r.txs - Cardinality(Txs[r.entry.block])
  BY DEF Undo
<1>2. e = f
  BY <1>1, ZenonT(40) DEF Apply, Undone, DBType
<1>3. r.entry.block \in Block /\ r.entry.place.no \in Files /\ r.txs \in Int
  BY DEF RollerType, Entry, Place
<1>4. Height[b] \in Heights /\ Height[b] - 1 \in 0 .. MaxHeight
  BY StoreAssumption DEF Heights
<1>5. r.txs - Cardinality(Txs[r.entry.block]) \in Int
  BY <1>3, TxsType
<1>6. w \in [Key -> Value]
  BY LastWriteType DEF DBType
<1>7. (IF ~opened THEN db.maxFile ELSE IF no = 0 THEN 0 ELSE no - 1) \in Files
  <2>1. no \in 0 .. MaxFile /\ MaxFile \in Nat /\ db.maxFile \in 0 .. MaxFile
    BY <1>3, StoreAssumption DEF DBType, Files
  <2>2. (IF no = 0 THEN 0 ELSE no - 1) \in 0 .. MaxFile
    BY <2>1
  <2> QED
    BY <2>1, <2>2 DEF Files
<1>8. 0 \in 0 .. MaxHeight
  BY StoreAssumption
<1> HIDE DEF w
<1>9. f \in DBType
  BY <1>3, <1>4, <1>5, <1>6, <1>7, <1>8 DEF DBType
<1> QED
  BY <1>2, <1>9

LEMMA WrittenOne ==
    ASSUME NEW d, NEW u
    PROVE  Written(d, OneUpdate(u).updates) = Apply(d, u) /\ OneUpdate(u).open
           /\ Len(OneUpdate(u).updates) = 1
<1>1. OneUpdate(u).updates = <<u>> /\ OneUpdate(u).open
  BY DEF OneUpdate
<1>2. Len(<<u>>) = 1 /\ <<u>>[1] = u /\ <<u>> # <<>>
  OBVIOUS
<1> HIDE DEF OneUpdate
<1> QED
  BY <1>1, <1>2 DEF Written

LEMMA BatchType ==
    /\ OpenBatch.open /\ ~NoBatch.open /\ OpenBatch.open \in BOOLEAN /\ NoBatch.open \in BOOLEAN
    /\ OpenBatch.updates = <<>> /\ NoBatch.updates = <<>>
    /\ Len(OpenBatch.updates) <= 2 /\ Len(NoBatch.updates) <= 2
    /\ \A u : /\ OneUpdate(u).open \in BOOLEAN /\ Len(OneUpdate(u).updates) <= 2
              /\ [open |-> TRUE, updates |-> Append(OpenBatch.updates, u)] = OneUpdate(u)
<1>1. Len(<<>>) <= 2
  OBVIOUS
<1>2. /\ OpenBatch.open /\ ~NoBatch.open /\ OpenBatch.open \in BOOLEAN
      /\ NoBatch.open \in BOOLEAN /\ OpenBatch.updates = <<>> /\ NoBatch.updates = <<>>
  BY DEF OpenBatch, NoBatch
<1>3. ASSUME NEW u
      PROVE  OneUpdate(u).open \in BOOLEAN /\ Len(OneUpdate(u).updates) <= 2
  BY DEF OneUpdate
<1>4. ASSUME NEW u
      PROVE  [open |-> TRUE, updates |-> Append(OpenBatch.updates, u)] = OneUpdate(u)
  <2>1. Append(OpenBatch.updates, u) = <<u>>
    BY <1>2
  <2> QED
    BY <2>1, Zenon DEF OneUpdate
<1> QED
  BY <1>1, <1>2, <1>3, <1>4, Zenon

LEMMA IdleType ==
    /\ IdleSaver \in SaverType /\ IdleSaver.at = "idle"
    /\ IdleRoller \in RollerType /\ IdleRoller.at = "idle"
<1>1. 0 \in 0 .. MaxHeight /\ 0 \in Files /\ 0 \in Int
  BY StoreAssumption DEF Files
<1> QED
  BY <1>1 DEF IdleSaver, IdleRoller, SaverType, RollerType

\* What is looked up by height.
LEMMA IndexType ==
    ASSUME TypeOK, NEW h
    PROVE  /\ IndexAt(h).block \in Block \cup {NoHash}
           /\ IndexAt(h).place \in {NoPlace} \cup Place
<1>1. CASE h \notin Heights
  BY <1>1 DEF IndexAt, NoEntry
<1>2. CASE h \in Heights /\ cache[h] # NoEntry
  BY <1>2 DEF IndexAt, TypeOK, Entry
<1>3. CASE h \in Heights /\ cache[h] = NoEntry
  BY <1>3 DEF IndexAt, TypeOK, DBType, NoEntry
<1> QED
  BY <1>1, <1>2, <1>3

LEMMA ReadableEntry ==
    ASSUME TypeOK, NEW h \in Heights, Returns(h), ReadableAt(h)
    PROVE  IndexAt(h) \in Entry /\ db.hash[h] \in Block
<1>1. db.hash[h] \in Block
  BY DEF ReadableAt, TypeOK, DBType
<1>2. CASE cache[h] # NoEntry
  BY <1>1, <1>2 DEF IndexAt, TypeOK
<1>3. CASE cache[h] = NoEntry
  <2>1. db.hash[h] \notin known
    BY <1>3 DEF Returns
  <2>2. db.index[db.hash[h]] # NoPlace
    BY <2>1 DEF ReadableAt, Readable, IndexOf
  <2>3. IndexAt(h) = [block |-> db.hash[h], place |-> db.index[db.hash[h]]]
    BY <1>3, <1>1, StoreAssumption DEF IndexAt
  <2>4. db.index[db.hash[h]] \in Place
    BY <2>2, <1>1 DEF TypeOK, DBType
  <2> QED
    BY <1>1, <2>3, <2>4 DEF Entry
<1> QED
  BY <1>1, <1>2, <1>3
-----------------------------------------------------------------------------
(* Types and turns.                                                          *)

LEMMA SaveBeginType ==
    ASSUME TypeOK, InvTurn, Apart, NEW b \in Block, SaveBegin(b)
    PROVE  TypeOK' /\ InvTurn'
<1> DEFINE s == [IdleSaver EXCEPT !.at = "begun", !.block = b, !.height = db.height,
                                  !.no = db.maxFile, !.txs = db.txs + Cardinality(Txs[b])]
<1>1. s \in SaverType /\ s.at = "begun" /\ s.block = b
  <2>1. db.txs + Cardinality(Txs[b]) \in Int
    BY TxsType DEF TypeOK, DBType
  <2> QED
    BY <2>1, IdleType DEF TypeOK, DBType, SaverType, IdleSaver
<1> HIDE DEF s
<1>2. /\ saver' = s /\ batch' = OpenBatch /\ status = "up" /\ roller.at = "idle"
      /\ UNCHANGED <<db, cache, known, file, pe, roller, status, cut, halfway, rollbacks, faults>>
  BY DEF SaveBegin, Apart, s
<1>3. TypeOK'
  BY <1>1, <1>2, BatchType DEF TypeOK
<1>4. InvTurn'
  BY <1>1, <1>2 DEF InvTurn
<1> QED
  BY <1>3, <1>4

LEMMA SavePutType ==
    ASSUME TypeOK, InvTurn, Apart, SavePut
    PROVE  /\ TypeOK' /\ InvTurn' /\ db' = db /\ saver.block \in Block
           /\ saver'.block = saver.block /\ saver'.at = "put" /\ saver'.height = saver.height
           /\ saver'.no = saver.no /\ saver'.txs = saver.txs
           /\ saver'.place = [no |-> NewFileNo(saver.no, saver.block),
                              pos |-> Len(file[NewFileNo(saver.no, saver.block)])]
           /\ saver'.place \in Place /\ roller.at = "idle"
<1> DEFINE b == saver.block
           no == NewFileNo(saver.no, b)
           p == [no |-> no, pos |-> Len(file[no])]
           s == [saver EXCEPT !.at = "put", !.place = p]
<1>1. saver.at = "begun" /\ b \in Block /\ roller.at = "idle" /\ no \in Files
  BY DEF SavePut, InvTurn
<1>2. p \in Place
  BY <1>1 DEF TypeOK, Place
<1>3. /\ s \in SaverType /\ s.at = "put" /\ s.block = b /\ s.place = p /\ s.height = saver.height
      /\ s.no = saver.no /\ s.txs = saver.txs
  BY <1>2 DEF TypeOK, SaverType
<1>4. batch = OpenBatch
  BY <1>1 DEF InvTurn
<1>5. /\ saver' = s /\ Put(Save(s)) /\ CachePut(b, [block |-> b, place |-> p])
      /\ UNCHANGED <<file, pe, roller, status, cut, halfway, rollbacks, faults>>
  BY <1>3 DEF SavePut
<1>6. batch' = OneUpdate(Save(s)) /\ db' = db
  BY <1>4, <1>5, BatchType DEF Put
<1>7. cache' \in [Heights -> {NoEntry} \cup Entry] /\ known' \subseteq Block
  <2>1. [block |-> b, place |-> p] \in Entry
    BY <1>1, <1>2 DEF Entry
  <2>2. \A ks : \A x \in Kept(ks) : x \subseteq ks
    BY DEF Kept
  <2> QED
    BY <1>1, <1>5, <2>1, <2>2 DEF CachePut, TypeOK
<1> HIDE DEF s, p, no
<1>8. TypeOK'
  BY <1>3, <1>5, <1>6, <1>7, BatchType DEF TypeOK
<1>9. InvTurn'
  <2>1. saver'.at = "put" /\ saver'.place \in Place /\ saver'.block \in Block
        /\ batch' = OneUpdate(Save(saver'))
    BY <1>1, <1>2, <1>3, <1>5, <1>6
  <2>2. status' = "up" /\ roller'.at = "idle"
    BY <1>1, <1>5 DEF InvTurn
  <2> QED
    BY <2>1, <2>2 DEF InvTurn, Save
<1> QED
  BY <1>1, <1>2, <1>3, <1>5, <1>6, <1>8, <1>9 DEF p, no

LEMMA SaveWriteType ==
    ASSUME TypeOK, InvTurn, Apart, SaveWrite
    PROVE  TypeOK' /\ InvTurn' /\ saver.block \in Block /\ saver.place \in Place
           /\ roller.at = "idle" /\ saver'.at = "written" /\ saver'.block = saver.block
           /\ saver'.height = saver.height /\ saver'.no = saver.no /\ saver'.txs = saver.txs
           /\ saver'.place = saver.place
<1> DEFINE s == [saver EXCEPT !.at = "written"]
<1>1. /\ saver.at = "put" /\ saver.block \in Block /\ saver.place \in Place
      /\ roller.at = "idle" /\ status = "up" /\ batch = OneUpdate(Save(saver))
  BY DEF SaveWrite, InvTurn
<1>2. /\ s \in SaverType /\ s.at = "written" /\ s.block = saver.block /\ s.place = saver.place
      /\ s.height = saver.height /\ s.no = saver.no /\ s.txs = saver.txs
  BY DEF TypeOK, SaverType
<1>3. saver' = s /\ UNCHANGED <<db, batch, cache, known, pe, roller, status, cut, halfway,
                                rollbacks, faults>>
      /\ file' = [file EXCEPT ![saver.place.no] =
                    WriteAt(@, saver.place.pos, Bytes(saver.block))]
  BY DEF SaveWrite
<1> HIDE DEF s
<1>4. file' \in [Files -> Seq(Cell)]
  <2>1. saver.place.no \in Files /\ saver.place.pos \in Nat /\ Bytes(saver.block) \in Seq(Cell)
        /\ file \in [Files -> Seq(Cell)]
    BY <1>1, SizeType DEF Place, TypeOK
  <2>2. WriteAt(file[saver.place.no], saver.place.pos, Bytes(saver.block)) \in Seq(Cell)
    BY <2>1, WriteType
  <2> QED
    BY <1>3, <2>1, <2>2
<1>5. TypeOK'
  BY <1>2, <1>3, <1>4 DEF TypeOK
<1>6. Save(saver') = Save(saver)
  BY <1>2, <1>3 DEF Save
<1>7. InvTurn'
  BY <1>1, <1>2, <1>3, <1>6 DEF InvTurn
<1> QED
  BY <1>1, <1>2, <1>3, <1>5, <1>7

LEMMA SaveCommitType ==
    ASSUME TypeOK, InvTurn, Apart, SaveCommit
    PROVE  TypeOK' /\ InvTurn' /\ saver.block \in Block /\ saver.place \in Place
           /\ saver \in SaverType /\ db \in DBType
           /\ roller.at = "idle" /\ db' = Apply(db, Save(saver))
<1>1. /\ saver.at = "written" /\ saver.block \in Block /\ saver.place \in Place
      /\ roller.at = "idle" /\ status = "up" /\ batch = OneUpdate(Save(saver))
      /\ saver \in SaverType /\ db \in DBType
  BY DEF SaveCommit, InvTurn, TypeOK
<1>2. db' = Apply(db, Save(saver)) /\ batch' = NoBatch
  BY <1>1, WrittenOne DEF SaveCommit, Commit
<1>3. db' \in DBType
  BY <1>1, <1>2, SavedParts
<1>4. /\ saver' = IdleSaver /\ pe' = saver.block
      /\ UNCHANGED <<cache, known, file, roller, status, cut, halfway, rollbacks, faults>>
  BY DEF SaveCommit
<1>5. TypeOK'
  BY <1>1, <1>2, <1>3, <1>4, IdleType, BatchType DEF TypeOK
<1>6. InvTurn'
  BY <1>1, <1>2, <1>4, IdleType DEF InvTurn
<1> QED
  BY <1>1, <1>2, <1>5, <1>6

LEMMA SaveFailType ==
    ASSUME TypeOK, InvTurn, Apart, SaveFail
    PROVE  TypeOK' /\ InvTurn' /\ UNCHANGED db /\ saver'.at = "idle" /\ roller.at = "idle"
           /\ UNCHANGED <<cache, file, pe, roller, status, cut, halfway>>
<1>1. /\ saver.at \in {"put", "written"} /\ roller.at = "idle" /\ status = "up"
      /\ batch = OneUpdate(Save(saver))
  BY DEF SaveFail, InvTurn
<1>2. db' = db /\ batch' = NoBatch /\ saver' = IdleSaver /\ faults' = faults + 1
      /\ UNCHANGED <<cache, known, file, pe, roller, status, cut, halfway, rollbacks>>
  BY <1>1, WrittenOne DEF SaveFail, Fault
<1>3. TypeOK'
  BY <1>2, IdleType, BatchType DEF TypeOK
<1>4. InvTurn'
  BY <1>1, <1>2, IdleType DEF InvTurn
<1> QED
  BY <1>1, <1>2, <1>3, <1>4, IdleType

LEMMA RollBeginType ==
    ASSUME TypeOK, InvTurn, Apart, RollBegin
    PROVE  TypeOK' /\ InvTurn' /\ saver.at = "idle" /\ roller'.at = "next"
           /\ roller'.loop = db.height /\ pe \in Block
<1>1. PICK f \in FollowUp :
         \E to \in IF f = "reset" THEN 1 .. (Height[pe] - 1) ELSE {Height[pe] - 1} :
           roller' = [IdleRoller EXCEPT !.at = "next", !.loop = db.height, !.to = to, !.follow = f]
  BY DEF RollBegin
<1>2. f = "reset"
  BY DEF Apart
<1>3. PICK to \in 1 .. (Height[pe] - 1) :
        roller' = [IdleRoller EXCEPT !.at = "next", !.loop = db.height, !.to = to, !.follow = f]
  BY <1>1, <1>2
<1>4. /\ saver.at = "idle" /\ roller.at = "idle" /\ pe \in Block /\ status = "up"
      /\ rollbacks' = rollbacks + 1
      /\ UNCHANGED <<db, batch, cache, known, file, pe, saver, status, cut, halfway, faults>>
  BY DEF RollBegin, Apart, TypeOK
<1>5. /\ roller' \in RollerType /\ roller'.at = "next" /\ roller'.loop = db.height
      /\ roller'.follow = "reset" /\ 0 < roller'.to
  <2>1. to \in 0 .. MaxHeight /\ 0 < to
    BY <1>4, StoreAssumption DEF Heights
  <2>2. db.height \in 0 .. MaxHeight
    BY DEF TypeOK, DBType
  <2> QED
    BY <1>2, <1>3, <2>1, <2>2, IdleType DEF RollerType, IdleRoller
<1>6. TypeOK'
  BY <1>4, <1>5 DEF TypeOK
<1>7. InvTurn'
  BY <1>4, <1>5 DEF InvTurn
<1> QED
  BY <1>4, <1>5, <1>6, <1>7

LEMMA RollReadType ==
    ASSUME TypeOK, InvTurn, Apart, RollRead
    PROVE  /\ TypeOK' /\ InvTurn' /\ saver.at = "idle" /\ roller.at = "next"
           /\ roller.loop \in Heights
           /\ UNCHANGED <<db, cache, known, file, pe, saver, status, cut>>
           /\ \/ /\ ReadableAt(roller.loop) /\ halfway' = halfway
                 /\ roller'.at = "begun" /\ roller'.block = db.hash[roller.loop]
                 /\ roller'.entry = IndexAt(roller.loop) /\ roller'.txs = db.txs
                 /\ roller'.loop = roller.loop
              \/ roller'.at = "idle" /\ StoppedHalfway
<1> DEFINE h == roller.loop
<1>1. /\ roller.at = "next" /\ saver.at = "idle" /\ status = "up" /\ h \in Heights
      /\ roller.to < h /\ roller.follow = "reset" /\ 0 < roller.to /\ batch = NoBatch
      /\ Returns(h)
  BY DEF RollRead, InvTurn, TypeOK, RollerType, Heights
<1>2. UNCHANGED <<db, cache, known, file, pe, saver, status, cut, rollbacks, faults>>
  BY DEF RollRead
<1>3. CASE ReadableAt(h)
  <2> DEFINE r == [roller EXCEPT !.at = "begun", !.block = db.hash[h], !.entry = IndexAt(h),
                                 !.txs = db.txs]
  <2>1. db.hash[h] \in Block /\ IndexAt(h) \in Entry /\ db.txs \in Int
    BY <1>1, <1>3, ReadableEntry DEF TypeOK, DBType
  <2>2. /\ r \in RollerType /\ r.at = "begun" /\ r.block = db.hash[h]
        /\ r.entry = IndexAt(h) /\ r.txs = db.txs /\ r.loop = h /\ r.to = roller.to
        /\ r.follow = roller.follow
    BY <2>1 DEF TypeOK, RollerType
  <2>3. roller' = r /\ batch' = OpenBatch /\ halfway' = halfway
    BY <1>3 DEF RollRead
  <2> HIDE DEF r
  <2>4. TypeOK'
    BY <1>2, <2>2, <2>3, BatchType DEF TypeOK
  <2>5. InvTurn'
    BY <1>1, <1>2, <2>1, <2>2, <2>3 DEF InvTurn
  <2> QED
    BY <1>1, <1>2, <1>3, <2>2, <2>3, <2>4, <2>5
<1>4. CASE ~ReadableAt(h)
  <2>1. roller' = IdleRoller /\ StoppedHalfway /\ batch' = batch
    BY <1>4 DEF RollRead
  <2>2. TypeOK'
    BY <1>2, <2>1, IdleType DEF TypeOK, StoppedHalfway
  <2>3. InvTurn'
    BY <1>1, <1>2, <2>1, IdleType DEF InvTurn
  <2> QED
    BY <1>1, <1>2, <2>1, <2>2, <2>3, IdleType
<1> QED
  BY <1>3, <1>4

LEMMA RollPutType ==
    ASSUME TypeOK, InvTurn, Apart, RollPut
    PROVE  /\ TypeOK' /\ InvTurn' /\ saver.at = "idle" /\ roller.at = "begun"
           /\ roller'.at = "put" /\ roller'.block = roller.block /\ roller'.entry = roller.entry
           /\ roller'.loop = roller.loop /\ roller'.txs = roller.txs
           /\ UNCHANGED <<db, cache, known, file, pe, saver, status, cut, halfway>>
<1> DEFINE r == [roller EXCEPT !.at = "put"]
<1>1. /\ roller.at = "begun" /\ saver.at = "idle" /\ batch = OpenBatch /\ roller.block \in Block
      /\ roller.entry \in Entry /\ roller.to < roller.loop /\ roller.loop \in Heights
      /\ roller.follow = "reset" /\ 0 < roller.to /\ status = "up"
  BY DEF RollPut, InvTurn
<1>2. /\ r \in RollerType /\ r.at = "put" /\ r.block = roller.block /\ r.entry = roller.entry
      /\ r.loop = roller.loop /\ r.txs = roller.txs /\ r.to = roller.to
      /\ r.follow = roller.follow
  BY DEF TypeOK, RollerType
<1>3. /\ roller' = r /\ Put(Undo(roller))
      /\ UNCHANGED <<cache, known, file, pe, saver, status, cut, halfway, rollbacks, faults>>
  BY DEF RollPut
<1> HIDE DEF r
<1>4. batch' = OneUpdate(Undo(roller)) /\ db' = db
  BY <1>1, <1>3, BatchType DEF Put
<1>5. TypeOK'
  BY <1>2, <1>3, <1>4, BatchType DEF TypeOK
<1>6. Undo(roller)' = Undo(roller)
  BY <1>2, <1>3, <1>4 DEF Undo
<1>7. InvTurn'
  BY <1>1, <1>2, <1>3, <1>4, <1>6 DEF InvTurn
<1> QED
  BY <1>1, <1>2, <1>3, <1>4, <1>5, <1>7

LEMMA RollTruncateType ==
    ASSUME TypeOK, InvTurn, Apart, RollTruncate
    PROVE  /\ TypeOK' /\ InvTurn' /\ saver.at = "idle" /\ roller.at = "put"
           /\ roller.block \in Block /\ roller.entry \in Entry
           /\ UNCHANGED <<db, cache, known, pe, saver, status, cut>>
           /\ LET no == roller.entry.place.no
                  left == Len(file[no]) - Size[roller.entry.block]
              IN \/ /\ left >= 0 /\ file' = [file EXCEPT ![no] = SubSeq(@, 1, left)]
                    /\ halfway' = halfway
                    /\ roller'.at = "cut" /\ roller'.block = roller.block
                    /\ roller'.entry = roller.entry
                    /\ roller'.loop = roller.loop /\ roller'.txs = roller.txs
                 \/ left < 0 /\ roller'.at = "idle" /\ StoppedHalfway /\ file' = file
<1> DEFINE no == roller.entry.place.no
           left == Len(file[no]) - Size[roller.entry.block]
           r == [roller EXCEPT !.at = "cut"]
<1>1. /\ roller.at = "put" /\ saver.at = "idle" /\ batch = OneUpdate(Undo(roller))
      /\ roller.block \in Block
      /\ roller.entry \in Entry /\ roller.to < roller.loop /\ roller.loop \in Heights
      /\ roller.follow = "reset" /\ 0 < roller.to /\ status = "up"
  BY DEF RollTruncate, InvTurn
<1>2. /\ no \in Files /\ file[no] \in Seq(Cell) /\ Len(file[no]) \in Nat
      /\ Size[roller.entry.block] \in Nat
      /\ file \in [Files -> Seq(Cell)]
  BY <1>1, SizeType DEF TypeOK, Entry, Place
<1>3. UNCHANGED <<db, cache, known, pe, saver, status, cut, rollbacks, faults>>
  BY DEF RollTruncate
<1>4. CASE left >= 0
  <2>1. /\ r \in RollerType /\ r.at = "cut" /\ r.block = roller.block /\ r.entry = roller.entry
        /\ r.loop = roller.loop /\ r.txs = roller.txs /\ r.to = roller.to
        /\ r.follow = roller.follow
    BY DEF TypeOK, RollerType
  <2>2. /\ roller' = r /\ file' = [file EXCEPT ![no] = SubSeq(@, 1, left)]
        /\ batch' = batch /\ halfway' = halfway
    BY <1>4 DEF RollTruncate
  <2> HIDE DEF r
  <2>3. SubSeq(file[no], 1, left) \in Seq(Cell)
    <3> DEFINE s == file[no]
               n == left
    <3>1. s \in Seq(Cell) /\ n \in Nat /\ n <= Len(s)
      BY <1>2, <1>4
    <3> HIDE DEF s, n
    <3>2. SubSeq(s, 1, n) \in Seq(Cell)
      BY <3>1
    <3> QED
      BY <3>2 DEF s, n
  <2>4. file' \in [Files -> Seq(Cell)]
    BY <1>2, <2>2, <2>3
  <2>5. TypeOK'
    BY <1>3, <2>1, <2>2, <2>4 DEF TypeOK
  <2>6. Undo(roller)' = Undo(roller)
    BY <1>3, <2>1, <2>2 DEF Undo
  <2>7. InvTurn'
    BY <1>1, <1>3, <2>1, <2>2, <2>6 DEF InvTurn
  <2> QED
    BY <1>1, <1>3, <1>4, <2>1, <2>2, <2>5, <2>7
<1>5. CASE ~(left >= 0)
  <2>1. roller' = IdleRoller /\ StoppedHalfway /\ batch' = NoBatch /\ file' = file
    BY <1>5 DEF RollTruncate
  <2>2. TypeOK'
    BY <1>3, <2>1, IdleType, BatchType DEF TypeOK, StoppedHalfway
  <2>3. InvTurn'
    BY <1>1, <1>3, <2>1, IdleType DEF InvTurn
  <2>4. left < 0
    BY <1>2, <1>5
  <2> QED
    BY <1>1, <1>3, <2>1, <2>2, <2>3, <2>4, IdleType
<1> QED
  BY <1>4, <1>5

LEMMA RollCommitType ==
    ASSUME TypeOK, InvTurn, Apart, RollCommit
    PROVE  /\ TypeOK' /\ InvTurn' /\ saver.at = "idle" /\ roller.at = "cut"
           /\ db' = Apply(db, Undo(roller)) /\ roller'.at = "next"
           /\ roller'.loop = roller.loop - 1 /\ roller.loop \in Heights
           /\ db \in DBType /\ roller \in RollerType /\ roller.block \in Block
           /\ roller.entry \in Entry
           /\ UNCHANGED <<cache, known, file, pe, saver, status, cut, halfway>>
<1> DEFINE r == [roller EXCEPT !.at = "next", !.loop = @ - 1]
<1>1. /\ roller.at = "cut" /\ saver.at = "idle" /\ batch = OneUpdate(Undo(roller))
      /\ roller.block \in Block
      /\ roller.entry \in Entry /\ roller.to < roller.loop /\ roller.loop \in Heights
      /\ roller.follow = "reset" /\ 0 < roller.to /\ status = "up"
      /\ db \in DBType /\ roller \in RollerType
  BY DEF RollCommit, InvTurn, TypeOK
<1>2. db' = Apply(db, Undo(roller)) /\ batch' = NoBatch
  BY <1>1, WrittenOne DEF RollCommit, Commit
<1>3. db' \in DBType
  BY <1>1, <1>2, UndoneParts
<1>4. /\ roller' = r
      /\ UNCHANGED <<cache, known, file, pe, saver, status, cut, halfway, rollbacks, faults>>
  BY DEF RollCommit
<1>5. /\ r \in RollerType /\ r.at = "next" /\ r.loop = roller.loop - 1 /\ r.to = roller.to
      /\ r.follow = roller.follow
  <2>1. roller.loop - 1 \in 0 .. MaxHeight
    BY <1>1, StoreAssumption DEF Heights
  <2> QED
    BY <1>1, <2>1 DEF RollerType
<1> HIDE DEF r
<1>6. TypeOK'
  BY <1>2, <1>3, <1>4, <1>5, BatchType DEF TypeOK
<1>7. InvTurn'
  BY <1>1, <1>2, <1>4, <1>5 DEF InvTurn
<1> QED
  BY <1>1, <1>2, <1>4, <1>5, <1>6, <1>7

LEMMA RollEndType ==
    ASSUME TypeOK, InvTurn, Apart, RollEnd
    PROVE  /\ TypeOK' /\ InvTurn' /\ saver.at = "idle" /\ roller.at = "next"
           /\ roller'.at = "idle" /\ pe' = ChainInfo /\ Returns(db.height)
           /\ UNCHANGED <<db, cache, known, file, saver, status, cut, halfway>>
<1>1. /\ roller.at = "next" /\ saver.at = "idle" /\ batch = NoBatch /\ status = "up"
      /\ roller.follow = "reset"
  BY DEF RollEnd, InvTurn
<1>2. /\ pe' = ChainInfo /\ Returns(db.height) /\ roller' = IdleRoller
      /\ UNCHANGED <<db, batch, cache, known, file, saver, status, cut, halfway, rollbacks,
                     faults>>
  BY <1>1 DEF RollEnd
<1>3. pe' \in Block \cup {NoHash}
  BY <1>2, IndexType DEF ChainInfo
<1>4. TypeOK'
  BY <1>2, <1>3, IdleType DEF TypeOK
<1>5. InvTurn'
  BY <1>1, <1>2, IdleType DEF InvTurn
<1> QED
  BY <1>1, <1>2, <1>4, <1>5, IdleType

LEMMA RollFailType ==
    ASSUME TypeOK, InvTurn, Apart, RollFail
    PROVE  /\ TypeOK' /\ InvTurn' /\ saver.at = "idle" /\ roller.at \in {"put", "cut"}
           /\ roller'.at = "idle" /\ StoppedAtCut /\ StoppedHalfway
           /\ UNCHANGED <<db, cache, known, file, pe, saver, status>>
<1>1. /\ roller.at \in {"put", "cut"} /\ saver.at = "idle" /\ status = "up"
      /\ roller.loop \in Heights
  BY DEF RollFail, InvTurn
<1>2. /\ StoppedAtCut /\ StoppedHalfway /\ batch' = NoBatch /\ roller' = IdleRoller
      /\ faults' = faults + 1
      /\ UNCHANGED <<db, cache, known, file, pe, saver, status, rollbacks>>
  BY DEF RollFail, Fault
<1>3. cut' \subseteq Heights /\ halfway' \in BOOLEAN
  BY <1>1, <1>2 DEF StoppedAtCut, StoppedHalfway, TypeOK
<1>4. TypeOK'
  BY <1>2, <1>3, IdleType, BatchType DEF TypeOK
<1>5. InvTurn'
  BY <1>1, <1>2, IdleType DEF InvTurn
<1> QED
  BY <1>1, <1>2, <1>4, <1>5, IdleType

LEMMA DownType ==
    ASSUME TypeOK, InvTurn, Down, file' \in [Files -> Seq(Cell)], faults' \in Nat
    PROVE  TypeOK' /\ InvTurn' /\ saver'.at = "idle" /\ roller'.at = "idle" /\ status' = "down"
           /\ cache' = [h \in Heights |-> NoEntry] /\ UNCHANGED <<db, halfway>> /\ StoppedAtCut
<1>1. /\ StoppedAtCut /\ status' = "down" /\ batch' = NoBatch
      /\ cache' = [h \in Heights |-> NoEntry] /\ known' = {}
      /\ pe' = NoHash /\ saver' = IdleSaver /\ roller' = IdleRoller
      /\ UNCHANGED <<db, halfway, rollbacks>>
  BY DEF Down
<1>2. cut' \subseteq Heights
  BY <1>1 DEF StoppedAtCut, InvTurn, TypeOK
<1>3. TypeOK'
  BY <1>1, <1>2, IdleType, BatchType DEF TypeOK
<1>4. InvTurn'
  BY <1>1, IdleType DEF InvTurn
<1> QED
  BY <1>1, <1>3, <1>4, IdleType

LEMMA CrashType ==
    ASSUME TypeOK, InvTurn, Apart, Crash
    PROVE  file' \in [Files -> Seq(Cell)] /\ faults' \in Nat
<1>1. CASE UNCHANGED file
  BY <1>1 DEF Crash, Fault, TypeOK
<1>2. ASSUME saver.at = "put", NEW n \in 1 .. (Size[saver.block] - 1),
             file' = [file EXCEPT ![saver.place.no] =
                        WriteAt(@, saver.place.pos, SubSeq(Bytes(saver.block), 1, n))]
      PROVE  file' \in [Files -> Seq(Cell)] /\ faults' \in Nat
  <2>1. saver.block \in Block /\ saver.place \in Place
    BY <1>2 DEF InvTurn
  <2>2. /\ saver.place.no \in Files /\ saver.place.pos \in Nat /\ Bytes(saver.block) \in Seq(Cell)
        /\ Len(Bytes(saver.block)) = Size[saver.block] /\ Size[saver.block] \in Nat
        /\ file \in [Files -> Seq(Cell)]
    BY <2>1, SizeType DEF Place, TypeOK
  <2>3. SubSeq(Bytes(saver.block), 1, n) \in Seq(Cell)
    <3> DEFINE s == Bytes(saver.block)
    <3>1. s \in Seq(Cell) /\ n \in Nat /\ n <= Len(s)
      BY <2>2
    <3> HIDE DEF s
    <3>2. SubSeq(s, 1, n) \in Seq(Cell)
      BY <3>1
    <3> QED
      BY <3>2 DEF s
  <2>4. WriteAt(file[saver.place.no], saver.place.pos, SubSeq(Bytes(saver.block), 1, n))
          \in Seq(Cell)
    BY <2>2, <2>3, WriteType
  <2>5. faults' \in Nat
    BY DEF Crash, Fault, TypeOK
  <2> QED
    BY <1>2, <2>2, <2>4, <2>5
<1> QED
  BY <1>1, <1>2 DEF Crash

LEMMA StartType ==
    ASSUME TypeOK, InvTurn, Apart, Start
    PROVE  TypeOK' /\ InvTurn' /\ (status' = "up" => pe' = ChainInfo)
           /\ saver.at = "idle" /\ roller.at = "idle"
           /\ UNCHANGED <<db, cache, known, file, saver, roller, cut, halfway>>
<1>1. /\ status = "down" /\ saver.at = "idle" /\ roller.at = "idle" /\ batch = NoBatch
  BY DEF Start, InvTurn
<1>2. /\ (status' = "up" /\ pe' = ChainInfo) \/ (status' = "refused" /\ pe' = pe)
      /\ UNCHANGED <<db, batch, cache, known, file, saver, roller, cut, halfway, rollbacks,
                     faults>>
  BY DEF Start
<1>3. pe' \in Block \cup {NoHash}
  BY <1>2, IndexType DEF ChainInfo, TypeOK
<1>4. TypeOK'
  BY <1>2, <1>3 DEF TypeOK
<1>5. InvTurn'
  BY <1>1, <1>2 DEF InvTurn
<1>6. status' = "up" => pe' = ChainInfo
  BY <1>2
<1> QED
  BY <1>1, <1>2, <1>4, <1>5, <1>6

-----------------------------------------------------------------------------
(* What the invariant says of lookups and of the last block.                 *)

LEMMA HeightOfChild ==
    ASSUME NEW b \in Block
    PROVE  /\ Parent[b] = NoHash => Height[b] = 1
           /\ Parent[b] # NoHash => Parent[b] \in Block /\ Height[b] = Height[Parent[b]] + 1
BY StoreAssumption

LEMMA DBFacts ==
    ASSUME TypeOK
    PROVE  /\ db.height \in Nat /\ db.height \in 0 .. MaxHeight /\ MaxHeight \in Nat
           /\ db.maxFile \in Files /\ db.txs \in Int
           /\ \A h \in Heights : db.hash[h] \in Block \cup {NoHash}
           /\ \A b \in Block : db.index[b] \in {NoPlace} \cup Place
           /\ Stored \subseteq Block /\ \A b \in Stored : db.index[b] \in Place
           /\ db.first \in [Files -> 0 .. MaxHeight]
           /\ db.tx \in [Tx -> Block \cup {NoHash}]
           /\ db.hash \in [Heights -> Block \cup {NoHash}]
           /\ db.index \in [Block -> {NoPlace} \cup Place]
<1>1. db \in DBType /\ MaxHeight \in Nat
  BY StoreAssumption DEF TypeOK
<1>2. /\ db.height \in 0 .. MaxHeight
      /\ db.maxFile \in Files /\ db.txs \in Int
      /\ db.first \in [Files -> 0 .. MaxHeight]
      /\ db.tx \in [Tx -> Block \cup {NoHash}]
      /\ db.hash \in [Heights -> Block \cup {NoHash}]
      /\ db.index \in [Block -> {NoPlace} \cup Place]
  BY <1>1 DEF DBType
<1>3. Stored \subseteq Block /\ \A b \in Stored : db.index[b] \in Place
  BY <1>2 DEF Stored
<1> QED
  BY <1>1, <1>2, <1>3

LEMMA LastStored ==
    ASSUME TypeOK, InvChain
    PROVE  /\ db.height = 0 => LastHash(db) = NoHash /\ Stored = {}
           /\ db.height # 0 => /\ LastHash(db) \in Stored /\ Height[LastHash(db)] = db.height
                               /\ LastHash(db) = db.hash[db.height] /\ db.height \in Heights
<1>1. CASE db.height = 0
  <2>1. \A b \in Stored : Height[b] <= 0 /\ Height[b] \in Heights
    BY <1>1, DBFacts, SizeType DEF InvChain
  <2> QED
    BY <1>1, <2>1 DEF LastHash, Heights
<1>2. CASE db.height # 0
  <2>1. db.height \in Heights
    BY <1>2, DBFacts DEF Heights
  <2> QED
    BY <1>2, <2>1, DBFacts DEF LastHash, InvChain
<1> QED
  BY <1>1, <1>2

LEMMA Lookup ==
    ASSUME TypeOK, InvChain, InvCache
    PROVE  /\ \A h \in 1 .. db.height :
                IndexAt(h) = [block |-> db.hash[h], place |-> db.index[db.hash[h]]]
           /\ \A b \in Stored : IndexOf(b).place = db.index[b]
           /\ ChainInfo = LastHash(db)
<1>1. ASSUME NEW h \in 1 .. db.height
      PROVE  /\ IndexAt(h) = [block |-> db.hash[h], place |-> db.index[db.hash[h]]]
             /\ h \in Heights
  <2>1. h \in Heights /\ h <= db.height
    BY DBFacts DEF Heights
  <2>2. db.hash[h] \in Stored /\ db.hash[h] # NoHash
    BY <2>1, DBFacts, StoreAssumption DEF InvChain
  <2>3. CASE cache[h] # NoEntry
    BY <2>1, <2>3 DEF IndexAt, InvCache
  <2>4. CASE cache[h] = NoEntry
    BY <2>1, <2>2, <2>4 DEF IndexAt
  <2> QED
    BY <2>1, <2>3, <2>4
<1>2. ASSUME NEW b \in Stored PROVE IndexOf(b).place = db.index[b]
  <2>1. b \in Block /\ Height[b] \in 1 .. db.height /\ db.hash[Height[b]] = b
    BY DBFacts, SizeType DEF InvChain, Heights
  <2>2. IndexAt(Height[b]) = [block |-> b, place |-> db.index[b]]
    BY <1>1, <2>1
  <2> QED
    BY <2>2 DEF IndexOf
<1>3. ChainInfo = LastHash(db)
  <2>1. CASE db.height = 0
    BY <2>1 DEF ChainInfo, IndexAt, LastHash, Heights, NoEntry
  <2>2. CASE db.height # 0
    <3>1. db.height \in 1 .. db.height
      BY <2>2, DBFacts
    <3> QED
      BY <1>1, <2>2, <3>1 DEF ChainInfo, LastHash
  <2> QED
    BY <2>1, <2>2
<1> QED
  BY <1>1, <1>2, <1>3

\* What is indexed can be read if its bytes are at its place, and only then.
LEMMA StoredReadable ==
    ASSUME TypeOK, InvChain, InvCache, NEW b \in Stored
    PROVE  Readable(b) <=> Intact(b, db.index[b])
<1>1. b \in Block /\ db.index[b] \in Place /\ db.index[b] # NoPlace
  BY DBFacts DEF Stored
<1>2. IndexOf(b).place = db.index[b]
  BY Lookup
<1> QED
  BY <1>1, <1>2, IntactRead DEF Readable

\* What depends on the database alone.
LEMMA FrameDB ==
    ASSUME UNCHANGED db
    PROVE  /\ Stored' = Stored /\ LastHash(db)' = LastHash(db)
           /\ InvChain => InvChain'
           /\ InvFiles => InvFiles'
           /\ InvTx => InvTx'
<1>1. Stored' = Stored /\ LastHash(db)' = LastHash(db)
  BY DEF Stored, LastHash
<1>2. InvChain => InvChain'
  BY <1>1 DEF InvChain
<1>3. InvFiles => InvFiles'
  BY <1>1 DEF InvFiles
<1>4. InvTx => InvTx'
  BY <1>1 DEF InvTx
<1> QED
  BY <1>1, <1>2, <1>3, <1>4

\* Nothing is cut off, and nothing is forgotten to have been.
LEMMA FrameBytes ==
    ASSUME TypeOK, InvBytes, UNCHANGED db, cut \subseteq cut',
           \A b \in Stored : Intact(b, db.index[b]) => Intact(b, db.index[b])',
           roller.at = "cut" =>
             (roller'.at = "cut" /\ roller'.block = roller.block) \/ Height[roller.block] \in cut'
    PROVE  InvBytes'
<1>1. Stored' = Stored
  BY FrameDB
<1>2. ASSUME NEW b \in Stored'
      PROVE  \/ Height[b] \in cut'
             \/ roller'.at = "cut" /\ b = roller'.block
             \/ Intact(b, db.index[b])'
  BY <1>1 DEF InvBytes
<1>3. ASSUME NEW b \in Stored', NEW d \in Stored'
      PROVE  Height[b] < Height[d] /\ db'.index[b].no = db'.index[d].no /\ Height[b] \notin cut'
             => db'.index[b].pos + Size[b] <= db'.index[d].pos
  BY <1>1 DEF InvBytes
<1> QED
  BY <1>2, <1>3 DEF InvBytes

LEMMA FrameIntact ==
    ASSUME UNCHANGED <<db, file>>
    PROVE  \A b \in Stored : Intact(b, db.index[b]) => Intact(b, db.index[b])'
BY DEF Intact

\* A cache that keeps some of its entries.
LEMMA FrameCache ==
    ASSUME InvCache, UNCHANGED db, \A h \in Heights : cache'[h] \in {cache[h], NoEntry},
           saver'.at \notin {"put", "written"}
    PROVE  InvCache'
BY DEF InvCache

-----------------------------------------------------------------------------
(* The steps of the storager.                                                *)

LEMMA SaveBeginStore ==
    ASSUME TypeOK, InvTurn, Apart, InvStore, NEW b \in Block, SaveBegin(b)
    PROVE  InvStore'
<1>1. /\ saver'.at = "begun" /\ saver'.block = b /\ saver'.height = db.height
      /\ saver'.no = db.maxFile /\ saver'.txs = db.txs + Cardinality(Txs[b])
      /\ roller.at = "idle" /\ status = "up" /\ Parent[b] = pe
      /\ UNCHANGED <<db, cache, known, file, pe, roller, status, cut, halfway>>
  BY DEF SaveBegin, Apart, IdleSaver
<1>2. InvChain' /\ InvFiles' /\ InvTx' /\ Stored' = Stored /\ LastHash(db)' = LastHash(db)
  BY <1>1, FrameDB DEF InvStore
<1>3. InvCache'
  BY <1>1, FrameCache DEF InvStore
<1>4. InvBytes'
  BY <1>1, FrameBytes, FrameIntact DEF InvStore
<1>5. InvStatus'
  BY <1>1, <1>2 DEF InvStore, InvStatus
<1>6. Parent[b] = LastHash(db)
  BY <1>1 DEF InvStore, InvStatus
<1>7. Height[b] = db.height + 1
  <2>1. CASE db.height = 0
    BY <1>6, <2>1, LastStored, HeightOfChild DEF InvStore
  <2>2. CASE db.height # 0
    <3>1. LastHash(db) \in Block /\ Height[LastHash(db)] = db.height
      BY <2>2, LastStored, DBFacts DEF InvStore
    <3> QED
      BY <1>6, <3>1, HeightOfChild, StoreAssumption
  <2> QED
    BY <2>1, <2>2
<1>8. b \notin Stored
  BY <1>7, DBFacts DEF InvStore, InvChain
<1>9. InvSaver'
  BY <1>1, <1>2, <1>6, <1>7, <1>8 DEF InvSaver
<1>10. InvRoller'
  BY <1>1 DEF InvRoller
<1> QED
  BY <1>2, <1>3, <1>4, <1>5, <1>9, <1>10 DEF InvStore

LEMMA SavePutStore ==
    ASSUME TypeOK, InvTurn, Apart, InvStore, SavePut
    PROVE  InvStore'
<1> DEFINE b == saver.block
           no == NewFileNo(saver.no, b)
           p == [no |-> no, pos |-> Len(file[no])]
<1>1. /\ db' = db /\ b \in Block /\ saver'.block = b /\ saver'.at = "put"
      /\ saver'.height = saver.height /\ saver'.no = saver.no /\ saver'.txs = saver.txs
      /\ saver'.place = p /\ p \in Place /\ roller.at = "idle"
  BY SavePutType
<1>2. /\ UNCHANGED <<file, pe, roller, status, cut, halfway>>
      /\ CachePut(b, [block |-> b, place |-> p]) /\ saver.at = "begun"
  BY DEF SavePut
<1>3. InvChain' /\ InvFiles' /\ InvTx' /\ Stored' = Stored /\ LastHash(db)' = LastHash(db)
  BY <1>1, FrameDB DEF InvStore
<1>4. /\ b \notin Stored /\ Parent[b] = LastHash(db) /\ Height[b] = db.height + 1
      /\ saver.height = db.height /\ saver.no = db.maxFile
      /\ saver.txs = db.txs + Cardinality(Txs[b])
  BY <1>2 DEF InvStore, InvSaver
<1>5. no \in {saver.no, saver.no + 1}
  BY DEF NewFileNo
<1>6. InvCache'
  <2>1. Height[b] \in Heights /\ db.height \in Nat
    BY <1>1, SizeType, DBFacts
  <2>2. \A h \in Heights : \/ h = Height[b] /\ cache'[h] = [block |-> b, place |-> p]
                           \/ h # Height[b] /\ cache'[h] \in {cache[h], NoEntry}
    BY <1>2 DEF CachePut
  <2>3. \A h \in Heights : cache'[h] # NoEntry /\ h <= db.height =>
          cache'[h] = [block |-> db.hash[h], place |-> db.index[db.hash[h]]]
    BY <1>4, <2>1, <2>2 DEF InvStore, InvCache
  <2>4. cache'[Height[b]] = [block |-> b, place |-> p]
    BY <2>1, <2>2
  <2> QED
    BY <1>1, <2>3, <2>4 DEF InvCache
<1>7. InvBytes'
  BY <1>1, <1>2, FrameBytes, FrameIntact DEF InvStore
<1>8. InvStatus'
  BY <1>1, <1>2, <1>3 DEF InvStore, InvStatus
<1>9. InvSaver'
  <2>1. saver'.place.no = no /\ saver'.place.pos = Len(file'[no])
    BY <1>1, <1>2
  <2> HIDE DEF no, p
  <2> QED
    BY <1>1, <1>2, <1>3, <1>4, <1>5, <2>1 DEF InvSaver
<1>10. InvRoller'
  BY <1>1, <1>2 DEF InvRoller
<1> QED
  BY <1>3, <1>6, <1>7, <1>8, <1>9, <1>10 DEF InvStore

\* What was at a place stays there when a file is written at its end.
LEMMA GrowIntact ==
    ASSUME TypeOK, NEW no \in Files, NEW c \in Seq(Cell),
           file' = [file EXCEPT ![no] = WriteAt(@, Len(file[no]), c)],
           NEW b \in Block, NEW p \in Place, Intact(b, p)
    PROVE  Intact(b, p)'
<1>1. /\ p.no \in Files /\ p.pos \in Nat /\ Size[b] \in Nat
      /\ file[p.no] \in Seq(Cell) /\ file[no] \in Seq(Cell) /\ file \in [Files -> Seq(Cell)]
  BY SizeType DEF TypeOK, Place
<1>2. CASE p.no # no
  BY <1>1, <1>2 DEF Intact
<1>3. CASE p.no = no
  <2> DEFINE f == file[no]
             e == WriteAt(f, Len(f), c)
  <2>1. file'[no] = e /\ f \in Seq(Cell)
    BY <1>1
  <2>2. p.pos + Size[b] <= Len(f) /\ \A i \in 1 .. Size[b] : f[p.pos + i] = <<b, i>>
    BY <1>3 DEF Intact
  <2> HIDE DEF f
  <2>3. Len(e) = Len(f) + Len(c) /\ \A i \in 1 .. Len(f) : e[i] = f[i]
    BY <2>1, WriteAtEnd, Zenon
  <2>4. Len(f) \in Nat /\ Len(c) \in Nat
    BY <2>1
  <2> HIDE DEF e
  <2>5. p.pos + Size[b] <= Len(e)
    BY <1>1, <2>4, <2>2, <2>3
  <2>6. ASSUME NEW i \in 1 .. Size[b] PROVE e[p.pos + i] = <<b, i>>
    <3>1. p.pos + i \in 1 .. Len(f)
      BY <1>1, <2>4, <2>2
    <3> QED
      BY <2>3, <2>2, <3>1
  <2> QED
    BY <1>3, <2>1, <2>5, <2>6 DEF Intact
<1> QED
  BY <1>2, <1>3

LEMMA SaveWriteStore ==
    ASSUME TypeOK, InvTurn, Apart, InvStore, SaveWrite
    PROVE  InvStore'
<1> DEFINE b == saver.block
           p == saver.place
<1>1. /\ b \in Block /\ p \in Place /\ roller.at = "idle" /\ saver'.at = "written"
      /\ saver'.block = b /\ saver'.height = saver.height /\ saver'.no = saver.no
      /\ saver'.txs = saver.txs /\ saver'.place = p
  BY SaveWriteType
<1>2. /\ saver.at = "put" /\ UNCHANGED <<db, cache, known, pe, roller, status, cut, halfway>>
      /\ file' = [file EXCEPT ![p.no] = WriteAt(@, p.pos, Bytes(b))]
  BY DEF SaveWrite
<1>3. InvChain' /\ InvFiles' /\ InvTx' /\ Stored' = Stored /\ LastHash(db)' = LastHash(db)
  BY <1>2, FrameDB DEF InvStore
<1>4. /\ b \notin Stored /\ Parent[b] = LastHash(db) /\ Height[b] = db.height + 1
      /\ saver.height = db.height /\ saver.no = db.maxFile
      /\ saver.txs = db.txs + Cardinality(Txs[b])
      /\ p.no \in {saver.no, saver.no + 1} /\ p.pos = Len(file[p.no])
  BY <1>2 DEF InvStore, InvSaver
<1>5. /\ p.no \in Files /\ Bytes(b) \in Seq(Cell) /\ file[p.no] \in Seq(Cell)
      /\ file \in [Files -> Seq(Cell)]
      /\ file' = [file EXCEPT ![p.no] = WriteAt(@, Len(file[p.no]), Bytes(b))]
  BY <1>1, <1>2, <1>4, SizeType DEF Place, TypeOK
<1>6. InvCache'
  BY <1>1, <1>2 DEF InvStore, InvCache
<1>7. InvBytes'
  <2>1. \A x \in Stored : Intact(x, db.index[x]) => Intact(x, db.index[x])'
    <3> SUFFICES ASSUME NEW x \in Stored, Intact(x, db.index[x])
                 PROVE  Intact(x, db.index[x])'
      OBVIOUS
    <3>1. x \in Block /\ db.index[x] \in Place /\ db' = db
      BY <1>2, DBFacts
    <3> DEFINE q == db.index[x]
    <3>2. q \in Place /\ Intact(x, q) /\ q' = q
      BY <3>1
    <3> HIDE DEF q
    <3>3. ASSUME NEW r \in Place, Intact(x, r)
          PROVE  Intact(x, r)'
      BY <1>5, <3>1, <3>3, GrowIntact
    <3> QED
      BY <3>2, <3>3 DEF Intact, q
  <2> QED
    BY <1>1, <1>2, <2>1, FrameBytes DEF InvStore
<1>8. InvStatus'
  BY <1>1, <1>2, <1>3 DEF InvStore, InvStatus
<1>9. Intact(b, p)'
  <2> DEFINE f == file[p.no]
             c == Bytes(b)
             e == WriteAt(f, Len(f), c)
  <2>1. file'[p.no] = e /\ f \in Seq(Cell)
    BY <1>5
  <2>2. p.pos = Len(f)
    BY <1>4
  <2>3. /\ c \in Seq(Cell) /\ Len(c) = Size[b] /\ Size[b] \in Nat
        /\ \A i \in 1 .. Size[b] : c[i] = <<b, i>>
    BY <1>1, SizeType
  <2> HIDE DEF f, c
  <2>4. Len(e) = Len(f) + Len(c) /\ \A i \in 1 .. Len(c) : e[Len(f) + i] = c[i]
    BY <2>1, <2>3, WriteAtEnd, Zenon
  <2>5. Len(f) \in Nat
    BY <2>1
  <2> HIDE DEF e
  <2>6. /\ Len(f) \in Nat /\ Size[b] \in Nat /\ Len(e) = Len(f) + Size[b]
        /\ \A i \in 1 .. Size[b] : e[Len(f) + i] = <<b, i>>
    BY <2>3, <2>4, <2>5
  <2>7. saver'.place = p /\ saver'.block = b
    BY <1>1
  <2>8. p.pos + Size[b] <= Len(file'[p.no])
    BY <2>1, <2>2, <2>6
  <2>9. \A i \in 1 .. Size[b] : file'[p.no][p.pos + i] = <<b, i>>
    BY <2>1, <2>2, <2>6
  <2> QED
    BY <2>7, <2>8, <2>9 DEF Intact
<1>10. ASSUME NEW x \in Stored, db.index[x].no = p.no, Height[x] \notin cut
       PROVE  db.index[x].pos + Size[x] <= p.pos
  BY <1>1, <1>4, <1>10 DEF InvStore, InvBytes, Intact
<1>11. InvSaver'
  BY <1>1, <1>2, <1>3, <1>4, <1>9, <1>10 DEF InvSaver
<1>12. InvRoller'
  BY <1>1, <1>2 DEF InvRoller
<1> QED
  BY <1>3, <1>6, <1>7, <1>8, <1>11, <1>12 DEF InvStore

LEMMA SaveFailStore ==
    ASSUME TypeOK, InvTurn, Apart, InvStore, SaveFail
    PROVE  InvStore'
<1>1. UNCHANGED db /\ saver'.at = "idle" /\ roller.at = "idle"
      /\ UNCHANGED <<cache, file, pe, roller, status, cut, halfway>>
  BY SaveFailType
<1>2. InvChain' /\ InvFiles' /\ InvTx' /\ LastHash(db)' = LastHash(db)
  BY <1>1, FrameDB DEF InvStore
<1>3. InvCache'
  BY <1>1, FrameCache DEF InvStore
<1>4. InvBytes'
  BY <1>1, FrameBytes, FrameIntact DEF InvStore
<1>5. InvStatus' /\ InvSaver' /\ InvRoller'
  BY <1>1, <1>2 DEF InvStore, InvStatus, InvSaver, InvRoller
<1> QED
  BY <1>2, <1>3, <1>4, <1>5 DEF InvStore

\* The blocks of the chain and the one that is stored next are a line.
LEMMA NextLine ==
    ASSUME TypeOK, InvChain, NEW b \in Block, b \notin Stored, Parent[b] = LastHash(db),
           Height[b] = db.height + 1
    PROVE  \A d \in Stored : Txs[b] \cap Txs[d] = {}
<1> DEFINE C == Stored \cup {b}
<1>1. C \in SUBSET Block
  BY DBFacts
<1>2. ASSUME NEW d \in C PROVE Parent[d] = NoHash \/ Parent[d] \in C
  <2>1. CASE d = b
    BY <2>1, LastStored, DBFacts
  <2>2. CASE d \in Stored
    BY <2>2 DEF InvChain
  <2> QED
    BY <2>1, <2>2
<1>3. ASSUME NEW d \in C, NEW x \in C, Height[d] = Height[x] PROVE d = x
  <2>1. \A y \in Stored : Height[y] # Height[b] /\ db.hash[Height[y]] = y
    <3>1. \A y \in Stored : Height[y] \in Nat /\ Height[y] <= db.height /\ db.hash[Height[y]] = y
      BY DBFacts, SizeType DEF InvChain
    <3> QED
      BY <3>1, DBFacts
  <2> QED
    BY <1>3, <2>1
<1>4. Line(C)
  BY <1>2, <1>3 DEF Line
<1>5. \A x, d \in C : x = d \/ Txs[x] \cap Txs[d] = {}
  BY <1>1, <1>4, NoRepeat
<1> QED
  BY <1>5

\* What SaveCommit finds and what it does to the database.
SavedNow(b, p) ==
    /\ b \in Block /\ p \in Place /\ b \notin Stored
    /\ Parent[b] = LastHash(db) /\ Height[b] = db.height + 1 /\ Height[b] \in Heights
    /\ p.no \in {db.maxFile, db.maxFile + 1} /\ p.no \in Files
    /\ LET opens == p.no # db.maxFile \/ (Height[b] = 1 /\ db.maxFile = 0)
       IN /\ db'.maxFile = IF opens THEN p.no ELSE db.maxFile
          /\ db'.first = [db.first EXCEPT ![p.no] = IF opens THEN Height[b] ELSE @]
    /\ db'.height = Height[b] /\ db'.txs = db.txs + Cardinality(Txs[b])
    /\ db'.hash = [db.hash EXCEPT ![Height[b]] = b]
    /\ db'.index = [db.index EXCEPT ![b] = p]
    /\ db'.tx = [t \in Tx |-> IF t \in Txs[b] THEN b ELSE db.tx[t]]

LEMMA SaveCommitDB ==
    ASSUME TypeOK, InvTurn, Apart, InvStore, SaveCommit
    PROVE  SavedNow(saver.block, saver.place)
<1>1. /\ saver.block \in Block /\ saver.place \in Place
      /\ saver \in SaverType /\ db \in DBType /\ db' = Apply(db, Save(saver))
      /\ saver.at = "written"
  BY SaveCommitType DEF SaveCommit
<1>2. /\ saver.block \notin Stored /\ Parent[saver.block] = LastHash(db)
      /\ Height[saver.block] = db.height + 1
      /\ saver.no = db.maxFile /\ saver.txs = db.txs + Cardinality(Txs[saver.block])
      /\ saver.place.no \in {saver.no, saver.no + 1}
  BY <1>1 DEF InvStore, InvSaver
<1>3. Height[saver.block] \in Heights /\ saver.place.no \in Files
  BY <1>1, SizeType DEF Place
<1> DEFINE b == saver.block
           opens == saver.place.no # saver.no \/ (Height[b] = 1 /\ saver.no = 0)
<1>4. /\ db'.height = Height[b] /\ db'.txs = saver.txs
      /\ db'.maxFile = IF opens THEN saver.place.no ELSE db.maxFile
      /\ db'.first = [db.first EXCEPT ![saver.place.no] = IF opens THEN Height[b] ELSE @]
      /\ db'.hash = [db.hash EXCEPT ![Height[b]] = b]
      /\ db'.index = [db.index EXCEPT ![b] = saver.place]
      /\ db'.tx = [t \in Tx |-> IF t \in Txs[b] THEN b ELSE db.tx[t]]
  BY <1>1, SavedParts
<1> QED
  BY <1>1, <1>2, <1>3, <1>4 DEF SavedNow

LEMMA SavedChain ==
    ASSUME TypeOK, InvChain, NEW b, NEW p, SavedNow(b, p)
    PROVE  /\ Stored' = Stored \cup {b} /\ InvChain' /\ LastHash(db)' = b
           /\ \A d \in Stored : d # b /\ db'.index[d] = db.index[d] /\ Height[d] < Height[b]
                                /\ Height[d] \in Heights
           /\ \A h \in Heights : h <= db.height => db'.hash[h] = db.hash[h]
<1>1. /\ b \in Block /\ p \in Place /\ b \notin Stored
      /\ Parent[b] = LastHash(db) /\ Height[b] = db.height + 1 /\ Height[b] \in Heights
      /\ db'.height = Height[b] /\ db'.hash = [db.hash EXCEPT ![Height[b]] = b]
      /\ db'.index = [db.index EXCEPT ![b] = p]
  BY DEF SavedNow
<1>2. p # NoPlace
  BY <1>1 DEF Place, NoPlace, Files
<1>3. Stored' = Stored \cup {b}
  BY <1>1, <1>2, DBFacts DEF Stored
<1>4. ASSUME NEW d \in Stored
      PROVE  /\ d # b /\ db'.index[d] = db.index[d] /\ Height[d] < Height[b]
             /\ Height[d] \in Heights /\ Height[d] \in Nat /\ Height[d] <= db.height
  BY <1>1, DBFacts, SizeType DEF InvChain
<1>5. \A h \in Heights : db'.hash[h] = IF h = Height[b] THEN b ELSE db.hash[h]
  BY <1>1, DBFacts
<1>6. db.height \in Nat /\ \A h \in Heights : h \in Nat /\ db.hash[h] \in Block \cup {NoHash}
  BY DBFacts DEF Heights
<1>7. InvChain'
  <2>1. ASSUME NEW d \in Stored' PROVE Height[d] <= db'.height /\ db'.hash[Height[d]] = d
    BY <1>1, <1>3, <1>4, <1>5, <1>6, <2>1 DEF InvChain
  <2>2. ASSUME NEW h \in Heights
        PROVE  /\ h <= db'.height => db'.hash[h] \in Stored' /\ Height[db'.hash[h]] = h
               /\ h > db'.height => db'.hash[h] = NoHash
    <3>1. CASE h = Height[b]
      BY <1>1, <1>3, <1>5, <1>6, <3>1
    <3>2. CASE h # Height[b]
      <4>1. h <= db'.height => h <= db.height
        BY <1>1, <1>6, <3>2
      <4>2. h > db'.height => h > db.height
        BY <1>1, <1>6
      <4>3. db'.hash[h] = db.hash[h]
        BY <1>5, <3>2
      <4> QED
        BY <1>3, <4>1, <4>2, <4>3 DEF InvChain
    <3> QED
      BY <3>1, <3>2
  <2>3. ASSUME NEW d \in Stored' PROVE Parent[d] # NoHash => Parent[d] \in Stored'
    <3>1. CASE d = b
      BY <1>1, <1>3, <3>1, LastStored
    <3>2. CASE d \in Stored
      BY <1>3, <3>2 DEF InvChain
    <3> QED
      BY <1>3, <3>1, <3>2
  <2>4. Cardinality(Stored') = db'.height
    <3>1. IsFiniteSet(Stored)
      BY DBFacts, StoreAssumption, FS_Subset
    <3>2. Cardinality(Stored \cup {b}) = Cardinality(Stored) + 1
      BY <1>1, <3>1, FS_AddElement
    <3> QED
      BY <1>1, <1>3, <3>2 DEF InvChain
  <2> QED
    BY <2>1, <2>2, <2>3, <2>4 DEF InvChain
<1>8. LastHash(db)' = b
  BY <1>1, <1>5, <1>6 DEF LastHash
<1>9. \A h \in Heights : h <= db.height => db'.hash[h] = db.hash[h]
  BY <1>1, <1>5, <1>6
<1> QED
  BY <1>3, <1>4, <1>7, <1>8, <1>9

LEMMA SavedFiles ==
    ASSUME TypeOK, InvChain, InvFiles, NEW b, NEW p, SavedNow(b, p)
    PROVE  InvFiles'
<1> DEFINE opens == p.no # db.maxFile \/ (Height[b] = 1 /\ db.maxFile = 0)
<1>1. /\ b \in Block /\ p \in Place /\ b \notin Stored /\ p.no \in Files
      /\ Height[b] = db.height + 1 /\ Height[b] \in Heights /\ db'.height = Height[b]
      /\ p.no \in {db.maxFile, db.maxFile + 1}
      /\ db'.maxFile = IF opens THEN p.no ELSE db.maxFile
      /\ db'.first = [db.first EXCEPT ![p.no] = IF opens THEN Height[b] ELSE @]
      /\ db'.hash = [db.hash EXCEPT ![Height[b]] = b]
      /\ db'.index = [db.index EXCEPT ![b] = p]
  BY DEF SavedNow
<1>2. /\ Stored' = Stored \cup {b}
      /\ \A d \in Stored : d # b /\ db'.index[d] = db.index[d] /\ Height[d] < Height[b]
                           /\ Height[d] \in Heights
      /\ \A h \in Heights : h <= db.height => db'.hash[h] = db.hash[h]
  BY SavedChain
<1>3. /\ db'.index[b] = p /\ db'.hash[Height[b]] = b
      /\ \A f \in Files : db'.first[f] = IF f = p.no /\ opens THEN Height[b] ELSE db.first[f]
  BY <1>1, DBFacts
<1>4. /\ db.maxFile \in Nat /\ p.no \in Nat /\ db.height \in Nat /\ Height[b] \in Nat
      /\ \A f \in Files : f \in Nat /\ db.first[f] \in Nat /\ db.first[f] \in 0 .. MaxHeight
      /\ \A d \in Stored : db.index[d].no \in Files /\ d \in Block /\ Height[d] \in Nat
  <2>1. /\ db.maxFile \in Nat /\ p.no \in Nat /\ db.height \in Nat /\ Height[b] \in Nat
        /\ \A f \in Files : f \in Nat
    BY <1>1, DBFacts, SizeType DEF Files
  <2>2. \A f \in Files : db.first[f] \in Nat /\ db.first[f] \in 0 .. MaxHeight
    BY DBFacts
  <2>3. ASSUME NEW d \in Stored
        PROVE  db.index[d].no \in Files /\ d \in Block /\ Height[d] \in Nat
    <3>1. d \in Block /\ db.index[d] \in Place
      BY DBFacts
    <3> QED
      BY <3>1, SizeType DEF Place
  <2> QED
    BY <2>1, <2>2, <2>3
<1>5. db.maxFile <= db'.maxFile /\ p.no <= db'.maxFile
  BY <1>1, <1>4
<1>6. \A d \in Stored : db.index[d].no <= db.maxFile /\ db.first[db.index[d].no] <= Height[d]
  BY DEF InvFiles
<1>7. \A d \in Stored : opens => db.index[d].no # p.no
  <2>1. CASE p.no # db.maxFile
    BY <1>1, <1>4, <1>6, <2>1
  <2>2. CASE Height[b] = 1
    BY <1>1, <1>2, <1>4, <2>2, SizeType DEF Heights
  <2> QED
    BY <2>1, <2>2
<1> HIDE DEF opens
<1>8. ASSUME NEW d \in Stored'
      PROVE  db'.index[d].no <= db'.maxFile /\ db'.first[db'.index[d].no] <= Height[d]
  <2>1. CASE d = b
    <3>1. db.first[p.no] <= Height[b]
      BY <1>1, <1>4 DEF InvFiles
    <3> QED
      BY <1>1, <1>3, <1>4, <1>5, <2>1, <3>1
  <2>2. CASE d \in Stored
    <3> DEFINE f == db.index[d].no
    <3>1. f \in Files /\ f \in Nat /\ f <= db.maxFile /\ db.first[f] <= Height[d]
          /\ (opens => f # p.no) /\ db'.index[d].no = f
      BY <1>2, <1>4, <1>6, <1>7, <2>2
    <3> HIDE DEF f
    <3>2. db'.first[f] = db.first[f] /\ f <= db'.maxFile
      <4>1. db'.maxFile \in Nat
        BY <1>1, <1>4
      <4> QED
        BY <1>3, <1>4, <1>5, <3>1, <4>1
    <3> QED
      BY <3>1, <3>2
  <2> QED
    BY <1>2, <2>1, <2>2
<1>9. ASSUME NEW d \in Stored', NEW x \in Stored', Height[d] <= Height[x]
      PROVE  db'.index[d].no <= db'.index[x].no
  <2>1. CASE d \in Stored /\ x \in Stored
    BY <1>2, <1>9, <2>1 DEF InvFiles
  <2>2. CASE d \in Stored /\ x = b
    BY <1>1, <1>2, <1>3, <1>4, <1>6, <2>2
  <2>3. CASE d = b /\ x \in Stored
    BY <1>2, <1>4, <1>9, <2>3
  <2>4. CASE d = b /\ x = b
    BY <1>3, <1>4, <2>4
  <2> QED
    BY <1>2, <2>1, <2>2, <2>3, <2>4
<1>10. ASSUME NEW f \in Files, db'.first[f] > 0
       PROVE  db'.first[f] <= db'.height /\ db'.index[db'.hash[db'.first[f]]].no = f
  <2>1. CASE f = p.no /\ opens
    BY <1>1, <1>3, <1>4, <2>1
  <2>2. CASE ~(f = p.no /\ opens)
    <3>1. db'.first[f] = db.first[f] /\ db.first[f] > 0 /\ db.first[f] <= db.height
          /\ db.index[db.hash[db.first[f]]].no = f
      BY <1>3, <1>10, <2>2 DEF InvFiles
    <3>2. db.first[f] \in Heights
      BY <1>4, <3>1 DEF Heights
    <3>3. db.hash[db.first[f]] \in Stored
      BY <3>1, <3>2 DEF InvChain
    <3>4. db.first[f] <= db'.height
      BY <1>1, <1>4, <3>1
    <3> QED
      BY <1>2, <3>1, <3>2, <3>3, <3>4
  <2> QED
    BY <2>1, <2>2
<1> QED
  BY <1>8, <1>9, <1>10 DEF InvFiles

LEMMA SavedTx ==
    ASSUME TypeOK, InvChain, InvTx, NEW b, NEW p, SavedNow(b, p)
    PROVE  InvTx'
<1> DEFINE T == {t \in Tx : db.tx[t] # NoHash}
<1>1. /\ b \in Block /\ b \notin Stored /\ db'.txs = db.txs + Cardinality(Txs[b])
      /\ db'.tx = [t \in Tx |-> IF t \in Txs[b] THEN b ELSE db.tx[t]]
      /\ Parent[b] = LastHash(db) /\ Height[b] = db.height + 1
  BY DEF SavedNow
<1>2. Stored' = Stored \cup {b} /\ b # NoHash
  BY <1>1, SavedChain, StoreAssumption
<1>3. \A d \in Stored : Txs[b] \cap Txs[d] = {}
  BY <1>1, NextLine
<1>4. \A t \in Tx : db'.tx[t] = IF t \in Txs[b] THEN b ELSE db.tx[t]
  BY <1>1
<1>5. ASSUME NEW t \in Tx, db'.tx[t] # NoHash PROVE db'.tx[t] \in Stored' /\ t \in Txs[db'.tx[t]]
  BY <1>2, <1>4, <1>5 DEF InvTx
<1>6. ASSUME NEW d \in Stored', NEW t \in Txs[d] PROVE db'.tx[t] = d
  <2>1. t \in Tx
    BY <1>1, <1>2, DBFacts, TxsType
  <2>2. CASE d = b
    BY <1>4, <2>1, <2>2
  <2>3. CASE d \in Stored
    <3>1. t \notin Txs[b] /\ db.tx[t] = d
      BY <1>3, <2>3 DEF InvTx
    <3> QED
      BY <1>4, <2>1, <3>1
  <2> QED
    BY <1>2, <2>2, <2>3
<1>7. db'.txs = Cardinality({t \in Tx : db'.tx[t] # NoHash})
  <2>1. Txs[b] \subseteq Tx /\ IsFiniteSet(Txs[b]) /\ Cardinality(Txs[b]) \in Nat
    BY <1>1, TxsType
  <2>2. {t \in Tx : db'.tx[t] # NoHash} = T \cup Txs[b]
    BY <1>2, <1>4, <2>1
  <2>3. T \cap Txs[b] = {}
    BY <1>3 DEF InvTx
  <2>4. IsFiniteSet(T) /\ Cardinality(T) \in Nat
    <3>1. T \in SUBSET Tx /\ IsFiniteSet(Tx)
      BY StoreAssumption
    <3> HIDE DEF T
    <3>2. IsFiniteSet(T)
      BY <3>1, FS_Subset
    <3> QED
      BY <3>2, FS_CardinalityType
  <2>5. db.txs = Cardinality(T)
    BY DEF InvTx
  <2> HIDE DEF T
  <2>6. Cardinality(T \cup Txs[b]) = Cardinality(T) + Cardinality(Txs[b]) - Cardinality(T \cap Txs[b])
    BY <2>1, <2>4, FS_Union
  <2>7. Cardinality(T \cap Txs[b]) = 0
    BY <2>3, FS_EmptySet
  <2>8. Cardinality(T \cup Txs[b]) = db'.txs
    BY <1>1, <2>1, <2>4, <2>5, <2>6, <2>7
  <2> QED
    BY <2>2, <2>8
<1> QED
  BY <1>5, <1>6, <1>7 DEF InvTx

LEMMA SaveCommitStore ==
    ASSUME TypeOK, InvTurn, Apart, InvStore, SaveCommit
    PROVE  InvStore'
<1> DEFINE b == saver.block
           p == saver.place
<1>1. SavedNow(b, p)
  BY SaveCommitDB
<1>2. /\ saver.at = "written" /\ pe' = b /\ saver' = IdleSaver
      /\ UNCHANGED <<cache, known, file, roller, status, cut, halfway>>
  BY DEF SaveCommit
<1>3. roller.at = "idle" /\ saver'.at = "idle"
  BY <1>2, SaveCommitType, IdleType
<1>4. /\ b \in Block /\ p \in Place /\ b \notin Stored /\ Height[b] = db.height + 1
      /\ Height[b] \in Heights /\ db'.height = Height[b] /\ db'.index[b] = p
      /\ db'.hash[Height[b]] = b
  BY <1>1, DBFacts DEF SavedNow
<1>5. /\ Stored' = Stored \cup {b} /\ InvChain' /\ LastHash(db)' = b
      /\ \A d \in Stored : d # b /\ db'.index[d] = db.index[d] /\ Height[d] < Height[b]
                           /\ Height[d] \in Heights
      /\ \A h \in Heights : h <= db.height => db'.hash[h] = db.hash[h]
  BY <1>1, SavedChain DEF InvStore
<1>6. InvFiles' /\ InvTx'
  BY <1>1, SavedFiles, SavedTx DEF InvStore
<1>7. InvCache'
  <2>1. ASSUME NEW h \in Heights, cache'[h] # NoEntry, h <= db'.height
        PROVE  cache'[h] = [block |-> db'.hash[h], place |-> db'.index[db'.hash[h]]]
    <3>1. CASE h = Height[b]
      BY <1>2, <1>4, <3>1 DEF InvStore, InvCache
    <3>2. CASE h # Height[b]
      <4>1. h <= db.height
        BY <1>4, <2>1, <3>2, DBFacts DEF Heights
      <4>2. db.hash[h] \in Stored /\ db'.hash[h] = db.hash[h]
        BY <1>5, <4>1 DEF InvStore, InvChain
      <4>3. cache[h] = [block |-> db.hash[h], place |-> db.index[db.hash[h]]]
        BY <1>2, <2>1, <4>1 DEF InvStore, InvCache
      <4> QED
        BY <1>2, <1>5, <4>2, <4>3
    <3> QED
      BY <3>1, <3>2
  <2> QED
    BY <1>3, <2>1 DEF InvCache
<1>8. InvBytes'
  <2>1. ASSUME NEW d \in Stored' PROVE Height[d] \in cut' \/ Intact(d, db.index[d])'
    <3>1. CASE d = b
      BY <1>2, <1>4, <3>1 DEF InvStore, InvSaver, Intact
    <3>2. CASE d \in Stored
      BY <1>2, <1>3, <1>5, <3>2 DEF InvStore, InvBytes, Intact
    <3> QED
      BY <1>5, <3>1, <3>2
  <2>2. ASSUME NEW d \in Stored', NEW x \in Stored', Height[d] < Height[x],
               db'.index[d].no = db'.index[x].no, Height[d] \notin cut'
        PROVE  db'.index[d].pos + Size[d] <= db'.index[x].pos
    <3>1. CASE d \in Stored /\ x \in Stored
      BY <1>2, <1>5, <2>2, <3>1 DEF InvStore, InvBytes
    <3>2. CASE d \in Stored /\ x = b
      BY <1>2, <1>4, <1>5, <2>2, <3>2 DEF InvStore, InvSaver
    <3>3. CASE d = b
      <4>1. Height[x] \in Nat /\ Height[b] \in Nat /\ Height[x] <= Height[b]
        BY <1>4, <1>5, DBFacts, SizeType
      <4> QED
        BY <2>2, <3>3, <4>1
    <3> QED
      BY <1>5, <3>1, <3>2, <3>3
  <2> QED
    BY <2>1, <2>2 DEF InvBytes
<1>9. InvStatus' /\ InvSaver' /\ InvRoller'
  BY <1>2, <1>3, <1>5 DEF InvStatus, InvSaver, InvRoller
<1> QED
  BY <1>5, <1>6, <1>7, <1>8, <1>9 DEF InvStore

-----------------------------------------------------------------------------
(* The steps of the synchroniser.                                            *)

LEMMA RollBeginStore ==
    ASSUME TypeOK, InvTurn, Apart, InvStore, RollBegin
    PROVE  InvStore'
<1>1. /\ saver.at = "idle" /\ roller'.at = "next" /\ roller'.loop = db.height /\ pe \in Block
      /\ roller.at = "idle"
      /\ UNCHANGED <<db, batch, cache, known, file, pe, saver, status, cut, halfway, faults>>
  BY RollBeginType DEF RollBegin
<1>2. InvChain' /\ InvFiles' /\ InvTx'
  BY <1>1, FrameDB DEF InvStore
<1>3. InvCache'
  BY <1>1, FrameCache DEF InvStore
<1>4. InvBytes'
  BY <1>1, FrameBytes, FrameIntact DEF InvStore
<1>5. InvStatus' /\ InvSaver' /\ InvRoller'
  BY <1>1 DEF InvStatus, InvSaver, InvRoller
<1> QED
  BY <1>2, <1>3, <1>4, <1>5 DEF InvStore

LEMMA RollReadStore ==
    ASSUME TypeOK, InvTurn, Apart, InvStore, RollRead, ~halfway'
    PROVE  InvStore'
<1> DEFINE h == roller.loop
<1>1. /\ saver.at = "idle" /\ roller.at = "next" /\ h \in Heights
      /\ UNCHANGED <<db, cache, known, file, pe, saver, status, cut>>
      /\ \/ /\ ReadableAt(h) /\ roller'.at = "begun" /\ roller'.block = db.hash[h]
            /\ roller'.entry = IndexAt(h) /\ roller'.txs = db.txs /\ roller'.loop = h
         \/ roller'.at = "idle" /\ StoppedHalfway
  BY RollReadType
<1>2. h = db.height /\ pe \in Block
  BY <1>1 DEF InvStore, InvStatus
<1>3. InvChain' /\ InvFiles' /\ InvTx' /\ LastHash(db)' = LastHash(db)
  BY <1>1, FrameDB DEF InvStore
<1>4. InvCache'
  BY <1>1, FrameCache DEF InvStore
<1>5. InvBytes'
  BY <1>1, FrameBytes, FrameIntact DEF InvStore
<1>6. InvSaver'
  BY <1>1 DEF InvSaver
<1>7. InvStatus'
  <2>1. ASSUME StoppedHalfway PROVE pe = LastHash(db)
    BY <2>1 DEF StoppedHalfway
  <2> QED
    BY <1>1, <1>2, <1>3, <2>1 DEF InvStatus
<1>8. InvRoller'
  <2>1. CASE roller'.at = "idle"
    BY <2>1 DEF InvRoller
  <2>2. CASE roller'.at # "idle"
    <3>1. /\ ReadableAt(h) /\ roller'.at = "begun" /\ roller'.block = db.hash[h]
          /\ roller'.entry = IndexAt(h) /\ roller'.txs = db.txs /\ roller'.loop = h
      BY <1>1, <2>2
    <3>2. h \in 1 .. db.height /\ db.hash[h] \in Stored
      BY <1>1, <1>2, DBFacts DEF InvStore, InvChain, Heights
    <3>3. IndexAt(h) = [block |-> db.hash[h], place |-> db.index[db.hash[h]]]
      BY <3>2, Lookup DEF InvStore
    <3>4. Intact(db.hash[h], db.index[db.hash[h]])
      BY <3>1, <3>2, StoredReadable DEF InvStore, ReadableAt
    <3>5. roller'.entry.place = db.index[roller'.block]
      BY <3>1, <3>3
    <3>6. Intact(roller.block, roller.entry.place)'
      BY <1>1, <3>1, <3>4, <3>5 DEF Intact
    <3> QED
      BY <1>1, <3>1, <3>3, <3>6 DEF InvRoller
  <2> QED
    BY <2>1, <2>2
<1> QED
  BY <1>3, <1>4, <1>5, <1>6, <1>7, <1>8 DEF InvStore

LEMMA RollPutStore ==
    ASSUME TypeOK, InvTurn, Apart, InvStore, RollPut
    PROVE  InvStore'
<1>1. /\ saver.at = "idle" /\ roller.at = "begun"
      /\ roller'.at = "put" /\ roller'.block = roller.block /\ roller'.entry = roller.entry
      /\ roller'.loop = roller.loop /\ roller'.txs = roller.txs
      /\ UNCHANGED <<db, cache, known, file, pe, saver, status, cut, halfway>>
  BY RollPutType
<1>2. InvChain' /\ InvFiles' /\ InvTx'
  BY <1>1, FrameDB DEF InvStore
<1>3. InvCache'
  BY <1>1, FrameCache DEF InvStore
<1>4. InvBytes'
  BY <1>1, FrameBytes, FrameIntact DEF InvStore
<1>5. InvStatus' /\ InvSaver'
  BY <1>1 DEF InvStore, InvStatus, InvSaver
<1>6. InvRoller'
  BY <1>1 DEF InvStore, InvRoller, Intact
<1> QED
  BY <1>2, <1>3, <1>4, <1>5, <1>6 DEF InvStore

\* Cutting the last block off a file leaves the blocks before it.
LEMMA ShrinkIntact ==
    ASSUME TypeOK, NEW no \in Files, NEW n \in Nat, n <= Len(file[no]),
           file' = [file EXCEPT ![no] = SubSeq(@, 1, n)],
           NEW b \in Block, NEW p \in Place, Intact(b, p), p.no = no => p.pos + Size[b] <= n
    PROVE  Intact(b, p)'
<1>1. /\ p.no \in Files /\ p.pos \in Nat /\ Size[b] \in Nat
      /\ file[no] \in Seq(Cell) /\ file \in [Files -> Seq(Cell)]
  BY SizeType DEF TypeOK, Place
<1>2. CASE p.no # no
  BY <1>1, <1>2 DEF Intact
<1>3. CASE p.no = no
  <2> DEFINE f == file[no]
             e == SubSeq(f, 1, n)
  <2>1. file'[no] = e /\ f \in Seq(Cell) /\ n <= Len(f)
    BY <1>1
  <2>2. p.pos + Size[b] <= n /\ \A i \in 1 .. Size[b] : f[p.pos + i] = <<b, i>>
    BY <1>3 DEF Intact
  <2> HIDE DEF f
  <2>3. Len(e) = n /\ \A i \in 1 .. n : e[i] = f[i]
    BY <2>1
  <2> HIDE DEF e
  <2>4. ASSUME NEW i \in 1 .. Size[b] PROVE e[p.pos + i] = <<b, i>>
    <3>1. p.pos + i \in 1 .. n
      BY <1>1, <2>2
    <3> QED
      BY <2>2, <2>3, <3>1
  <2> QED
    BY <1>3, <2>1, <2>2, <2>3, <2>4 DEF Intact
<1> QED
  BY <1>2, <1>3

\* A rollback is at the last block.
LEMMA RollerAtTop ==
    ASSUME TypeOK, InvTurn, InvStore, roller.at \notin {"idle", "next"}
    PROVE  /\ roller.block \in Stored /\ roller.block \in Block
           /\ Height[roller.block] = db.height
           /\ roller.loop = db.height /\ db.height \in Heights /\ db.hash[db.height] = roller.block
           /\ roller.entry = [block |-> roller.block, place |-> db.index[roller.block]]
           /\ db.index[roller.block] \in Place /\ roller.txs = db.txs
           /\ \A b \in Stored : b # roller.block =>
                /\ Height[b] < db.height /\ Height[b] \in Heights /\ b \in Block
<1>1. roller.loop = db.height /\ roller.loop \in Heights
  BY DEF InvStore, InvStatus, InvTurn
<1>2. /\ roller.block = db.hash[db.height] /\ roller.txs = db.txs
      /\ roller.entry = [block |-> roller.block, place |-> db.index[roller.block]]
  BY <1>1 DEF InvStore, InvRoller
<1>3. roller.block \in Stored /\ Height[roller.block] = db.height
  BY <1>1, <1>2, DBFacts DEF InvStore, InvChain
<1>4. roller.block \in Block /\ db.index[roller.block] \in Place
  BY <1>3, DBFacts
<1>5. ASSUME NEW b \in Stored, b # roller.block
      PROVE  Height[b] < db.height /\ Height[b] \in Heights /\ b \in Block
  <2>1. b \in Block /\ Height[b] \in Nat /\ Height[b] \in Heights /\ db.height \in Nat
    BY DBFacts, SizeType
  <2>2. Height[b] <= db.height /\ db.hash[Height[b]] = b
    BY DEF InvStore, InvChain
  <2>3. Height[b] # db.height
    BY <1>2, <1>5, <2>2
  <2> QED
    BY <2>1, <2>2, <2>3
<1> QED
  BY <1>1, <1>2, <1>3, <1>4, <1>5

LEMMA RollTruncateStore ==
    ASSUME TypeOK, InvTurn, Apart, InvStore, RollTruncate, ~halfway'
    PROVE  InvStore'
<1> DEFINE b == roller.block
           p == roller.entry.place
           n == Len(file[p.no]) - Size[b]
<1>1. /\ saver.at = "idle" /\ roller.at = "put"
      /\ UNCHANGED <<db, cache, known, pe, saver, status, cut>>
  BY RollTruncateType
<1>2. /\ b \in Stored /\ b \in Block /\ Height[b] = db.height /\ roller.loop = db.height
      /\ db.height \in Heights
      /\ roller.entry = [block |-> b, place |-> db.index[b]] /\ p \in Place
      /\ roller.entry.block = b /\ p = db.index[b]
      /\ \A d \in Stored : d # b => Height[d] < db.height /\ Height[d] \in Heights /\ d \in Block
  BY <1>1, RollerAtTop
<1>3. Intact(b, p) /\ p.no \in Files /\ p.pos \in Nat /\ Size[b] \in Nat
      /\ file[p.no] \in Seq(Cell) /\ Len(file[p.no]) \in Nat
  BY <1>1, <1>2, SizeType DEF InvStore, InvRoller, Place, TypeOK
<1>4. n \in Nat /\ n <= Len(file[p.no]) /\ p.pos <= n
  <2> DEFINE l == Len(file[p.no])
             q == p.pos
             s == Size[b]
  <2>1. q + s <= l /\ q \in Nat /\ s \in Nat /\ l \in Nat
    BY <1>3 DEF Intact
  <2> HIDE DEF l, q, s
  <2>2. l - s \in Nat /\ l - s <= l /\ q <= l - s
    BY <2>1
  <2> QED
    BY <2>2 DEF l, q, s
<1>5. /\ file' = [file EXCEPT ![p.no] = SubSeq(@, 1, n)] /\ halfway' = halfway
      /\ roller'.at = "cut" /\ roller'.block = b /\ roller'.entry = roller.entry
      /\ roller'.loop = roller.loop /\ roller'.txs = roller.txs
  <2>1. ~(n < 0)
    BY <1>4
  <2> QED
    BY <1>2, <2>1, RollTruncateType
<1>6. InvChain' /\ InvFiles' /\ InvTx' /\ Stored' = Stored
  BY <1>1, FrameDB DEF InvStore
<1>7. InvCache'
  BY <1>1, FrameCache DEF InvStore
<1>8. InvBytes'
  <2>1. ASSUME NEW d \in Stored
        PROVE  Height[d] \in cut \/ d = b \/ Intact(d, db.index[d])'
    <3> SUFFICES ASSUME Height[d] \notin cut, d # b PROVE Intact(d, db.index[d])'
      OBVIOUS
    <3> DEFINE q == db.index[d]
    <3>1. d \in Block /\ q \in Place /\ q' = q /\ Height[d] < Height[b]
      BY <1>1, <1>2, DBFacts
    <3>2. Intact(d, q)
      BY <1>1 DEF InvStore, InvBytes
    <3>3. q.no = p.no => q.pos + Size[d] <= p.pos
      BY <1>2, <3>1 DEF InvStore, InvBytes
    <3>4. q.no = p.no => q.pos + Size[d] <= n
      <4>1. q.pos \in Nat /\ Size[d] \in Nat
        BY <3>1, SizeType DEF Place
      <4> HIDE DEF n, q
      <4> QED
        BY <1>3, <1>4, <3>3, <4>1
    <3> HIDE DEF n, q
    <3>5. Intact(d, q)'
      <4>1. ASSUME NEW r \in Place, Intact(d, r), r.no = p.no => r.pos + Size[d] <= n
            PROVE  Intact(d, r)'
        BY <1>3, <1>4, <1>5, <3>1, <4>1, ShrinkIntact
      <4> QED
        BY <3>1, <3>2, <3>4, <4>1 DEF Intact
    <3> QED
      BY <3>5 DEF q
  <2>2. \A d, x \in Stored :
          Height[d] < Height[x] /\ db.index[d].no = db.index[x].no /\ Height[d] \notin cut
            => db.index[d].pos + Size[d] <= db.index[x].pos
    BY DEF InvStore, InvBytes
  <2> QED
    BY <1>1, <1>5, <1>6, <2>1, <2>2 DEF InvBytes
<1>9. InvStatus' /\ InvSaver'
  BY <1>1, <1>5 DEF InvStore, InvStatus, InvSaver
<1>10. InvRoller'
  BY <1>1, <1>5 DEF InvStore, InvRoller
<1> QED
  BY <1>6, <1>7, <1>8, <1>9, <1>10 DEF InvStore

\* What RollCommit finds and what it does to the database.
UndoneNow(b) ==
    /\ b \in Block /\ b \in Stored /\ Height[b] = db.height /\ db.height \in Heights
    /\ db.hash[db.height] = b
    /\ \A d \in Stored : d # b => Height[d] < db.height /\ Height[d] \in Heights /\ d \in Block
    /\ LET no == db.index[b].no
           opened == db.first[no] = Height[b]
       IN /\ db'.maxFile = IF ~opened THEN db.maxFile ELSE IF no = 0 THEN 0 ELSE no - 1
          /\ db'.first = [db.first EXCEPT ![no] = IF opened THEN 0 ELSE @]
    /\ db'.height = db.height - 1 /\ db'.txs = db.txs - Cardinality(Txs[b])
    /\ db'.hash = [db.hash EXCEPT ![db.height] = NoHash]
    /\ db'.index = [db.index EXCEPT ![b] = NoPlace]
    /\ db'.tx = [t \in Tx |-> IF t \in Txs[b] THEN NoHash ELSE db.tx[t]]

LEMMA RollCommitDB ==
    ASSUME TypeOK, InvTurn, Apart, InvStore, RollCommit
    PROVE  UndoneNow(roller.block)
<1> DEFINE b == roller.block
           no == roller.entry.place.no
           opened == db.first[no] = Height[roller.entry.block]
<1>1. /\ roller.at = "cut" /\ db' = Apply(db, Undo(roller)) /\ db \in DBType
      /\ roller \in RollerType /\ b \in Block /\ roller.entry \in Entry
  BY RollCommitType
<1>2. /\ b \in Stored /\ Height[b] = db.height /\ db.height \in Heights
      /\ db.hash[db.height] = b
      /\ roller.entry = [block |-> b, place |-> db.index[b]]
      /\ roller.txs = db.txs
      /\ \A d \in Stored : d # b => Height[d] < db.height /\ Height[d] \in Heights /\ d \in Block
  BY <1>1, RollerAtTop
<1>3. /\ db'.height = Height[b] - 1
      /\ db'.txs = roller.txs - Cardinality(Txs[roller.entry.block])
      /\ db'.maxFile = IF ~opened THEN db.maxFile ELSE IF no = 0 THEN 0 ELSE no - 1
      /\ db'.first = [db.first EXCEPT ![no] = IF opened THEN 0 ELSE @]
      /\ db'.hash = [db.hash EXCEPT ![Height[b]] = NoHash]
      /\ db'.index = [db.index EXCEPT ![b] = NoPlace]
      /\ db'.tx = [t \in Tx |-> IF t \in Txs[roller.entry.block] THEN NoHash ELSE db.tx[t]]
  BY <1>1, UndoneParts
<1>4. no = db.index[b].no /\ roller.entry.block = b
  BY <1>2
<1> QED
  BY <1>1, <1>2, <1>3, <1>4 DEF UndoneNow

LEMMA UndoneChain ==
    ASSUME TypeOK, InvChain, NEW b, UndoneNow(b)
    PROVE  /\ Stored' = Stored \ {b} /\ InvChain'
           /\ \A d \in Stored' : db'.index[d] = db.index[d]
           /\ \A h \in Heights : h <= db'.height =>
                /\ h <= db.height /\ h # db.height /\ db'.hash[h] = db.hash[h]
                /\ db.hash[h] \in Stored'
<1>1. /\ b \in Block /\ b \in Stored /\ Height[b] = db.height /\ db.height \in Heights
      /\ db.hash[db.height] = b
      /\ \A d \in Stored : d # b => Height[d] < db.height /\ Height[d] \in Heights /\ d \in Block
      /\ db'.height = db.height - 1
      /\ db'.hash = [db.hash EXCEPT ![db.height] = NoHash]
      /\ db'.index = [db.index EXCEPT ![b] = NoPlace]
  BY DEF UndoneNow
<1>2. Stored' = Stored \ {b}
  BY <1>1, DBFacts DEF Stored
<1>3. \A d \in Stored' : db'.index[d] = db.index[d]
  BY <1>1, <1>2, DBFacts
<1>4. \A h \in Heights : db'.hash[h] = IF h = db.height THEN NoHash ELSE db.hash[h]
  BY <1>1, DBFacts
<1>5. db.height \in Nat /\ \A h \in Heights : h \in Nat
  BY DBFacts DEF Heights
<1>6. ASSUME NEW h \in Heights, h <= db'.height
      PROVE  /\ h <= db.height /\ h # db.height /\ db'.hash[h] = db.hash[h]
             /\ db.hash[h] \in Stored' /\ Height[db.hash[h]] = h
  <2>1. h <= db.height /\ h # db.height
    BY <1>1, <1>5, <1>6
  <2>2. db.hash[h] \in Stored /\ Height[db.hash[h]] = h
    BY <2>1 DEF InvChain
  <2> QED
    BY <1>1, <1>2, <1>4, <2>1, <2>2
<1>7. InvChain'
  <2>1. ASSUME NEW d \in Stored' PROVE Height[d] <= db'.height /\ db'.hash[Height[d]] = d
    <3>1. d \in Stored /\ d # b /\ Height[d] < db.height /\ Height[d] \in Heights
      BY <1>1, <1>2
    <3>2. Height[d] <= db'.height
      BY <1>1, <1>5, <3>1
    <3>3. db'.hash[Height[d]] = db.hash[Height[d]]
      BY <1>4, <1>5, <3>1
    <3> QED
      BY <3>1, <3>2, <3>3 DEF InvChain
  <2>2. ASSUME NEW h \in Heights, h > db'.height PROVE db'.hash[h] = NoHash
    <3>1. h = db.height \/ h > db.height
      BY <1>1, <1>5, <2>2
    <3> QED
      BY <1>4, <3>1 DEF InvChain
  <2>3. ASSUME NEW d \in Stored' PROVE Parent[d] # NoHash => Parent[d] \in Stored'
    <3>1. d \in Stored /\ d \in Block /\ Height[d] < db.height
      BY <1>1, <1>2
    <3>2. Parent[d] # NoHash => Parent[d] \in Stored /\ Height[d] = Height[Parent[d]] + 1
      BY <3>1, HeightOfChild DEF InvChain
    <3>3. Parent[d] # NoHash => Parent[d] # b
      <4>1. Height[d] \in Nat
        BY <3>1, SizeType
      <4> QED
        BY <1>1, <1>5, <3>1, <3>2, <4>1
    <3> QED
      BY <1>2, <3>2, <3>3
  <2>4. Cardinality(Stored') = db'.height
    <3>1. IsFiniteSet(Stored)
      BY DBFacts, StoreAssumption, FS_Subset
    <3>2. Cardinality(Stored \ {b}) = Cardinality(Stored) - 1
      BY <1>1, <3>1, FS_RemoveElement
    <3> QED
      BY <1>1, <1>2, <3>2 DEF InvChain
  <2> QED
    BY <1>6, <2>1, <2>2, <2>3, <2>4 DEF InvChain
<1> QED
  BY <1>2, <1>3, <1>6, <1>7

LEMMA UndoneFiles ==
    ASSUME TypeOK, InvChain, InvFiles, NEW b, UndoneNow(b)
    PROVE  InvFiles'
<1> DEFINE no == db.index[b].no
           opened == db.first[no] = Height[b]
<1>1. /\ b \in Block /\ b \in Stored /\ Height[b] = db.height /\ db.height \in Heights
      /\ db.hash[db.height] = b /\ db'.height = db.height - 1
      /\ \A d \in Stored : d # b => Height[d] < db.height /\ Height[d] \in Heights /\ d \in Block
      /\ db'.maxFile = IF ~opened THEN db.maxFile ELSE IF no = 0 THEN 0 ELSE no - 1
      /\ db'.first = [db.first EXCEPT ![no] = IF opened THEN 0 ELSE @]
  BY DEF UndoneNow
<1>2. /\ Stored' = Stored \ {b}
      /\ \A d \in Stored' : db'.index[d] = db.index[d]
      /\ \A h \in Heights : h <= db'.height =>
           h <= db.height /\ db'.hash[h] = db.hash[h] /\ db.hash[h] \in Stored'
  BY UndoneChain
<1>3. \A d \in Stored : db.index[d].no \in Files /\ db.index[d].no \in Nat /\ Height[d] \in Nat
  <2>1. \A d \in Stored : db.index[d] \in Place /\ Height[d] \in Nat
    BY DBFacts, SizeType
  <2> QED
    BY <2>1 DEF Place, Files
<1>4. /\ no \in Files /\ no \in Nat /\ db.height \in Nat
      /\ \A f \in Files : db.first[f] \in Nat /\ db.first[f] \in 0 .. MaxHeight
      /\ \A f \in Files : db'.first[f] = IF f = no /\ opened THEN 0 ELSE db.first[f]
  <2>1. no \in Files /\ no \in Nat
    BY <1>1, <1>3
  <2>2. db.height \in Nat /\ \A f \in Files : db.first[f] \in Nat /\ db.first[f] \in 0 .. MaxHeight
    BY DBFacts
  <2>3. \A f \in Files : db'.first[f] = IF f = no /\ opened THEN 0 ELSE db.first[f]
    BY <1>1, <2>1, DBFacts
  <2> QED
    BY <2>1, <2>2, <2>3
<1>5. opened => \A d \in Stored' : db.index[d].no < no
  <2> SUFFICES ASSUME opened, NEW d \in Stored' PROVE db.index[d].no < no
    OBVIOUS
  <2>1. d \in Stored /\ d # b /\ Height[d] < Height[b]
    BY <1>1, <1>2
  <2>2. db.index[d].no <= no
    BY <1>1, <1>3, <2>1 DEF InvFiles
  <2>3. db.index[d].no # no
    <3>1. db.first[db.index[d].no] <= Height[d]
      BY <2>1 DEF InvFiles
    <3> QED
      BY <1>1, <1>3, <2>1, <3>1
  <2> QED
    BY <1>3, <1>4, <2>1, <2>2, <2>3
<1>6. \A d \in Stored' : db.index[d].no <= db'.maxFile
  <2>1. CASE opened
    BY <1>1, <1>2, <1>3, <1>4, <1>5, <2>1
  <2>2. CASE ~opened
    BY <1>1, <1>2, <2>2 DEF InvFiles
  <2> QED
    BY <2>1, <2>2
<1>7. ASSUME NEW d \in Stored'
      PROVE  db'.index[d].no <= db'.maxFile /\ db'.first[db'.index[d].no] <= Height[d]
  <2> DEFINE f == db.index[d].no
  <2>1. d \in Stored /\ f \in Files /\ db.first[f] <= Height[d] /\ db'.index[d].no = f
        /\ f <= db'.maxFile /\ Height[d] \in Nat /\ (f = no => ~opened)
    <3>1. d \in Stored
      BY <1>2
    <3>2. f \in Files /\ f \in Nat /\ Height[d] \in Nat
      BY <1>3, <3>1
    <3>3. f = no => ~opened
      BY <1>4, <1>5, <3>2
    <3>4. db.first[f] <= Height[d]
      BY <3>1 DEF InvFiles
    <3> QED
      BY <1>2, <1>6, <3>1, <3>2, <3>3, <3>4
  <2> HIDE DEF f, no, opened
  <2>2. db'.first[f] = db.first[f]
    BY <1>4, <2>1
  <2> QED
    BY <2>1, <2>2
<1>8. ASSUME NEW d \in Stored', NEW x \in Stored', Height[d] <= Height[x]
      PROVE  db'.index[d].no <= db'.index[x].no
  BY <1>2, <1>8 DEF InvFiles
<1>9. ASSUME NEW f \in Files, db'.first[f] > 0
      PROVE  db'.first[f] <= db'.height /\ db'.index[db'.hash[db'.first[f]]].no = f
  <2>1. db'.first[f] = db.first[f] /\ ~(f = no /\ opened)
    BY <1>4, <1>9
  <2>2. db.first[f] > 0 /\ db.first[f] <= db.height /\ db.index[db.hash[db.first[f]]].no = f
    BY <1>9, <2>1 DEF InvFiles
  <2>3. db.first[f] # db.height
    <3>1. db.first[f] = db.height => f = no /\ db.first[no] = Height[b]
      BY <1>1, <2>2
    <3> QED
      BY <2>1, <3>1
  <2>4. db.first[f] \in Heights /\ db.first[f] <= db'.height
    BY <1>1, <1>4, <2>2, <2>3 DEF Heights
  <2>5. db'.hash[db.first[f]] = db.hash[db.first[f]] /\ db.hash[db.first[f]] \in Stored'
    BY <1>2, <2>4
  <2> QED
    BY <1>2, <2>1, <2>2, <2>4, <2>5
<1> QED
  BY <1>7, <1>8, <1>9 DEF InvFiles

LEMMA UndoneTx ==
    ASSUME TypeOK, InvChain, InvTx, NEW b, UndoneNow(b)
    PROVE  InvTx'
<1> DEFINE T == {t \in Tx : db.tx[t] # NoHash}
<1>1. /\ b \in Block /\ b \in Stored /\ db'.txs = db.txs - Cardinality(Txs[b])
      /\ db'.tx = [t \in Tx |-> IF t \in Txs[b] THEN NoHash ELSE db.tx[t]]
  BY DEF UndoneNow
<1>2. Stored' = Stored \ {b} /\ b # NoHash
  BY <1>1, UndoneChain, StoreAssumption
<1>3. \A t \in Tx : db'.tx[t] = IF t \in Txs[b] THEN NoHash ELSE db.tx[t]
  BY <1>1
<1>4. ASSUME NEW t \in Tx, db'.tx[t] # NoHash PROVE db'.tx[t] \in Stored' /\ t \in Txs[db'.tx[t]]
  <2>1. t \notin Txs[b] /\ db'.tx[t] = db.tx[t]
    BY <1>3, <1>4
  <2>2. db.tx[t] \in Stored /\ t \in Txs[db.tx[t]]
    BY <1>4, <2>1 DEF InvTx
  <2> QED
    BY <1>2, <2>1, <2>2
<1>5. ASSUME NEW d \in Stored', NEW t \in Txs[d] PROVE db'.tx[t] = d
  <2>1. d \in Stored /\ d # b
    BY <1>2
  <2>2. t \in Tx /\ db.tx[t] = d
    BY <2>1, DBFacts, TxsType DEF InvTx
  <2>3. t \notin Txs[b]
    BY <1>1, <2>1, <2>2 DEF InvTx
  <2> QED
    BY <1>3, <2>2, <2>3
<1>6. db'.txs = Cardinality({t \in Tx : db'.tx[t] # NoHash})
  <2>1. Txs[b] \subseteq Tx /\ IsFiniteSet(Txs[b]) /\ Cardinality(Txs[b]) \in Nat
    BY <1>1, TxsType
  <2>2. {t \in Tx : db'.tx[t] # NoHash} = T \ Txs[b]
    BY <1>3, <2>1
  <2>3. T \cap Txs[b] = Txs[b]
    BY <1>1, <1>2, <2>1 DEF InvTx
  <2>4. IsFiniteSet(T)
    <3>1. T \in SUBSET Tx /\ IsFiniteSet(Tx)
      BY StoreAssumption
    <3> HIDE DEF T
    <3> QED
      BY <3>1, FS_Subset
  <2>5. db.txs = Cardinality(T)
    BY DEF InvTx
  <2> HIDE DEF T
  <2>6. Cardinality(T \ Txs[b]) = Cardinality(T) - Cardinality(T \cap Txs[b])
    BY <2>4, FS_Difference
  <2>7. Cardinality(T \ Txs[b]) = db'.txs
    BY <1>1, <2>3, <2>5, <2>6
  <2> QED
    BY <2>2, <2>7
<1> QED
  BY <1>4, <1>5, <1>6 DEF InvTx

LEMMA RollCommitStore ==
    ASSUME TypeOK, InvTurn, Apart, InvStore, RollCommit
    PROVE  InvStore'
<1> DEFINE b == roller.block
<1>1. UndoneNow(b)
  BY RollCommitDB
<1>2. /\ saver.at = "idle" /\ roller.at = "cut" /\ roller'.at = "next"
      /\ roller'.loop = roller.loop - 1
      /\ UNCHANGED <<cache, known, file, pe, saver, status, cut, halfway>>
  BY RollCommitType
<1>3. roller.loop = db.height /\ pe \in Block /\ db'.height = db.height - 1
  BY <1>1, <1>2 DEF InvStore, InvStatus, UndoneNow
<1>4. /\ Stored' = Stored \ {b} /\ InvChain'
      /\ \A d \in Stored' : db'.index[d] = db.index[d]
      /\ \A h \in Heights : h <= db'.height =>
           h <= db.height /\ db'.hash[h] = db.hash[h] /\ db.hash[h] \in Stored'
  BY <1>1, UndoneChain DEF InvStore
<1>5. InvFiles' /\ InvTx'
  BY <1>1, UndoneFiles, UndoneTx DEF InvStore
<1>6. InvCache'
  BY <1>2, <1>4 DEF InvStore, InvCache
<1>7. InvBytes'
  <2>1. ASSUME NEW d \in Stored' PROVE Height[d] \in cut' \/ Intact(d, db.index[d])'
    <3>1. d \in Stored /\ d # b /\ db'.index[d] = db.index[d]
      BY <1>4
    <3>2. Height[d] \in cut \/ Intact(d, db.index[d])
      BY <3>1 DEF InvStore, InvBytes
    <3> QED
      BY <1>2, <3>1, <3>2 DEF Intact
  <2>2. \A d, x \in Stored' :
          Height[d] < Height[x] /\ db'.index[d].no = db'.index[x].no /\ Height[d] \notin cut'
            => db'.index[d].pos + Size[d] <= db'.index[x].pos
    BY <1>2, <1>4 DEF InvStore, InvBytes
  <2> QED
    BY <2>1, <2>2 DEF InvBytes
<1>8. InvStatus' /\ InvSaver' /\ InvRoller'
  BY <1>2, <1>3 DEF InvStatus, InvSaver, InvRoller
<1> QED
  BY <1>4, <1>5, <1>6, <1>7, <1>8 DEF InvStore

LEMMA RollEndStore ==
    ASSUME TypeOK, InvTurn, Apart, InvStore, RollEnd
    PROVE  InvStore'
<1>1. /\ saver.at = "idle" /\ roller'.at = "idle" /\ pe' = ChainInfo
      /\ roller.at = "next"
      /\ UNCHANGED <<db, cache, known, file, saver, status, cut, halfway>>
  BY RollEndType
<1>2. pe' = LastHash(db)
  BY <1>1, Lookup DEF InvStore
<1>3. InvChain' /\ InvFiles' /\ InvTx' /\ LastHash(db)' = LastHash(db)
  BY <1>1, FrameDB DEF InvStore
<1>4. InvCache'
  BY <1>1, FrameCache DEF InvStore
<1>5. InvBytes'
  BY <1>1, FrameBytes, FrameIntact DEF InvStore
<1>6. InvStatus' /\ InvSaver' /\ InvRoller'
  BY <1>1, <1>2, <1>3 DEF InvStatus, InvSaver, InvRoller
<1> QED
  BY <1>3, <1>4, <1>5, <1>6 DEF InvStore

\* A rollback that stops after the truncation leaves a mark at the last height.
LEMMA CutMarked ==
    ASSUME TypeOK, InvTurn, InvStore, StoppedAtCut
    PROVE  cut \subseteq cut' /\ (roller.at = "cut" => Height[roller.block] \in cut')
<1>1. CASE roller.at = "cut"
  BY <1>1, RollerAtTop DEF StoppedAtCut
<1>2. CASE roller.at # "cut"
  BY <1>2 DEF StoppedAtCut
<1> QED
  BY <1>1, <1>2

LEMMA RollFailStore ==
    ASSUME TypeOK, InvTurn, Apart, InvStore, RollFail, ~halfway'
    PROVE  InvStore'
<1>1. /\ saver.at = "idle" /\ roller'.at = "idle" /\ StoppedAtCut /\ StoppedHalfway
      /\ UNCHANGED <<db, cache, known, file, pe, saver, status>>
  BY RollFailType
<1>2. pe = LastHash(db)
  BY <1>1 DEF StoppedHalfway
<1>3. InvChain' /\ InvFiles' /\ InvTx' /\ LastHash(db)' = LastHash(db)
  BY <1>1, FrameDB DEF InvStore
<1>4. InvCache'
  BY <1>1, FrameCache DEF InvStore
<1>5. InvBytes'
  BY <1>1, CutMarked, FrameBytes, FrameIntact DEF InvStore
<1>6. InvStatus' /\ InvSaver' /\ InvRoller'
  BY <1>1, <1>2, <1>3 DEF InvStatus, InvSaver, InvRoller
<1> QED
  BY <1>3, <1>4, <1>5, <1>6 DEF InvStore

\* The process stops; what is in the files stays.
LEMMA DownStore ==
    ASSUME TypeOK, InvTurn, InvStore, Down, file' \in [Files -> Seq(Cell)], faults' \in Nat,
           \A b \in Stored : Intact(b, db.index[b]) => Intact(b, db.index[b])'
    PROVE  InvStore'
<1>1. /\ saver'.at = "idle" /\ roller'.at = "idle" /\ status' = "down"
      /\ cache' = [h \in Heights |-> NoEntry] /\ UNCHANGED <<db, halfway>> /\ StoppedAtCut
  BY DownType
<1>2. InvChain' /\ InvFiles' /\ InvTx'
  BY <1>1, FrameDB DEF InvStore
<1>3. InvCache'
  BY <1>1, FrameCache DEF InvStore
<1>4. InvBytes'
  BY <1>1, CutMarked, FrameBytes DEF InvStore
<1>5. InvStatus' /\ InvSaver' /\ InvRoller'
  BY <1>1 DEF InvStatus, InvSaver, InvRoller
<1> QED
  BY <1>2, <1>3, <1>4, <1>5 DEF InvStore

LEMMA CrashStore ==
    ASSUME TypeOK, InvTurn, Apart, InvStore, Crash
    PROVE  InvStore'
<1>1. Down /\ file' \in [Files -> Seq(Cell)] /\ faults' \in Nat /\ UNCHANGED db
  BY CrashType DEF Crash, Down
<1>2. CASE UNCHANGED file
  BY <1>1, <1>2, FrameIntact, DownStore
<1>3. ASSUME saver.at = "put", NEW n \in 1 .. (Size[saver.block] - 1),
             file' = [file EXCEPT ![saver.place.no] =
                        WriteAt(@, saver.place.pos, SubSeq(Bytes(saver.block), 1, n))]
      PROVE  InvStore'
  <2>1. saver.block \in Block /\ saver.place \in Place
    BY <1>3 DEF InvTurn
  <2>2. /\ saver.place.no \in Files /\ saver.place.pos = Len(file[saver.place.no])
        /\ Bytes(saver.block) \in Seq(Cell)
        /\ Len(Bytes(saver.block)) = Size[saver.block] /\ Size[saver.block] \in Nat
    BY <1>3, <2>1, SizeType DEF Place, InvStore, InvSaver
  <2> DEFINE s == Bytes(saver.block)
             c == SubSeq(s, 1, n)
  <2>3. c \in Seq(Cell)
    <3>1. s \in Seq(Cell) /\ n \in Nat /\ n <= Len(s)
      BY <2>2
    <3> HIDE DEF s
    <3> QED
      BY <3>1
  <2>4. file' = [file EXCEPT ![saver.place.no] = WriteAt(@, Len(file[saver.place.no]), c)]
    BY <1>3, <2>2
  <2> HIDE DEF c
  <2>5. ASSUME NEW b \in Stored, Intact(b, db.index[b]) PROVE Intact(b, db.index[b])'
    <3> DEFINE q == db.index[b]
    <3>1. b \in Block /\ q \in Place /\ q' = q /\ Intact(b, q)
      BY <1>1, <2>5, DBFacts
    <3>2. ASSUME NEW r \in Place, Intact(b, r) PROVE Intact(b, r)'
      BY <2>2, <2>3, <2>4, <3>1, <3>2, GrowIntact
    <3> HIDE DEF q
    <3>3. Intact(b, q)'
      BY <3>1, <3>2 DEF Intact
    <3> QED
      BY <3>3 DEF q
  <2> QED
    BY <1>1, <2>5, DownStore
<1> QED
  BY <1>2, <1>3 DEF Crash

LEMMA OverflowStore ==
    ASSUME TypeOK, InvTurn, Apart, InvStore, Overflow
    PROVE  InvStore'
<1>1. Down /\ UNCHANGED <<db, file>> /\ file' \in [Files -> Seq(Cell)] /\ faults' \in Nat
  BY DEF Overflow, Down, TypeOK
<1> QED
  BY <1>1, FrameIntact, DownStore

LEMMA StartStore ==
    ASSUME TypeOK, InvTurn, Apart, InvStore, Start
    PROVE  InvStore'
<1>1. /\ (status' = "up" => pe' = ChainInfo) /\ saver.at = "idle" /\ roller.at = "idle"
      /\ UNCHANGED <<db, cache, known, file, saver, roller, cut, halfway>>
  BY StartType
<1>2. ChainInfo = LastHash(db)
  BY Lookup DEF InvStore
<1>3. InvChain' /\ InvFiles' /\ InvTx' /\ LastHash(db)' = LastHash(db)
  BY <1>1, FrameDB DEF InvStore
<1>4. InvCache'
  BY <1>1, FrameCache DEF InvStore
<1>5. InvBytes'
  BY <1>1, FrameBytes, FrameIntact DEF InvStore
<1>6. InvStatus' /\ InvSaver' /\ InvRoller'
  BY <1>1, <1>2, <1>3 DEF InvStatus, InvSaver, InvRoller
<1> QED
  BY <1>3, <1>4, <1>5, <1>6 DEF InvStore

-----------------------------------------------------------------------------
(* The invariant.                                                            *)

LEMMA InitHolds ==
    ASSUME Init, Apart
    PROVE  IInv
<1>1. /\ 0 \in 0 .. MaxHeight /\ 0 \in Files /\ 0 \in Int /\ MaxHeight \in Nat
      /\ NoValue \in Value
  BY StoreAssumption DEF Files
<1>2. /\ db.height = 0 /\ db.maxFile = 0 /\ db.txs = 0
      /\ \A f \in Files : db.first[f] = 0
      /\ \A h \in Heights : db.hash[h] = NoHash
      /\ \A b \in Block : db.index[b] = NoPlace
      /\ \A t \in Tx : db.tx[t] = NoHash
  BY DEF Init, EmptyDB
<1>3. TypeOK
  <2>1. db \in DBType
    BY <1>1 DEF Init, EmptyDB, DBType
  <2>2. cache \in [Heights -> {NoEntry} \cup Entry] /\ known \subseteq Block
    BY DEF Init
  <2>3. file \in [Files -> Seq(Cell)]
    <3>1. <<>> \in Seq(Cell)
      OBVIOUS
    <3> QED
      BY <3>1 DEF Init
  <2>4. batch.open \in BOOLEAN /\ Len(batch.updates) <= 2
    BY BatchType DEF Init
  <2>5. /\ pe \in Block \cup {NoHash} /\ saver \in SaverType /\ roller \in RollerType
        /\ status \in {"up", "down", "refused"} /\ cut \subseteq Heights /\ halfway \in BOOLEAN
        /\ rollbacks \in Nat /\ faults \in Nat
    BY IdleType DEF Init
  <2> QED
    BY <2>1, <2>2, <2>3, <2>4, <2>5 DEF TypeOK
<1>4. InvTurn
  BY IdleType DEF Init, InvTurn
<1>5. Stored = {}
  BY <1>2 DEF Stored
<1>6. InvChain
  <2>1. \A h \in Heights : h \in Nat /\ 0 < h
    BY DEF Heights
  <2>2. Cardinality(Stored) = 0
    BY <1>5, FS_EmptySet
  <2> QED
    BY <1>2, <1>5, <2>1, <2>2 DEF InvChain
<1>7. InvFiles
  BY <1>2, <1>5 DEF InvFiles
<1>8. InvTx
  <2>1. {t \in Tx : db.tx[t] # NoHash} = {}
    BY <1>2
  <2>2. Cardinality({t \in Tx : db.tx[t] # NoHash}) = 0
    BY <2>1, FS_EmptySet
  <2> QED
    BY <1>2, <1>5, <2>2 DEF InvTx
<1>9. InvCache /\ InvBytes /\ InvStatus /\ InvSaver /\ InvRoller
  <2>1. LastHash(db) = NoHash
    BY <1>2 DEF LastHash
  <2>2. saver.at = "idle" /\ roller.at = "idle" /\ pe = NoHash
        /\ \A h \in Heights : cache[h] = NoEntry
    BY IdleType DEF Init
  <2> QED
    BY <1>5, <2>1, <2>2 DEF InvCache, InvBytes, InvStatus, InvSaver, InvRoller
<1> QED
  BY <1>3, <1>4, <1>6, <1>7, <1>8, <1>9 DEF IInv, InvStore

LEMMA StepHolds ==
    ASSUME IInv, Apart, [Next]_vars
    PROVE  IInv'
<1> USE DEF IInv
<1>1. ASSUME NEW b \in Block, SaveBegin(b) PROVE IInv'
  <2>1. halfway' = halfway
    BY <1>1 DEF SaveBegin
  <2> QED
    BY <1>1, <2>1, SaveBeginType, SaveBeginStore
<1>2. CASE SavePut
  <2>1. halfway' = halfway
    BY <1>2 DEF SavePut
  <2> QED
    BY <1>2, <2>1, SavePutType, SavePutStore
<1>3. CASE SaveWrite
  <2>1. halfway' = halfway
    BY <1>3 DEF SaveWrite
  <2> QED
    BY <1>3, <2>1, SaveWriteType, SaveWriteStore
<1>4. CASE SaveCommit
  <2>1. halfway' = halfway
    BY <1>4 DEF SaveCommit
  <2> QED
    BY <1>4, <2>1, SaveCommitType, SaveCommitStore
<1>5. CASE SaveFail
  <2>1. halfway' = halfway
    BY <1>5 DEF SaveFail
  <2> QED
    BY <1>5, <2>1, SaveFailType, SaveFailStore
<1>6. CASE RollBegin
  <2>1. halfway' = halfway
    BY <1>6 DEF RollBegin
  <2> QED
    BY <1>6, <2>1, RollBeginType, RollBeginStore
<1>7. CASE RollRead
  <2>1. halfway => halfway'
    BY <1>7 DEF RollRead, StoppedHalfway
  <2> QED
    BY <1>7, <2>1, RollReadType, RollReadStore
<1>8. CASE RollPut
  <2>1. halfway' = halfway
    BY <1>8 DEF RollPut
  <2> QED
    BY <1>8, <2>1, RollPutType, RollPutStore
<1>9. CASE RollTruncate
  <2>1. halfway => halfway'
    BY <1>9 DEF RollTruncate, StoppedHalfway
  <2> QED
    BY <1>9, <2>1, RollTruncateType, RollTruncateStore
<1>10. CASE RollCommit
  <2>1. halfway' = halfway
    BY <1>10 DEF RollCommit
  <2> QED
    BY <1>10, <2>1, RollCommitType, RollCommitStore
<1>11. CASE RollEnd
  <2>1. halfway' = halfway
    BY <1>11 DEF RollEnd
  <2> QED
    BY <1>11, <2>1, RollEndType, RollEndStore
<1>12. CASE RollFail
  <2>1. halfway => halfway'
    BY <1>12 DEF RollFail, StoppedHalfway
  <2> QED
    BY <1>12, <2>1, RollFailType, RollFailStore
<1>13. CASE Crash
  <2>1. halfway' = halfway /\ Down
    BY <1>13 DEF Crash, Down
  <2> QED
    BY <1>13, <2>1, CrashType, DownType, CrashStore
<1>14. CASE Overflow
  <2>1. halfway' = halfway /\ Down /\ file' \in [Files -> Seq(Cell)] /\ faults' \in Nat
    BY <1>14 DEF Overflow, Down, TypeOK
  <2> QED
    BY <1>14, <2>1, DownType, OverflowStore
<1>15. CASE Start
  <2>1. halfway' = halfway
    BY <1>15 DEF Start
  <2> QED
    BY <1>15, <2>1, StartType, StartStore
<1>16. CASE UNCHANGED vars
  <2>1. TypeOK' /\ InvTurn'
    <3>1. TypeOK'
      BY <1>16 DEF TypeOK, vars
    <3>2. Save(saver)' = Save(saver) /\ Undo(roller)' = Undo(roller)
      BY <1>16 DEF vars, Save, Undo
    <3>3. InvTurn'
      BY <1>16, <3>2 DEF InvTurn, vars
    <3> QED
      BY <3>1, <3>3
  <2>2. ASSUME InvStore PROVE InvStore'
    <3>1. InvChain' /\ InvFiles' /\ InvTx' /\ Stored' = Stored /\ LastHash(db)' = LastHash(db)
      BY <1>16, <2>2, FrameDB DEF InvStore, vars
    <3>2. InvCache' /\ InvStatus'
      BY <1>16, <2>2, <3>1 DEF InvStore, InvCache, InvStatus, vars
    <3>3. InvBytes'
      BY <1>16, <2>2, FrameBytes, FrameIntact DEF InvStore, vars
    <3>4. InvSaver' /\ InvRoller'
      BY <1>16, <2>2, <3>1 DEF InvStore, InvSaver, InvRoller, Intact, vars
    <3> QED
      BY <3>1, <3>2, <3>3, <3>4 DEF InvStore
  <2>3. halfway' = halfway
    BY <1>16 DEF vars
  <2> QED
    BY <2>1, <2>2, <2>3
<1> QED
  BY <1>1, <1>2, <1>3, <1>4, <1>5, <1>6, <1>7, <1>8, <1>9, <1>10, <1>11, <1>12, <1>13, <1>14,
     <1>15, <1>16 DEF Next, Storager, Synchroniser

\* When the storager and the synchroniser take turns and pe is read anew after a
\* rollback, the store keeps its invariant, whatever fails and wherever the process
\* stops (ImpDataAccess, Rollback4Storager).
THEOREM InvariantHolds == Apart => (Spec => []IInv)
<1> SUFFICES ASSUME Apart PROVE Spec => []IInv
  OBVIOUS
<1>1. Init => IInv
  BY InitHolds
<1>2. IInv /\ [Next]_vars => IInv'
  BY StepHolds
<1> QED
  BY <1>1, <1>2, PTL DEF Spec

LEMMA ChainIndexedHolds ==
    ASSUME IInv
    PROVE  ChainIndexed
<1>1. CASE halfway
  BY <1>1 DEF IInv, ChainIndexed
<1>2. CASE ~halfway
  <2>1. TypeOK /\ InvStore
    BY <1>2 DEF IInv
  <2>2. ASSUME NEW b \in Stored
        PROVE  /\ Height[b] <= db.height /\ db.hash[Height[b]] = b
               /\ Height[b] > 1 => db.hash[Height[b] - 1] = Parent[b]
               /\ db.index[b].no <= db.maxFile
               /\ Height[b] >= db.first[db.index[b].no]
    <3>1. b \in Block /\ Height[b] \in Nat
      BY <2>1, DBFacts, SizeType
    <3>2. Height[b] > 1 => db.hash[Height[b] - 1] = Parent[b]
      <4> SUFFICES ASSUME Height[b] > 1 PROVE db.hash[Height[b] - 1] = Parent[b]
        OBVIOUS
      <4>1. Parent[b] # NoHash /\ Height[b] = Height[Parent[b]] + 1 /\ Parent[b] \in Block
        BY <3>1, HeightOfChild
      <4>2. Parent[b] \in Stored
        BY <2>1, <4>1 DEF InvStore, InvChain
      <4>3. db.hash[Height[Parent[b]]] = Parent[b] /\ Height[Parent[b]] \in Nat
        BY <2>1, <4>1, <4>2, SizeType DEF InvStore, InvChain
      <4>4. Height[b] - 1 = Height[Parent[b]]
        BY <4>1, <4>3
      <4> QED
        BY <4>3, <4>4
    <3>3. db.index[b].no \in Files /\ db.first[db.index[b].no] \in Nat
      <4>1. db.index[b].no \in Files
        BY <2>1, DBFacts DEF Place
      <4> QED
        BY <2>1, <4>1, DBFacts
    <3>4. db.index[b].no <= db.maxFile /\ db.first[db.index[b].no] <= Height[b]
      BY <2>1 DEF InvStore, InvFiles
    <3>5. Height[b] >= db.first[db.index[b].no]
      BY <3>1, <3>3, <3>4
    <3> QED
      BY <2>1, <3>2, <3>4, <3>5 DEF InvStore, InvChain
  <2>3. \A h \in Heights : db.hash[h] # NoHash => db.hash[h] \in Stored
    <3>1. \A h \in Heights : h <= db.height \/ h > db.height
      BY <2>1, DBFacts DEF Heights
    <3> QED
      BY <2>1, <3>1 DEF InvStore, InvChain
  <2>4. /\ Cardinality(Stored) = db.height
        /\ \A t \in Tx : db.tx[t] = NoHash \/ (db.tx[t] \in Stored /\ t \in Txs[db.tx[t]])
        /\ db.txs = Cardinality({t \in Tx : db.tx[t] # NoHash})
    BY <2>1 DEF InvStore, InvChain, InvTx
  <2> QED
    BY <2>1, <2>2, <2>3, <2>4 DEF ChainIndexed
<1> QED
  BY <1>1, <1>2

LEMMA BelowTipHolds ==
    ASSUME IInv
    PROVE  BelowTipReadable
<1> SUFFICES ASSUME ~halfway, NEW h \in 1 .. (db.height - 1) PROVE ReadableAt(h) \/ h \in cut
  BY DEF BelowTipReadable
<1>1. TypeOK /\ InvTurn /\ InvStore
  BY DEF IInv
<1>2. h \in Heights /\ h < db.height /\ h <= db.height /\ h # db.height
  BY <1>1, DBFacts DEF Heights
<1>3. db.hash[h] \in Stored /\ Height[db.hash[h]] = h
  BY <1>1, <1>2 DEF InvStore, InvChain
<1>4. \/ h \in cut
      \/ roller.at = "cut" /\ db.hash[h] = roller.block
      \/ Intact(db.hash[h], db.index[db.hash[h]])
  BY <1>1, <1>3 DEF InvStore, InvBytes
<1>5. ~(roller.at = "cut" /\ db.hash[h] = roller.block)
  BY <1>1, <1>2, <1>3, RollerAtTop
<1>6. Intact(db.hash[h], db.index[db.hash[h]]) => Readable(db.hash[h])
  BY <1>1, <1>3, StoredReadable DEF InvStore
<1>7. db.hash[h] # NoHash
  BY <1>1, <1>3, DBFacts, StoreAssumption
<1> QED
  BY <1>2, <1>4, <1>5, <1>6, <1>7 DEF ReadableAt

\* The indexes of the database describe one chain, its transactions and its files,
\* unless a rollback stopped between two of its blocks (commitAndAddBlock,
\* rollbackBlock).
THEOREM IndexesAreAChain == Apart => (Spec => []ChainIndexed)
<1>1. IInv => ChainIndexed
  BY ChainIndexedHolds
<1> QED
  BY <1>1, InvariantHolds, PTL

\* Every block below the last one is read back as it was written, unless a
\* rollback stopped at it after the truncation, or between two of its blocks
\* (BlockFileWriter, BlockFileReader).
THEOREM BelowTheTipIsReadable == Apart => (Spec => []BelowTipReadable)
<1>1. IInv => BelowTipReadable
  BY BelowTipHolds
<1> QED
  BY <1>1, InvariantHolds, PTL

\* A lookup by height finds what the database has for every height of the chain
\* (IdxCache, getBlockIdxByHeight).
THEOREM CacheIsFaithful == Apart => (Spec => []CacheFollowsIndex)
<1>1. IInv => CacheFollowsIndex
  BY Lookup DEF IInv, InvStore, CacheFollowsIndex
<1> QED
  BY <1>1, InvariantHolds, PTL

-----------------------------------------------------------------------------
(* The refinement of ChainLog.                                               *)

\* A non-empty set of numbers has a least one.
LEMMA LeastNumber == ASSUME NEW T \in SUBSET Nat, T # {} PROVE \E x \in T : \A y \in T : x <= y
<1> DEFINE R == {ss \in Nat \X Nat : ss[1] < ss[2]}
<1>1. IsWellFoundedOn(R, Nat)
  <2>1. OpToRel(<, Nat) = R
    BY Zenon DEF OpToRel
  <2> QED
    BY <2>1, NatLessThanWellFounded
<1>2. \A x, y \in Nat : <<y, x>> \in R <=> y < x
  OBVIOUS
<1> HIDE DEF R
<1>3. PICK x \in T : \A y \in T : ~(<<y, x>> \in R)
  BY <1>1, WFMin
<1>4. ASSUME NEW y \in T PROVE x <= y
  <2>1. x \in Nat /\ y \in Nat
    OBVIOUS
  <2>2. ~(y < x)
    BY <1>2, <1>3, <2>1
  <2> QED
    BY <2>1, <2>2
<1> QED
  BY <1>4

\* Induction up to a bound, over the set of numbers for which something holds.
LEMMA CountUp ==
    ASSUME NEW n \in Nat, NEW T, 0 \in T, \A i \in 0 .. n : i < n /\ i \in T => i + 1 \in T
    PROVE  \A i \in 0 .. n : i \in T
<1> DEFINE Bad == {i \in 0 .. n : i \notin T}
<1> SUFFICES ASSUME Bad # {} PROVE FALSE
  OBVIOUS
<1>1. Bad \in SUBSET Nat
  OBVIOUS
<1>2. PICK x \in Bad : \A y \in Bad : x <= y
  BY <1>1, LeastNumber
<1>3. x \in Nat /\ x # 0 /\ x <= n /\ x \notin T
  BY <1>2
<1>4. x - 1 \in 0 .. n /\ x - 1 < n /\ ~(x <= x - 1) /\ (x - 1) + 1 = x
  BY <1>3
<1>5. x - 1 \in T
  BY <1>2, <1>4
<1> QED
  BY <1>3, <1>4, <1>5

\* The world state after each block of a chain.
NoWorld == [k \in Key |-> NoValue]
ReplayUpTo(c) ==
    LET upTo[i \in 0 .. Len(c)] ==
            IF i = 0 THEN [k \in Key |-> NoValue] ELSE Log!After(upTo[i - 1], c[i])
    IN  upTo

\* The recursion of Replay has what it describes.
LEMMA ReplayDef ==
    ASSUME NEW c, Len(c) \in Nat
    PROVE  /\ Log!Replay(c) = ReplayUpTo(c)[Len(c)]
           /\ ReplayUpTo(c)[0] = NoWorld
           /\ \A i \in 1 .. Len(c) : ReplayUpTo(c)[i] = Log!After(ReplayUpTo(c)[i - 1], c[i])
<1> DEFINE n == Len(c)
           Up(g, m) == [i \in 0 .. m |-> IF i = 0 THEN NoWorld ELSE Log!After(g[i - 1], c[i])]
           T == {m \in 0 .. n : \E g : g = Up(g, m)}
<1>0. n \in Nat
  OBVIOUS
<1> HIDE DEF n
<1>1. 0 \in T
  <2> DEFINE g == [i \in 0 .. 0 |-> NoWorld]
  <2>1. g = Up(g, 0)
    OBVIOUS
  <2>2. \E f : f = Up(f, 0)
    BY <2>1
  <2> HIDE DEF Up
  <2> QED
    BY <1>0, <2>2
<1>2. \A m \in 0 .. n : m < n /\ m \in T => m + 1 \in T
  <2> SUFFICES ASSUME NEW m \in 0 .. n, m < n, m \in T PROVE m + 1 \in T
    OBVIOUS
  <2>1. PICK g : g = Up(g, m)
    OBVIOUS
  <2> DEFINE h == [i \in 0 .. m + 1 |-> IF i <= m THEN g[i] ELSE Log!After(g[m], c[m + 1])]
  <2>2. \A i \in 0 .. m + 1 : h[i] = IF i = 0 THEN NoWorld ELSE Log!After(h[i - 1], c[i])
    <3> TAKE i \in 0 .. m + 1
    <3>1. CASE i = 0
      BY <1>0, <2>1, <3>1
    <3>2. CASE i # 0 /\ i <= m
      <4>1. i \in 0 .. m /\ i - 1 \in 0 .. m + 1 /\ i - 1 <= m
        BY <1>0, <3>2
      <4>2. g[i] = Log!After(g[i - 1], c[i])
        BY <2>1, <3>2, <4>1
      <4> QED
        BY <3>2, <4>1, <4>2
    <3>3. CASE i = m + 1
      <4>1. i - 1 = m /\ m \in 0 .. m + 1 /\ m <= m /\ ~(i <= m) /\ i # 0
        BY <1>0, <3>3
      <4>2. h[i] = Log!After(g[m], c[m + 1]) /\ h[m] = g[m]
        BY <4>1
      <4> QED
        BY <3>3, <4>1, <4>2
    <3> QED
      BY <1>0, <3>1, <3>2, <3>3
  <2>3. h = Up(h, m + 1)
    <3> HIDE DEF h
    <3>1. h = [i \in 0 .. m + 1 |-> h[i]]
      BY DEF h
    <3> QED
      BY <2>2, <3>1
  <2>4. m + 1 \in 0 .. n
    BY <1>0
  <2> HIDE DEF Up, h
  <2>5. \E f : f = Up(f, m + 1)
    BY <2>3
  <2> QED
    BY <2>4, <2>5
<1>3. n \in T
  <2> HIDE DEF T
  <2>1. \A i \in 0 .. n : i \in T
    BY <1>0, <1>1, <1>2, CountUp
  <2> QED
    BY <1>0, <2>1
<1> DEFINE f == ReplayUpTo(c)
<1>4. f = CHOOSE g : g = Up(g, n)
  BY DEF ReplayUpTo, n, NoWorld
<1>5. f = Up(f, n)
  BY <1>3, <1>4
<1>6. Log!Replay(c) = f[n]
  BY DEF Log!Replay, ReplayUpTo, n
<1> HIDE DEF f
<1>7. /\ f[0] = NoWorld /\ 0 \in 0 .. n
      /\ \A i \in 1 .. n : f[i] = Log!After(f[i - 1], c[i])
  BY <1>0, <1>5
<1> QED
  BY <1>6, <1>7 DEF f, n

\* A block more on a chain.
LEMMA ReplayExtend ==
    ASSUME NEW n \in Nat, NEW c, NEW e, Len(c) = n, Len(e) = n + 1, \A i \in 1 .. n : e[i] = c[i]
    PROVE  Log!Replay(e) = Log!After(Log!Replay(c), e[n + 1])
<1> DEFINE T == {i \in 0 .. n : ReplayUpTo(e)[i] = ReplayUpTo(c)[i]}
<1>1. /\ \A i \in 1 .. n : ReplayUpTo(c)[i] = Log!After(ReplayUpTo(c)[i - 1], c[i])
      /\ ReplayUpTo(c)[0] = NoWorld /\ Log!Replay(c) = ReplayUpTo(c)[n]
  BY ReplayDef
<1>2. /\ \A i \in 1 .. n + 1 : ReplayUpTo(e)[i] = Log!After(ReplayUpTo(e)[i - 1], e[i])
      /\ ReplayUpTo(e)[0] = NoWorld /\ Log!Replay(e) = ReplayUpTo(e)[n + 1]
  <2>1. Len(e) \in Nat
    OBVIOUS
  <2> QED
    BY <2>1, ReplayDef
<1>3. 0 \in T
  BY <1>1, <1>2
<1>4. \A i \in 0 .. n : i < n /\ i \in T => i + 1 \in T
  <2> SUFFICES ASSUME NEW i \in 0 .. n, i < n, i \in T PROVE i + 1 \in T
    OBVIOUS
  <2>1. i + 1 \in 1 .. n /\ i + 1 \in 1 .. n + 1 /\ i + 1 \in 0 .. n /\ (i + 1) - 1 = i
    OBVIOUS
  <2>2. ReplayUpTo(c)[i + 1] = Log!After(ReplayUpTo(c)[i], c[i + 1])
    BY <1>1, <2>1
  <2>3. ReplayUpTo(e)[i + 1] = Log!After(ReplayUpTo(e)[i], e[i + 1])
    BY <1>2, <2>1
  <2> QED
    BY <2>1, <2>2, <2>3
<1>5. n \in T
  <2> HIDE DEF T
  <2>1. n \in 0 .. n
    OBVIOUS
  <2> QED
    BY <1>3, <1>4, <2>1, CountUp
<1>6. ReplayUpTo(e)[n + 1] = Log!After(ReplayUpTo(e)[n], e[n + 1])
  <2>1. n + 1 \in 1 .. n + 1 /\ (n + 1) - 1 = n
    OBVIOUS
  <2> QED
    BY <1>2, <2>1
<1> QED
  BY <1>1, <1>2, <1>5, <1>6

\* The heights of the database, as a sequence of blocks.
LEMMA ChainFacts ==
    ASSUME TypeOK, InvChain
    PROVE  /\ Chain \in [1 .. db.height -> Block] /\ Len(Chain) = db.height /\ db.height \in 0 .. MaxHeight
           /\ \A i \in 1 .. db.height : Chain[i] = db.hash[i]
           /\ \A i \in 1 .. db.height : Parent[Chain[i]] = IF i = 1 THEN NoHash ELSE Chain[i - 1]
           /\ Log!Tip(Chain) = LastHash(db)
<1>1. /\ db.height \in Nat /\ db.height \in 0 .. MaxHeight /\ MaxHeight \in Nat
      /\ db.hash \in [1 .. MaxHeight -> Block \cup {NoHash}]
  BY DBFacts DEF Heights
<1>2. Chain = [i \in 1 .. db.height |-> db.hash[i]]
  <2>1. \A i \in 1 .. db.height : i + 1 - 1 = i
    BY <1>1
  <2>2. 1 .. (1 + db.height - 1) = 1 .. db.height
    BY <1>1
  <2>3. Chain = [i \in 1 .. (1 + db.height - 1) |-> db.hash[i + 1 - 1]]
    BY <1>1 DEF Chain
  <2> QED
    BY <2>1, <2>2, <2>3
<1>3. \A i \in 1 .. db.height : /\ i \in Heights /\ i <= db.height
                                /\ db.hash[i] \in Stored /\ db.hash[i] \in Block /\ Height[db.hash[i]] = i
  BY <1>1, DBFacts DEF InvChain, Heights
<1>4. Chain \in [1 .. db.height -> Block] /\ Len(Chain) = db.height
  BY <1>1, <1>2, <1>3
<1>5. \A i \in 1 .. db.height : Chain[i] = db.hash[i]
  BY <1>2
<1>6. ASSUME NEW i \in 1 .. db.height
      PROVE  Parent[Chain[i]] = IF i = 1 THEN NoHash ELSE Chain[i - 1]
  <2> DEFINE b == db.hash[i]
  <2>1. b \in Stored /\ b \in Block /\ Height[b] = i /\ Chain[i] = b /\ i \in Nat
    BY <1>1, <1>3, <1>5
  <2> HIDE DEF b
  <2>2. CASE Parent[b] = NoHash
    <3>1. i = 1
      BY <2>1, <2>2, HeightOfChild
    <3> QED
      BY <2>1, <2>2, <3>1
  <2>3. CASE Parent[b] # NoHash
    <3> DEFINE d == Parent[b]
    <3>1. d \in Block /\ d \in Stored /\ i = Height[d] + 1 /\ Height[d] \in Nat /\ Height[d] \in Heights
      BY <2>1, <2>3, HeightOfChild, SizeType DEF InvChain
    <3>2. db.hash[Height[d]] = d
      BY <3>1 DEF InvChain
    <3> HIDE DEF d
    <3>3. i - 1 = Height[d] /\ i - 1 \in 1 .. db.height /\ i # 1
      BY <1>1, <3>1 DEF Heights
    <3>4. Chain[i - 1] = d
      BY <1>5, <3>2, <3>3
    <3> QED
      BY <2>1, <3>3, <3>4 DEF d
  <2> QED
    BY <2>2, <2>3
<1>7. Log!Tip(Chain) = LastHash(db)
  <2>1. CASE db.height = 0
    <3>1. Chain = <<>>
      BY <1>2, <2>1
    <3> QED
      BY <2>1, <3>1 DEF Log!Tip, LastHash
  <2>2. CASE db.height # 0
    <3>1. db.height \in 1 .. db.height
      BY <1>1, <2>2
    <3>2. Chain # <<>>
      BY <1>4, <2>2
    <3>3. Chain[Len(Chain)] = db.hash[db.height]
      BY <1>4, <1>5, <3>1
    <3> HIDE DEF Chain
    <3> QED
      BY <2>2, <3>2, <3>3 DEF Log!Tip, LastHash
  <2> QED
    BY <2>1, <2>2
<1> QED
  BY <1>1, <1>4, <1>5, <1>6, <1>7

\* What a saved and an undone block make of the world state.
LEMMA SavedWorld ==
    ASSUME NEW d \in DBType, NEW s
    PROVE  Apply(d, Save(s)).world = Log!After(d.world, s.block)
<1>1. Save(s).kind = "save" /\ Save(s).block = s.block
  BY DEF Save
<1>2. Apply(d, Save(s)).world =
        [x \in Key |-> IF WritesOf(s.block, x) = {} THEN d.world[x] ELSE LastWrite(s.block, x).new]
  BY <1>1 DEF Apply, Saved, DBType
<1> QED
  BY <1>2 DEF Log!After, Log!WritesOf, Log!LastWrite, WritesOf, LastWrite

LEMMA UndoneWorld ==
    ASSUME NEW d \in DBType, NEW r
    PROVE  Apply(d, Undo(r)).world =
             [x \in Key |-> IF WritesOf(r.block, x) = {} THEN d.world[x] ELSE LastWrite(r.block, x).old]
<1>1. Undo(r).kind = "undo" /\ Undo(r).block = r.block
  BY DEF Undo
<1> QED
  BY <1>1 DEF Apply, Undone, DBType

LEMMA AfterWorld ==
    ASSUME NEW w, NEW b, NEW x \in Key
    PROVE  Log!After(w, b)[x] = IF WritesOf(b, x) = {} THEN w[x] ELSE LastWrite(b, x).new
BY DEF Log!After, Log!WritesOf, Log!LastWrite, WritesOf, LastWrite

\* What a chain produces is a world state.
LEMMA ReplayDomain ==
    ASSUME NEW n \in Nat, NEW c, Len(c) = n
    PROVE  Log!Replay(c) = [x \in Key |-> Log!Replay(c)[x]]
<1>1. CASE n = 0
  <2>1. Log!Replay(c) = NoWorld
    BY <1>1, ReplayDef
  <2> QED
    BY <2>1 DEF NoWorld
<1>2. CASE n # 0
  <2>1. n \in 1 .. n
    BY <1>2
  <2>2. Log!Replay(c) = Log!After(ReplayUpTo(c)[n - 1], c[n])
    BY <2>1, ReplayDef
  <2> QED
    BY <2>2 DEF Log!After
<1> QED
  BY <1>1, <1>2

LEMMA FirstPart ==
    ASSUME NEW S, NEW m \in Nat, NEW f \in [1 .. m -> S], NEW n \in 0 .. m
    PROVE  /\ SubSeq(f, 1, n) = [i \in 1 .. n |-> f[i]] /\ SubSeq(f, 1, n) \in [1 .. n -> S]
           /\ Len(SubSeq(f, 1, n)) = n
<1>1. \A i \in 1 .. n : i + 1 - 1 = i /\ i \in 1 .. m
  OBVIOUS
<1>2. 1 .. (1 + n - 1) = 1 .. n
  OBVIOUS
<1>3. SubSeq(f, 1, n) = [i \in 1 .. (1 + n - 1) |-> f[i + 1 - 1]]
  OBVIOUS
<1>4. SubSeq(f, 1, n) = [i \in 1 .. n |-> f[i]]
  BY <1>1, <1>2, <1>3
<1>5. [i \in 1 .. n |-> f[i]] \in [1 .. n -> S] /\ Len([i \in 1 .. n |-> f[i]]) = n
  BY <1>1
<1> QED
  BY <1>4, <1>5

\* A block that is saved extends the chain.
LEMMA SaveExtends ==
    ASSUME IInv, Apart, ~halfway, WorldIsReplay, SaveCommit
    PROVE  WorldIsReplay' /\ Log!Extend(saver.block) /\ saver.block \in Block
<1> DEFINE b == saver.block
           p == saver.place
           c == Chain
           e == Chain'
           h == db.height
<1>1. TypeOK /\ InvTurn /\ InvStore /\ InvChain
  BY DEF IInv, InvStore
<1>2. SavedNow(b, p) /\ db' = Apply(db, Save(saver)) /\ db \in DBType /\ TypeOK'
  BY <1>1, SaveCommitDB, SaveCommitType
<1>3. /\ b \in Block /\ Parent[b] = LastHash(db) /\ Height[b] = h + 1 /\ Height[b] \in Heights
      /\ db'.height = h + 1 /\ db'.hash = [db.hash EXCEPT ![h + 1] = b]
  BY <1>2 DEF SavedNow
<1>4. /\ c \in [1 .. h -> Block] /\ Len(c) = h /\ h \in 0 .. MaxHeight
      /\ \A i \in 1 .. h : c[i] = db.hash[i]
      /\ Log!Tip(c) = LastHash(db)
  BY <1>1, ChainFacts
<1>5. /\ MaxHeight \in Nat /\ db.hash \in [1 .. MaxHeight -> Block \cup {NoHash}]
  BY <1>1, DBFacts DEF Heights
<1>6. h + 1 \in 1 .. MaxHeight /\ h \in Nat
  BY <1>3, <1>4 DEF Heights
<1>7. db'.hash \in [1 .. MaxHeight -> Block \cup {NoHash}]
  BY <1>3, <1>5, <1>6
<1>8. e = [i \in 1 .. h + 1 |-> db'.hash[i]] /\ Len(e) = h + 1
  <2>1. h + 1 \in 0 .. MaxHeight
    BY <1>5, <1>6
  <2>2. e = SubSeq(db'.hash, 1, h + 1)
    BY <1>3 DEF Chain
  <2> QED
    BY <1>5, <1>7, <2>1, <2>2, FirstPart
<1>9. \A i \in 1 .. h : e[i] = c[i]
  BY <1>3, <1>4, <1>5, <1>6, <1>8
<1>10. e[h + 1] = b
  BY <1>3, <1>5, <1>6, <1>8
<1> HIDE DEF b, c, e, h
<1>11. Log!Replay(e) = Log!After(Log!Replay(c), b)
  BY <1>4, <1>6, <1>8, <1>9, <1>10, ReplayExtend
<1>12. db'.world = Log!After(db.world, b)
  BY <1>2, SavedWorld DEF b
<1>13. db.world = Log!Replay(c)
  BY DEF WorldIsReplay, c
<1>14. WorldIsReplay'
  BY <1>11, <1>12, <1>13 DEF WorldIsReplay, e
<1>15. e = c \o <<b>>
  <2>1. c \in Seq(Block) /\ <<b>> \in Seq(Block) /\ Len(<<b>>) = 1 /\ <<b>>[1] = b
    BY <1>3, <1>4, <1>6
  <2>2. /\ Len(c \o <<b>>) = h + 1
        /\ c \o <<b>> \in Seq(Block)
        /\ \A i \in 1 .. h : (c \o <<b>>)[i] = c[i]
        /\ (c \o <<b>>)[h + 1] = b
    BY <1>4, <1>6, <2>1
  <2>3. \A i \in 1 .. h + 1 : e[i] = (c \o <<b>>)[i]
    BY <1>6, <1>9, <1>10, <2>2
  <2>4. c \o <<b>> = [i \in 1 .. h + 1 |-> (c \o <<b>>)[i]]
    BY <1>6, <2>2
  <2>5. e = [i \in 1 .. h + 1 |-> e[i]]
    BY <1>8
  <2> QED
    BY <2>3, <2>4, <2>5
<1> QED
  BY <1>3, <1>4, <1>14, <1>15 DEF Log!Extend, b, c, e

\* A rollback of the last block takes it off the chain, and brings back the world before it.
LEMMA RollUndoes ==
    ASSUME IInv, Apart, OldValues, ~halfway, WorldIsReplay, RollCommit
    PROVE  WorldIsReplay' /\ Log!Undo
<1> DEFINE b == roller.block
           c == Chain
           e == Chain'
           h == db.height
<1>1. TypeOK /\ InvTurn /\ InvStore /\ InvChain
  BY DEF IInv, InvStore
<1>2. UndoneNow(b) /\ db' = Apply(db, Undo(roller)) /\ db \in DBType
  BY <1>1, RollCommitDB, RollCommitType
<1>3. /\ b \in Block /\ h \in Heights /\ db.hash[h] = b
      /\ db'.height = h - 1 /\ db'.hash = [db.hash EXCEPT ![h] = NoHash]
  BY <1>2 DEF UndoneNow
<1>4. /\ c \in [1 .. h -> Block] /\ Len(c) = h
      /\ \A i \in 1 .. h : c[i] = db.hash[i]
      /\ \A i \in 1 .. h : Parent[c[i]] = IF i = 1 THEN NoHash ELSE c[i - 1]
  BY <1>1, ChainFacts
<1>5. /\ MaxHeight \in Nat /\ db.hash \in [1 .. MaxHeight -> Block \cup {NoHash}]
  BY <1>1, DBFacts DEF Heights
<1>6. h \in Nat /\ h - 1 \in Nat /\ h - 1 \in 0 .. MaxHeight /\ h - 1 \in 0 .. h /\ h \in 1 .. h
      /\ h \in 1 .. MaxHeight /\ (h - 1) + 1 = h
  BY <1>3, <1>5 DEF Heights
<1>7. /\ e = [i \in 1 .. h - 1 |-> db'.hash[i]] /\ Len(e) = h - 1
  <2>1. db'.hash \in [1 .. MaxHeight -> Block \cup {NoHash}]
    BY <1>3, <1>5, <1>6
  <2>2. e = SubSeq(db'.hash, 1, h - 1)
    BY <1>3 DEF Chain
  <2> QED
    BY <1>5, <1>6, <2>1, <2>2, FirstPart
<1>8. \A i \in 1 .. h - 1 : e[i] = c[i] /\ i \in 1 .. h
  <2> TAKE i \in 1 .. h - 1
  <2>1. i \in 1 .. h /\ i \in 1 .. MaxHeight /\ i # h
    BY <1>5, <1>6
  <2> QED
    BY <1>3, <1>4, <1>5, <1>7, <2>1
<1>9. c[h] = b
  BY <1>3, <1>4, <1>6
<1> HIDE DEF b, c, e, h
<1>10. e = SubSeq(c, 1, h - 1) /\ e \in [1 .. h - 1 -> Block]
  <2>1. /\ SubSeq(c, 1, h - 1) = [i \in 1 .. h - 1 |-> c[i]]
        /\ SubSeq(c, 1, h - 1) \in [1 .. h - 1 -> Block]
    BY <1>4, <1>6, FirstPart
  <2>2. e = [i \in 1 .. h - 1 |-> e[i]]
    BY <1>7
  <2>3. e = [i \in 1 .. h - 1 |-> c[i]]
    BY <1>8, <2>2
  <2> QED
    BY <2>1, <2>3
<1>11. Log!Replay(c) = Log!After(Log!Replay(e), b)
  <2>1. Len(c) = (h - 1) + 1 /\ \A i \in 1 .. h - 1 : c[i] = e[i]
    BY <1>4, <1>6, <1>8
  <2> QED
    BY <1>6, <1>7, <1>9, <2>1, ReplayExtend
<1>12. \A x \in Key : WritesOf(b, x) # {} => LastWrite(b, x).old = Log!Replay(e)[x]
  <2>1. \A i \in 1 .. h - 1 : Parent[e[i]] = IF i = 1 THEN NoHash ELSE e[i - 1]
    <3> TAKE i \in 1 .. h - 1
    <3>1. Parent[c[i]] = IF i = 1 THEN NoHash ELSE c[i - 1]
      BY <1>4, <1>8
    <3>2. i # 1 => i - 1 \in 1 .. h - 1
      BY <1>6
    <3> QED
      BY <1>8, <3>1, <3>2
  <2>2. Parent[b] = Log!Tip(e)
    <3>1. CASE h = 1
      <4>1. e = <<>>
        BY <1>7, <3>1
      <4> QED
        BY <1>4, <1>6, <1>9, <3>1, <4>1 DEF Log!Tip
    <3>2. CASE h # 1
      <4>1. h - 1 \in 1 .. h - 1 /\ e # <<>>
        BY <1>6, <1>7, <3>2
      <4>2. Parent[b] = c[h - 1]
        BY <1>4, <1>6, <1>9, <3>2
      <4> QED
        BY <1>7, <1>8, <4>1, <4>2 DEF Log!Tip
    <3> QED
      BY <3>1, <3>2
  <2>3. b \in Block
    BY <1>3 DEF b
  <2> DEFINE m == h - 1
  <2>4. /\ m \in 0 .. MaxHeight /\ e \in [1 .. m -> Block]
        /\ \A i \in 1 .. m : Parent[e[i]] = IF i = 1 THEN NoHash ELSE e[i - 1]
    BY <1>6, <1>10, <2>1
  <2> HIDE DEF m
  <2> QED
    BY <2>2, <2>3, <2>4, Zenon DEF OldValues
<1>13. db'.world = [x \in Key |-> IF WritesOf(b, x) = {} THEN db.world[x] ELSE LastWrite(b, x).old]
  BY <1>2, UndoneWorld DEF b
<1>14. \A x \in Key : db'.world[x] = Log!Replay(e)[x]
  <2> TAKE x \in Key
  <2>1. db.world[x] = IF WritesOf(b, x) = {} THEN Log!Replay(e)[x] ELSE LastWrite(b, x).new
    BY <1>11, AfterWorld DEF WorldIsReplay, c
  <2> QED
    BY <1>12, <1>13, <2>1
<1>15. WorldIsReplay'
  <2>1. Log!Replay(e) = [x \in Key |-> Log!Replay(e)[x]]
    BY <1>6, <1>7, ReplayDomain
  <2>2. db'.world = [x \in Key |-> db'.world[x]]
    BY <1>13
  <2>3. db'.world = Log!Replay(e)
    BY <1>14, <2>1, <2>2
  <2> QED
    BY <2>3 DEF WorldIsReplay, e
<1>16. c # <<>>
  BY <1>4, <1>6
<1> QED
  BY <1>4, <1>10, <1>15, <1>16 DEF Log!Undo, c, e

\* Only the two commits change the database.
LEMMA CommitsOnly ==
    ASSUME IInv, Apart, [Next]_vars
    PROVE  UNCHANGED db \/ SaveCommit \/ RollCommit
<1>1. TypeOK /\ InvTurn
  BY DEF IInv
<1>2. ASSUME NEW b \in Block, SaveBegin(b) PROVE UNCHANGED db
  BY <1>2 DEF SaveBegin
<1>3. CASE SavePut
  BY <1>1, <1>3, SavePutType
<1>4. CASE SaveWrite
  BY <1>4 DEF SaveWrite
<1>5. CASE SaveFail
  BY <1>1, <1>5, SaveFailType
<1>6. CASE RollBegin
  BY <1>6 DEF RollBegin
<1>7. CASE RollRead
  BY <1>7 DEF RollRead
<1>8. CASE RollPut
  BY <1>1, <1>8, RollPutType
<1>9. CASE RollTruncate
  BY <1>9 DEF RollTruncate
<1>10. CASE RollEnd
  BY <1>10 DEF RollEnd
<1>11. CASE RollFail
  BY <1>11 DEF RollFail
<1>12. CASE Crash \/ Overflow
  BY <1>12 DEF Crash, Overflow, Down
<1>13. CASE Start
  BY <1>13 DEF Start
<1>14. CASE UNCHANGED vars
  BY <1>14 DEF vars
<1> QED
  BY <1>2, <1>3, <1>4, <1>5, <1>6, <1>7, <1>8, <1>9, <1>10, <1>11, <1>12, <1>13, <1>14
     DEF Next, Storager, Synchroniser

\* Once a rollback has stopped between two blocks, the claim is over.
LEMMA HalfwayStays == ASSUME Next, halfway PROVE halfway'
BY DEF Next, Storager, Synchroniser, SaveBegin, SavePut, SaveWrite, SaveCommit, SaveFail, RollBegin, RollRead,
       RollPut, RollTruncate, RollCommit, RollEnd, RollFail, Crash, Overflow, Down, Start, StoppedHalfway

\* A step of the store is one of the chain, or leaves it alone.
LEMMA StepOfLog ==
    ASSUME IInv, Apart, OldValues, ~halfway, WorldIsReplay, [Next]_vars
    PROVE  WorldIsReplay' /\ [Log!Next]_<<Chain, db.world>>
<1>1. CASE UNCHANGED db
  <2>1. Chain' = Chain /\ db'.world = db.world
    BY <1>1 DEF Chain
  <2> QED
    BY <2>1 DEF WorldIsReplay
<1>2. CASE SaveCommit
  <2>1. WorldIsReplay' /\ Log!Extend(saver.block) /\ saver.block \in Block
    BY <1>2, SaveExtends
  <2> QED
    BY <2>1 DEF Log!Next, WorldIsReplay
<1>3. CASE RollCommit
  <2>1. WorldIsReplay' /\ Log!Undo
    BY <1>3, RollUndoes
  <2> QED
    BY <2>1 DEF Log!Next, WorldIsReplay
<1> QED
  BY <1>1, <1>2, <1>3, CommitsOnly

\* The store begins with the empty chain.
LEMMA InitOfLog == Init => Log!Init /\ WorldIsReplay
<1> SUFFICES ASSUME Init PROVE Log!Init /\ WorldIsReplay
  OBVIOUS
<1>1. db.height = 0 /\ db.world = NoWorld /\ db.hash \in [1 .. MaxHeight -> Block \cup {NoHash}] /\ MaxHeight \in Nat
  BY StoreAssumption DEF Init, EmptyDB, NoWorld, Heights
<1>2. Chain = <<>>
  <2>1. 0 \in 0 .. MaxHeight
    BY <1>1
  <2>2. Len(Chain) = 0 /\ Chain \in [1 .. 0 -> Block \cup {NoHash}]
    BY <1>1, <2>1, FirstPart DEF Chain
  <2> QED
    BY <2>2
<1>3. Log!Replay(<<>>) = NoWorld
  <2>1. Len(<<>>) = 0 /\ 0 \in Nat
    OBVIOUS
  <2> QED
    BY <2>1, ReplayDef
<1> QED
  BY <1>1, <1>2, <1>3 DEF Log!Init, WorldIsReplay

\* The world state is the one that the logs of the stored blocks produce (WriteOperLogToDBWithRestoreBlock,
\* rollbackWorldState).
THEOREM WorldIsReplayed == Apart /\ OldValues => (Spec => [](halfway \/ WorldIsReplay))
<1> SUFFICES ASSUME Apart, OldValues PROVE Spec => [](halfway \/ WorldIsReplay)
  OBVIOUS
<1> DEFINE W == halfway \/ WorldIsReplay
<1>1. Init => W
  BY InitOfLog
<1>2. IInv /\ W /\ [Next]_vars => W'
  <2> SUFFICES ASSUME IInv, W, [Next]_vars PROVE W'
    OBVIOUS
  <2>1. CASE halfway
    BY <2>1, HalfwayStays DEF vars
  <2>2. CASE ~halfway
    BY <2>2, StepOfLog
  <2> QED
    BY <2>1, <2>2
<1> HIDE DEF W
<1>3. Spec => []W
  BY <1>1, <1>2, InvariantHolds, PTL DEF Spec
<1> QED
  BY <1>3 DEF W

\* The storage implements ChainLog: its chain changes at the end only, whatever fails and wherever the process
\* stops, and with it the world state, until a rollback stops between two of its blocks (restoreBlock,
\* commitAndAddBlock, rollbackBlock).
THEOREM RefinesChainLog == Apart /\ OldValues => (Spec => ImplementsLog)
<1> SUFFICES ASSUME Apart, OldValues PROVE Spec => ImplementsLog
  OBVIOUS
<1>1. Init => Log!Init
  BY InitOfLog
<1>2. IInv /\ (halfway \/ WorldIsReplay) /\ [Next]_vars => [halfway \/ Log!Next]_<<Chain, db.world>>
  BY StepOfLog
<1> QED
  BY <1>1, <1>2, InvariantHolds, WorldIsReplayed, PTL DEF Spec, ImplementsLog
=============================================================================
