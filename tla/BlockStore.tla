----------------------------- MODULE BlockStore -----------------------------
(***************************************************************************)
(* The storage of one RepChain node: LevelDB with the chain's indexes and   *)
(* the world state, the files with the blocks' bytes, and the index cache.  *)
(* Two actors use it: the storager saves blocks (ImpDataAccess.restoreBlock)*)
(* and the synchroniser rolls blocks back (Rollback4Storager).  Each holds  *)
(* a lock of its own, so nothing but the one write batch of the database    *)
(* keeps them apart.                                                        *)
(*                                                                          *)
(* An action is the part of a method up to its next effect on the batch,    *)
(* the database or a file.  A file is a sequence of cells; <<b, i>> is the  *)
(* i-th part of block b.  The process may stop between any two actions:     *)
(* what was written to LevelDB or to a file survives.                       *)
(***************************************************************************)
EXTENDS Integers, Sequences, FiniteSets

CONSTANTS
    Block,        \* block hashes
    NoHash,       \* "" as a hash
    Parent,       \* [Block -> Block \cup {NoHash}]: previousBlockHash
    Height,       \* [Block -> Nat]: the height in the block
    Tx,           \* transaction ids
    Txs,          \* [Block -> SUBSET Tx]: the transactions of a block
    Key, Value, NoValue,
    Logs,         \* [Block -> Seq(LogEntry)]: the blocks' operation logs
    Size,         \* [Block -> 1 .. FileMax]: cells of a block, its length field included
    FileMax,      \* cells a block file may hold
    CacheSize,    \* entries that each map of the index cache may hold
    FollowUp,     \* what a rollback may be followed by: "reset", "fetch"
    Overlap,      \* may saving and rolling back overlap?
    MaxHeight, MaxFile,        \* bounds of the heights and the file numbers
    MaxRollbacks, MaxFaults    \* bounds: rollbacks; crashes and input/output errors

Heights == 1 .. MaxHeight
Files == 0 .. MaxFile
LogEntry == [key : Key, old : Value, new : Value]

ASSUME StoreAssumption ==
    /\ NoHash \notin Block /\ NoValue \in Value
    /\ Parent \in [Block -> Block \cup {NoHash}] /\ Height \in [Block -> Heights]
    /\ \A b \in Block : Height[b] = IF Parent[b] = NoHash THEN 1 ELSE Height[Parent[b]] + 1
    /\ Txs \in [Block -> SUBSET Tx]
    /\ Logs \in [Block -> Seq(LogEntry)]
    /\ FileMax \in Nat /\ CacheSize \in Nat \ {0} /\ Size \in [Block -> 1 .. FileMax]
    /\ FollowUp \subseteq {"reset", "fetch"} /\ Overlap \in BOOLEAN
    /\ MaxHeight \in Nat /\ MaxFile \in Nat /\ MaxRollbacks \in Nat /\ MaxFaults \in Nat
    /\ IsFiniteSet(Block) /\ IsFiniteSet(Tx)

\* Endorsers refuse a block with a transaction that the chain below it has.
Line(C) == /\ \A b \in C : Parent[b] = NoHash \/ Parent[b] \in C
           /\ \A b, d \in C : Height[b] = Height[d] => b = d
ASSUME NoRepeat ==
    \A C \in SUBSET Block : Line(C) => \A b, d \in C : b = d \/ Txs[b] \cap Txs[d] = {}

VARIABLES
    db,        \* the contents of LevelDB
    batch,     \* IDataAccess.batch: the updates of the open transaction
    cache,     \* IdxCache.fileIdxs: index entries by height
    known,     \* IdxCache.hashcaches: the blocks whose height is found by their hash
    file,      \* the block files
    pe,        \* the hash in pe's chain status
    saver,     \* progress of the storager in restoreBlock
    roller,    \* progress of the synchroniser in rollbackToheight
    status,    \* "up", "down", or "refused" by the check at start
    cut,       \* history: heights at which a rollback stopped before its commit
    halfway,   \* history: did a rollback stop between two of its blocks?
    rollbacks, \* rollbacks so far
    faults     \* crashes and errors so far

vars == <<db, batch, cache, known, file, pe, saver, roller, status, cut, halfway, rollbacks,
          faults>>

-----------------------------------------------------------------------------
NoBatch == [open |-> FALSE, updates |-> <<>>]
OpenBatch == [open |-> TRUE, updates |-> <<>>]
NoPlace == [no |-> -1, pos |-> -1]
NoEntry == [block |-> NoHash, place |-> NoPlace]
IdleSaver == [at |-> "idle", block |-> NoHash, height |-> 0, no |-> 0, txs |-> 0,
              place |-> NoPlace]
IdleRoller == [at |-> "idle", loop |-> 0, to |-> 0, follow |-> "reset", block |-> NoHash,
               entry |-> NoEntry, txs |-> 0]

EmptyDB == [height |-> 0, maxFile |-> 0, txs |-> 0,
            first |-> [f \in Files |-> 0],
            hash |-> [h \in Heights |-> NoHash],
            index |-> [b \in Block |-> NoPlace],
            tx |-> [t \in Tx |-> NoHash],
            world |-> [k \in Key |-> NoValue]]

Init ==
    /\ db = EmptyDB /\ batch = NoBatch
    /\ cache = [h \in Heights |-> NoEntry] /\ known = {}
    /\ file = [f \in Files |-> <<>>]
    /\ pe = NoHash
    /\ saver = IdleSaver /\ roller = IdleRoller
    /\ status = "up" /\ cut = {} /\ halfway = FALSE /\ rollbacks = 0 /\ faults = 0

\* The hash at the last height.
LastHash(d) == IF d.height = 0 THEN NoHash ELSE d.hash[d.height]

\* getBlockIdxByHeight: the cache first, then the database.
IndexAt(h) ==
    IF h \notin Heights THEN NoEntry
    ELSE IF cache[h] # NoEntry THEN cache[h]
    ELSE IF db.hash[h] = NoHash THEN NoEntry
    ELSE [block |-> db.hash[h], place |-> db.index[db.hash[h]]]

\* Does it return?  When the first map has lost the height and the second one still
\* has the hash, the lookups by height and by hash call each other for ever.
Returns(h) == h \in Heights /\ cache[h] = NoEntry => db.hash[h] \notin known

\* getBlockIdxByHash.
IndexOf(b) == IF b \in known THEN IndexAt(Height[b]) ELSE [block |-> b, place |-> db.index[b]]

\* getBlockChainInfo, as far as pe keeps it.
ChainInfo == IndexAt(db.height).block

Bytes(b) == [i \in 1 .. Size[b] |-> <<b, i>>]

\* readBlock returns what was written: the index points at the block's bytes.
Readable(b) ==
    LET p == IndexOf(b).place IN
    /\ p # NoPlace /\ Len(file[p.no]) >= p.pos + Size[b]
    /\ SubSeq(file[p.no], p.pos + 1, p.pos + Size[b]) = Bytes(b)

\* getBlockByHeight takes the hash from the database.
ReadableAt(h) == h \in Heights /\ db.hash[h] # NoHash /\ Readable(db.hash[h])

\* The logs of b that write k; the last one counts, whether they are written
\* or, in the same order, taken back.
WritesOf(b, k) == {i \in DOMAIN Logs[b] : Logs[b][i].key = k}
LastWrite(b, k) == Logs[b][CHOOSE i \in WritesOf(b, k) : \A j \in WritesOf(b, k) : j <= i]

-----------------------------------------------------------------------------
(* The updates a transaction collects.                                      *)

Save(s) == [kind |-> "save", block |-> s.block, place |-> s.place, txs |-> s.txs,
            opens |-> s.place.no # s.no \/ (Height[s.block] = 1 /\ s.no = 0)]

Undo(r) == [kind |-> "undo", block |-> r.block, entry |-> r.entry,
            txs |-> r.txs - Cardinality(Txs[r.entry.block]),
            opened |-> db.first[r.entry.place.no] = Height[r.entry.block]]

\* WriteOperLogToDBWithRestoreBlock and the puts of commitAndAddBlock.
Saved(d, u) ==
    LET b == u.block IN
    [d EXCEPT !.height = Height[b], !.txs = u.txs,
              !.maxFile = IF u.opens THEN u.place.no ELSE @,
              !.first[u.place.no] = IF u.opens THEN Height[b] ELSE @,
              !.hash[Height[b]] = b, !.index[b] = u.place,
              !.tx = [t \in Tx |-> IF t \in Txs[b] THEN b ELSE @[t]],
              !.world = [k \in Key |-> IF WritesOf(b, k) = {} THEN @[k]
                                       ELSE LastWrite(b, k).new]]

\* Mutant: the key of the block's hash stays in the database.
Undone_KeepsIndex(d, u) ==
    LET b == u.block IN
    [d EXCEPT !.height = Height[b] - 1, !.txs = u.txs, !.hash[Height[b]] = NoHash,
              !.tx = [t \in Tx |-> IF t \in Txs[u.entry.block] THEN NoHash ELSE @[t]]]

\* Mutant: a key that had no value before the block keeps the new one.
Undone_KeepsNewKeys(d, u) ==
    LET b == u.block IN
    [d EXCEPT !.height = Height[b] - 1, !.txs = u.txs,
              !.hash[Height[b]] = NoHash, !.index[b] = NoPlace,
              !.world = [k \in Key |-> IF \/ WritesOf(b, k) = {}
                                          \/ LastWrite(b, k).old = NoValue
                                       THEN @[k] ELSE LastWrite(b, k).old]]

\* rollbackAllIndex, rollbackFileFirstHeight, rollbackTranIdxAndTranCount and
\* rollbackWorldState, which restores the old values in the order of the logs.
Undone(d, u) ==
    LET b == u.block
        no == u.entry.place.no
    IN [d EXCEPT !.height = Height[b] - 1, !.txs = u.txs,
                 !.maxFile = IF ~u.opened THEN @ ELSE IF no = 0 THEN 0 ELSE no - 1,
                 !.first[no] = IF u.opened THEN 0 ELSE @,
                 !.hash[Height[b]] = NoHash, !.index[b] = NoPlace,
                 !.tx = [t \in Tx |-> IF t \in Txs[u.entry.block] THEN NoHash ELSE @[t]],
                 !.world = [k \in Key |-> IF WritesOf(b, k) = {} THEN @[k]
                                          ELSE LastWrite(b, k).old]]

Apply(d, u) == IF u.kind = "save" THEN Saved(d, u) ELSE Undone(d, u)

\* The database once a batch is written.  Each of the two actors puts the updates
\* of one block into a transaction, so there are two of them at most.
Written(d, us) ==
    LET one == IF us = <<>> THEN d ELSE Apply(d, us[1])
    IN IF Len(us) < 2 THEN one ELSE Apply(one, us[2])

\* Put and Delete: into the open transaction, or at once when there is none.
Put(u) ==
    IF batch.open
    THEN batch' = [open |-> TRUE, updates |-> Append(batch.updates, u)] /\ UNCHANGED db
    ELSE db' = Apply(db, u) /\ UNCHANGED batch

\* CommitTrans: nothing happens when the other actor closed the transaction.
Commit ==
    /\ db' = Written(db, batch.updates)
    /\ batch' = NoBatch
-----------------------------------------------------------------------------
(* Saving a block: IStorager.RestoreBlock and SaveBlock, then restoreBlock  *)
(* and commitAndAddBlock under the lock of the database object.             *)

Fault == faults < MaxFaults /\ faults' = faults + 1

\* What a rollback leaves that stops between the truncation and the commit.
StoppedAtCut == cut' = IF roller.at = "cut" THEN cut \cup {roller.loop} ELSE cut

\* What a rollback leaves that ends above its height: pe keeps its block, also
\* when that one is rolled back already.
StoppedHalfway == halfway' = (halfway \/ pe # LastHash(db))

\* RestoreBlock compares with pe, restoreBlock with the index one below, which
\* it may find in the cache only.  BeginTrans drops a transaction that is open.
SaveBegin(b) ==
    LET below == IF db.height = 0 THEN NoEntry ELSE IndexAt(Height[b] - 1) IN
    /\ status = "up" /\ saver.at = "idle" /\ (Overlap \/ roller.at = "idle")
    /\ Returns(Height[b] - 1)
    /\ Parent[b] = pe /\ Parent[b] = below.block
    /\ saver' = [IdleSaver EXCEPT !.at = "begun", !.block = b, !.height = db.height,
                                  !.no = db.maxFile, !.txs = db.txs + Cardinality(Txs[b])]
    /\ batch' = OpenBatch
    /\ UNCHANGED <<db, cache, known, file, pe, roller, status, cut, halfway, rollbacks, faults>>

\* isAddFile: the block goes to the next file if it does not fit any more.
NewFileNo(no, b) == IF Len(file[no]) + Size[b] > FileMax THEN no + 1 ELSE no

\* What a map of the cache may keep beside a new key: when it is full an older one
\* leaves, any of them, as lookups count for one map or for both.
Kept(keys) == IF Cardinality(keys) < CacheSize THEN {keys} ELSE {keys \ {x} : x \in keys}

\* Mutant: an entry that is there for the height is left there.
CachePut_Absent(b, entry) ==
    \E hs \in Kept({h \in Heights : cache[h] # NoEntry} \ {Height[b]}), bs \in Kept(known \ {b}) :
        /\ cache' = [h \in Heights |-> IF h = Height[b] /\ cache[h] = NoEntry THEN entry
                                      ELSE IF h \in hs \cup {Height[b]} THEN cache[h] ELSE NoEntry]
        /\ known' = bs \cup {b}

\* IdxCache.Put and PutForHash.
CachePut(b, entry) ==
    \E hs \in Kept({h \in Heights : cache[h] # NoEntry} \ {Height[b]}), bs \in Kept(known \ {b}) :
        /\ cache' = [h \in Heights |-> IF h = Height[b] THEN entry
                                      ELSE IF h \in hs THEN cache[h] ELSE NoEntry]
        /\ known' = bs \cup {b}

\* The place is the end of the file; the index entry goes to the cache at once.
SavePut ==
    LET b == saver.block
        no == NewFileNo(saver.no, b)
        s == [saver EXCEPT !.at = "put", !.place = [no |-> no, pos |-> Len(file[no])]]
    IN
    /\ saver.at = "begun" /\ no \in Files
    /\ Put(Save(s))
    /\ saver' = s
    /\ CachePut(b, [block |-> b, place |-> s.place])
    /\ UNCHANGED <<file, pe, roller, status, cut, halfway, rollbacks, faults>>

\* A file after writing at a position: a gap is filled, the rest is kept.
WriteAt(f, pos, cells) ==
    [i \in 1 .. (IF pos + Len(cells) > Len(f) THEN pos + Len(cells) ELSE Len(f)) |->
        IF i > pos /\ i <= pos + Len(cells) THEN cells[i - pos]
        ELSE IF i <= Len(f) THEN f[i] ELSE <<NoHash, 0>>]

\* Mutant: the position is taken anew when the bytes are written, below the tail.
SaveWrite_Overwrites ==
    /\ saver.at = "put"
    /\ file' = [file EXCEPT ![saver.place.no] =
                  WriteAt(@, IF saver.place.pos > 0 THEN saver.place.pos - 1 ELSE 0,
                          Bytes(saver.block))]
    /\ saver' = [saver EXCEPT !.at = "written"]
    /\ UNCHANGED <<db, batch, cache, known, pe, roller, status, cut, halfway, rollbacks, faults>>

\* BlockFileWriter.writeBlock.
SaveWrite ==
    /\ saver.at = "put"
    /\ file' = [file EXCEPT ![saver.place.no] = WriteAt(@, saver.place.pos, Bytes(saver.block))]
    /\ saver' = [saver EXCEPT !.at = "written"]
    /\ UNCHANGED <<db, batch, cache, known, pe, roller, status, cut, halfway, rollbacks, faults>>

\* CommitTrans, and pe takes the status that restoreBlock returns.
SaveCommit ==
    /\ saver.at = "written"
    /\ Commit
    /\ pe' = saver.block
    /\ saver' = IdleSaver
    /\ UNCHANGED <<cache, known, file, roller, status, cut, halfway, rollbacks, faults>>

\* The write or the commit throws: RollbackTrans.  A failed write first sets the
\* height, the file and the count back, in the database if the transaction is
\* not open any more.  The cache keeps the entry of the block.
SaveFail ==
    /\ Fault
    /\ saver.at \in {"put", "written"}
    /\ db' = IF batch.open \/ saver.at = "written" THEN db
             ELSE [db EXCEPT !.height = saver.height, !.maxFile = saver.no,
                             !.txs = saver.txs - Cardinality(Txs[saver.block])]
    /\ batch' = NoBatch
    /\ saver' = IdleSaver
    /\ UNCHANGED <<cache, known, file, pe, roller, status, cut, halfway, rollbacks>>

-----------------------------------------------------------------------------
(* Rolling back: ISynchRequester.Handler, then Rollback4Storager under a    *)
(* lock that every call creates anew.                                       *)

\* At start a node may fall back to a lower height and needs nothing more;
\* later it gives up its last block, as pe has it, and fetches another one.
RollBegin ==
    /\ status = "up" /\ roller.at = "idle" /\ (Overlap \/ saver.at = "idle")
    /\ rollbacks < MaxRollbacks /\ rollbacks' = rollbacks + 1
    /\ pe # NoHash /\ Returns(db.height)
    /\ \E f \in FollowUp :
         \E to \in IF f = "reset" THEN 1 .. (Height[pe] - 1) ELSE {Height[pe] - 1} :
           roller' = [IdleRoller EXCEPT !.at = "next", !.loop = db.height, !.to = to, !.follow = f]
    /\ UNCHANGED <<db, batch, cache, known, file, pe, saver, status, cut, halfway, faults>>

\* rollbackBlock reads the block from the file and its index; a block that
\* cannot be read ends the rollback with an exception.
RollRead ==
    LET h == roller.loop IN
    /\ roller.at = "next" /\ h > roller.to /\ Returns(h)
    /\ IF ReadableAt(h)
       THEN /\ batch' = OpenBatch
            /\ roller' = [roller EXCEPT !.at = "begun", !.block = db.hash[h], !.entry = IndexAt(h),
                                        !.txs = db.txs]
            /\ UNCHANGED halfway
       ELSE roller' = IdleRoller /\ StoppedHalfway /\ UNCHANGED batch
    /\ UNCHANGED <<db, cache, known, file, pe, saver, status, cut, rollbacks, faults>>

RollPut ==
    /\ roller.at = "begun"
    /\ Put(Undo(roller))
    /\ roller' = [roller EXCEPT !.at = "put"]
    /\ UNCHANGED <<cache, known, file, pe, saver, status, cut, halfway, rollbacks, faults>>

\* deleteBlockBytesFromFileTail; a file that is too short makes it throw.
RollTruncate ==
    LET no == roller.entry.place.no
        left == Len(file[no]) - Size[roller.entry.block]
    IN
    /\ roller.at = "put"
    /\ IF left >= 0
       THEN /\ file' = [file EXCEPT ![no] = SubSeq(@, 1, left)]
            /\ roller' = [roller EXCEPT !.at = "cut"]
            /\ UNCHANGED <<batch, halfway>>
       ELSE batch' = NoBatch /\ roller' = IdleRoller /\ StoppedHalfway /\ UNCHANGED file
    /\ UNCHANGED <<db, cache, known, pe, saver, status, cut, rollbacks, faults>>

RollCommit ==
    /\ roller.at = "cut"
    /\ Commit
    /\ roller' = [roller EXCEPT !.at = "next", !.loop = @ - 1]
    /\ UNCHANGED <<cache, known, file, pe, saver, status, cut, halfway, rollbacks, faults>>

\* The height is reached.  pe is read anew only if nothing is to be fetched.
RollEnd ==
    /\ roller.at = "next" /\ roller.loop <= roller.to
    /\ roller.follow = "reset" => Returns(db.height)
    /\ pe' = IF roller.follow = "reset" THEN ChainInfo ELSE pe
    /\ roller' = IdleRoller
    /\ UNCHANGED <<db, batch, cache, known, file, saver, status, cut, halfway, rollbacks, faults>>

\* The truncation or the commit throws: RollbackTrans, and rollbackToheight
\* returns false.
RollFail ==
    /\ Fault
    /\ roller.at \in {"put", "cut"}
    /\ StoppedAtCut /\ StoppedHalfway
    /\ batch' = NoBatch
    /\ roller' = IdleRoller
    /\ UNCHANGED <<db, cache, known, file, pe, saver, status, rollbacks>>

-----------------------------------------------------------------------------
(* The process stops; when it starts, verify4Storage checks a sample.       *)

\* What is in memory is gone.
Down ==
    /\ StoppedAtCut
    /\ status = "up" /\ status' = "down"
    /\ batch' = NoBatch
    /\ cache' = [h \in Heights |-> NoEntry] /\ known' = {}
    /\ pe' = NoHash /\ saver' = IdleSaver /\ roller' = IdleRoller
    /\ UNCHANGED <<db, halfway, rollbacks>>

\* A block that is being written may be in the file in part.
Crash ==
    /\ Fault /\ Down
    /\ \/ UNCHANGED file
       \/ /\ saver.at = "put"
          /\ \E n \in 1 .. (Size[saver.block] - 1) :
               file' = [file EXCEPT ![saver.place.no] =
                          WriteAt(@, saver.place.pos, SubSeq(Bytes(saver.block), 1, n))]

\* Whoever looks up a height for which the lookup does not return, an actor above, a
\* query or the responder: a StackOverflowError ends the process.
Overflow ==
    /\ \E h \in Heights : ~Returns(h)
    /\ Down
    /\ UNCHANGED <<file, faults>>

\* getFileInfo and verfiyFileForFileInfo: ten heights of each file are drawn,
\* the last one excluded; none can be drawn if the file has one block.
Sampled(f) == db.first[f] .. ((IF f < db.maxFile THEN db.first[f + 1] ELSE db.height) - 1)
Sound(h) == ReadableAt(h) /\ (h > 1 => ReadableAt(h - 1))

MayPass ==
    IF db.height <= 1 THEN db.height = 0 \/ ReadableAt(1)
    ELSE \A f \in 0 .. db.maxFile : \E h \in Sampled(f) : Sound(h)

MayFail ==
    IF db.height <= 1 THEN db.height = 1 /\ ~ReadableAt(1)
    ELSE \E f \in 0 .. db.maxFile : Sampled(f) = {} \/ \E h \in Sampled(f) : ~Sound(h)

Start ==
    /\ status = "down"
    /\ \/ MayPass /\ status' = "up" /\ pe' = ChainInfo
       \/ MayFail /\ status' = "refused" /\ UNCHANGED pe
    /\ UNCHANGED <<db, batch, cache, known, file, saver, roller, cut, halfway, rollbacks, faults>>

Storager == (\E b \in Block : SaveBegin(b)) \/ SavePut \/ SaveWrite \/ SaveCommit \/ SaveFail
Synchroniser == RollBegin \/ RollRead \/ RollPut \/ RollTruncate \/ RollCommit \/ RollEnd \/ RollFail

Next == Storager \/ Synchroniser \/ Crash \/ Overflow \/ Start

Spec == Init /\ [][Next]_vars
-----------------------------------------------------------------------------
(* Properties.                                                              *)

\* The values of the variables.
Place == [no : Files, pos : Nat]
Entry == [block : Block, place : Place]
Cell == (Block \X Nat) \cup {<<NoHash, 0>>}
DBType == [height : 0 .. MaxHeight, maxFile : Files, txs : Int, first : [Files -> 0 .. MaxHeight],
           hash : [Heights -> Block \cup {NoHash}], index : [Block -> {NoPlace} \cup Place],
           tx : [Tx -> Block \cup {NoHash}], world : [Key -> Value]]
SaverType == [at : {"idle", "begun", "put", "written"}, block : Block \cup {NoHash},
              height : 0 .. MaxHeight, no : Files, txs : Int, place : {NoPlace} \cup Place]
RollerType == [at : {"idle", "next", "begun", "put", "cut"}, loop : 0 .. MaxHeight,
               to : 0 .. MaxHeight, follow : {"reset", "fetch"}, block : Block \cup {NoHash},
               entry : {NoEntry} \cup Entry, txs : Int]

\* Every part of the store keeps its type, and a transaction holds two updates
\* at most.
TypeOK ==
    /\ db \in DBType
    /\ batch.open \in BOOLEAN /\ Len(batch.updates) <= 2
    /\ cache \in [Heights -> {NoEntry} \cup Entry] /\ known \subseteq Block
    /\ file \in [Files -> Seq(Cell)]
    /\ pe \in Block \cup {NoHash}
    /\ saver \in SaverType /\ roller \in RollerType
    /\ status \in {"up", "down", "refused"} /\ cut \subseteq Heights /\ halfway \in BOOLEAN
    /\ rollbacks \in Nat /\ faults \in Nat

\* The blocks that are in the database.
Stored == {b \in Block : db.index[b] # NoPlace}

\* The indexes describe one chain: up to the last height every block sits on
\* the one below, nothing is indexed above, the transactions indexed are those
\* of the chain and are counted, and each file knows its first height.  A
\* rollback that stops between two of its blocks leaves pe on a block that is
\* gone, and the next one may be saved on top of it.
ChainIndexed ==
    /\ TypeOK
    /\ \/ halfway
       \/ /\ \A b \in Stored : /\ Height[b] <= db.height /\ db.hash[Height[b]] = b
                               /\ Height[b] > 1 => db.hash[Height[b] - 1] = Parent[b]
                               /\ db.index[b].no <= db.maxFile
                               /\ Height[b] >= db.first[db.index[b].no]
          /\ \A h \in Heights : db.hash[h] # NoHash => db.hash[h] \in Stored
          /\ Cardinality(Stored) = db.height
          /\ \A t \in Tx : db.tx[t] = NoHash \/ (db.tx[t] \in Stored /\ t \in Txs[db.tx[t]])
          /\ db.txs = Cardinality({t \in Tx : db.tx[t] # NoHash})

\* Wherever the process stops, and whatever is left behind in the files, every
\* block below the last one is read back as it was written, unless a rollback
\* of it stopped between the truncation and the commit, or between two blocks
\* (BlockFileWriter, Rollback4Storager.rollbackBlock).
BelowTipReadable == halfway \/ \A h \in 1 .. (db.height - 1) : ReadableAt(h) \/ h \in cut

\* getBlockByHeight finds every block below the last one.
BlocksReadable == \A h \in 1 .. (db.height - 1) : ReadableAt(h)

\* A lookup by height finds what the database has, although the cache is filled
\* before the commit and keeps its entries over a failed save and over a rollback
\* (ImpDataAccess.commitAndAddBlock, IdxCache); after a rollback that stopped
\* between two blocks it may find a block that is gone.
CacheFollowsIndex ==
    \/ halfway
    \/ \A h \in 1 .. db.height :
         IndexAt(h) = [block |-> db.hash[h], place |-> db.index[db.hash[h]]]

\* A lookup by height returns, with the index or with nothing (getBlockIdxByHeight).
LookupReturns == \A h \in Heights : Returns(h)

\* The storage is a chain that changes at its end only, until a rollback stops
\* between two of its blocks.
Chain == SubSeq(db.hash, 1, db.height)
Log == INSTANCE ChainLog WITH chain <- Chain, world <- db.world
ImplementsLog == Log!Init /\ [][halfway \/ Log!Next]_<<Chain, db.world>>

\* The world state is the one that the stored blocks produce, also after a
\* rollback of a block that wrote a key twice.
WorldIsReplay == db.world = Log!Replay(Chain)

\* The old values in a block's logs, as far as a rollback restores them, are those of the
\* chain below the block, which is where the block was executed.
OldValues ==
    \A n \in 0 .. MaxHeight : \A c \in [1 .. n -> Block] : \A b \in Block :
        /\ \A i \in 1 .. n : Parent[c[i]] = IF i = 1 THEN NoHash ELSE c[i - 1]
        /\ Parent[b] = Log!Tip(c)
        => \A k \in Key : WritesOf(b, k) # {} => LastWrite(b, k).old = Log!Replay(c)[k]

\* restoreBlock returned true for a block: the block is in the database.
SavedIsStored ==
    [][saver.at = "written" /\ pe' # pe => db'.hash[Height[pe']] = pe']_vars

\* A block is stored on top of the last block only.
StoredOnLast ==
    [][\A b \in Block : db.index[b] = NoPlace /\ db'.index[b] # NoPlace
                        => Height[b] = db.height + 1 /\ Parent[b] = LastHash(db)]_vars

\* The cells of the files in the order of the files are those of the chain.
FileRebuildsChain ==
    LET Cat[f \in -1 .. MaxFile] == IF f = -1 THEN <<>> ELSE Cat[f - 1] \o file[f]
        Want[h \in 0 .. MaxHeight] == IF h = 0 THEN <<>> ELSE Want[h - 1] \o Bytes(db.hash[h])
    IN status = "up" /\ saver.at = "idle" /\ roller.at = "idle" => Cat[MaxFile] = Want[db.height]

\* The check at start refuses only a storage that is damaged.
RefusedIsDamaged == status = "refused" => \E h \in 1 .. db.height : ~ReadableAt(h)
=============================================================================
