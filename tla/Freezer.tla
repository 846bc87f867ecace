------------------------------ MODULE Freezer ------------------------------
(***************************************************************************)
(* The ancient store (core/rawdb/freezer*.go): one flat-file table per     *)
(* kind of data.  A table has an index file of (file number, end offset)   *)
(* entries, numbered data files that are filled up to MaxFileSize, and a   *)
(* metadata file with the virtual tail.  The model keeps the files as the  *)
(* operating system sees them and, next to each, how much of it has been   *)
(* fsynced.  A crash keeps everything that was fsynced and, independently  *)
(* for every file, any amount of what was written after that; truncations  *)
(* and renames take effect at once.  A byte is labelled with the item it   *)
(* was written for, so that reading the wrong bytes shows.                 *)
(***************************************************************************)
EXTENDS Integers, Sequences, FiniteSets, FiniteSetsExt, SequencesExt

CONSTANTS Tables,       \* the tables, as the sequence freezeRange appends to
          MaxItems,     \* bound: items a table can hold
          MaxBatch,     \* bound: items one ModifyAncients appends
          MaxFileSize,  \* maxFileSize, in bytes
          BufferLimit,  \* freezerBatchBufferLimit, in bytes
          Sizes,        \* Sizes[t]: the sizes an item of table t can have
          MaxFiles,     \* bound: data files of a table
          MaxCrashes    \* bound: crashes

VARIABLES tab,      \* tab[t]: the files of table t and its freezerTable object
          frozen,   \* Freezer.frozen
          tail,     \* Freezer.tail
          wr,       \* what the holder of writeLock is doing
          syncing,  \* what a running Sync has still to do
          synced,   \* history: the head and the tail the last Sync covers
          lost,     \* history: a crash came while the tail was ahead of what Sync covers
          view,     \* history: the window of items a reader reaches in all tables
          crashes   \* number of crashes so far

vars == <<tab, frozen, tail, wr, syncing, synced, lost, view, crashes>>

Kinds  == ToSet(Tables)
FileNo == 0 .. MaxFiles
Idle   == [op |-> "idle"]
Down   == [op |-> "down"]
NoSync == [on |-> FALSE, left |-> {}, hi |-> 0, lo |-> 0]

indexEntry(f, o) == [file |-> f, off |-> o]

(***************************************************************************)
(* A table.  Files: index, data, meta (the virtual tail) and, for each,    *)
(* what is fsynced of it.  Object: items, itemOffset, itemHidden, headId,  *)
(* tailId, headBytes.  Batch: dataBuffer, indexBuffer, curItem.  History:  *)
(* log, the items the table has accepted, and pend, those in the batch;    *)
(* open tells whether the object exists.                                   *)
(***************************************************************************)
newTable ==
    [index |-> <<indexEntry(0, 0)>>, data |-> [f \in FileNo |-> <<>>], meta |-> 0,
     dIndex |-> 1, dData |-> [f \in FileNo |-> 0], dMeta |-> 0,
     items |-> 0, itemOffset |-> 0, itemHidden |-> 0,
     headId |-> 0, tailId |-> 0, headBytes |-> 0,
     dataBuffer |-> <<>>, indexBuffer |-> <<>>, curItem |-> 0,
     log |-> <<>>, pend |-> <<>>, open |-> TRUE]

\* The bytes of item n when it takes size bytes, every byte labelled.
Item(n, size) == [i \in 1 .. size |-> <<n, size, i>>]

(***************************************************************************)
(* bounds: the file and the two offsets between which the item that ends   *)
(* at entry e and follows entry b lies.                                    *)
(***************************************************************************)
bounds(b, e) == [file |-> e.file,
                 from |-> IF b.file = e.file THEN b.off ELSE 0,
                 to   |-> e.off]

(***************************************************************************)
(* getIndices: entries from .. from + count of the index, the very first   *)
(* of the file standing for offset 0 of the file of the second.            *)
(***************************************************************************)
getIndices(T, start, count) ==
    LET from == start - T.itemOffset
        ents == SubSeq(T.index, from + 1, from + count + 1)
    IN IF from = 0 THEN [ents EXCEPT ![1] = indexEntry(ents[2].file, 0)] ELSE ents

has(T, n) == T.items > n /\ T.itemHidden <= n

(***************************************************************************)
(* retrieveItems: whole items from start on, as many as fit in maxBytes    *)
(* but at least one.  Reads of adjacent items in one file are deferred and *)
(* done together, when the file changes, at the limit or at the end.       *)
(***************************************************************************)
readData(T, st, file) ==
    [st EXCEPT !.out = @ \o SubSeq(T.data[file], st.readStart + 1, st.readStart + st.unread),
               !.unread = 0]

RECURSIVE readFrom(_, _, _, _, _)
readFrom(T, ents, maxBytes, st, i) ==
    LET b    == bounds(ents[i], ents[i + 1])
        size == b.to - b.from
        s1   == IF ents[i].file = ents[i + 1].file THEN st
                ELSE [readData(T, st, ents[i].file) EXCEPT !.readStart = 0]
        full == i > 1 /\ s1.total + size > maxBytes
        s2   == [s1 EXCEPT !.unread = @ + size, !.total = @ + size,
                           !.sizes = Append(@, size)]
    IN IF full THEN readData(T, s1, b.file)
       ELSE IF i = Len(ents) - 1 \/ s2.total > maxBytes THEN readData(T, s2, b.file)
       ELSE readFrom(T, ents, maxBytes, s2, i + 1)

retrieveItems(T, start, count, maxBytes) ==
    LET n    == Min({count, T.items - start})
        ents == getIndices(T, start, n)
    IN readFrom(T, ents, maxBytes,
                [out |-> <<>>, sizes |-> <<>>, total |-> 0, unread |-> 0,
                 readStart |-> ents[1].off], 1)

(***************************************************************************)
(* RetrieveItems slices what was read into items; Retrieve asks for one.   *)
(***************************************************************************)
RECURSIVE sliceItems(_, _, _, _)
sliceItems(out, sizes, from, maxBytes) ==
    IF sizes = <<>> \/ (from > 0 /\ from + Head(sizes) > maxBytes) THEN <<>>
    ELSE <<SubSeq(out, from + 1, from + Head(sizes))>>
           \o sliceItems(out, Tail(sizes), from + Head(sizes), maxBytes)

RetrieveItems(T, start, count, maxBytes) ==
    LET r == retrieveItems(T, start, count, maxBytes)
    IN sliceItems(r.out, r.sizes, 0, maxBytes)

Retrieve(T, n) == RetrieveItems(T, n, 1, 0)[1]

-----------------------------------------------------------------------------
(***************************************************************************)
(* Writing.  commit writes the buffered bytes and then the buffered index  *)
(* entries, neither of them fsynced.                                       *)
(***************************************************************************)
reset(T) == [T EXCEPT !.dataBuffer = <<>>, !.indexBuffer = <<>>, !.pend = <<>>,
                      !.curItem = T.items]

commit(T) ==
    [T EXCEPT !.data[T.headId] = @ \o T.dataBuffer, !.index = @ \o T.indexBuffer,
              !.dataBuffer = <<>>, !.indexBuffer = <<>>,
              !.headBytes = @ + Len(T.dataBuffer), !.items = T.curItem,
              !.log = @ \o T.pend, !.pend = <<>>]

(***************************************************************************)
(* advanceHead: the next file starts from nothing, whatever a file of that *)
(* number held before; the old head is fsynced.                            *)
(***************************************************************************)
advanceHead(T) ==
    [T EXCEPT !.data[T.headId + 1] = <<>>,
              !.dData = [@ EXCEPT ![T.headId] = Len(T.data[T.headId]),
                                  ![T.headId + 1] = 0],
              !.headId = @ + 1, !.headBytes = 0]

fits(T, size) == T.headBytes + Len(T.dataBuffer) + size <= MaxFileSize

appendItem(T, bytes) ==
    LET t1 == IF fits(T, Len(bytes)) THEN T ELSE advanceHead(commit(T))
        at == t1.headBytes + Len(t1.dataBuffer)
        t2 == [t1 EXCEPT !.dataBuffer = @ \o bytes,
                         !.indexBuffer = Append(@, indexEntry(t1.headId, at + Len(bytes))),
                         !.curItem = @ + 1, !.pend = Append(@, bytes)]
    IN IF Len(t2.dataBuffer) > BufferLimit THEN commit(t2) ELSE t2

\* Mutant: only the head file is fsynced.
SyncHeadFile(T) == [T EXCEPT !.dMeta = T.meta, !.dData[T.headId] = Len(T.data[T.headId])]

Sync(T) == [T EXCEPT !.dIndex = Len(T.index), !.dMeta = T.meta,
                     !.dData[T.headId] = Len(T.data[T.headId])]

-----------------------------------------------------------------------------
(***************************************************************************)
(* Cutting.  truncateHead cuts the index, then the head file, and deletes  *)
(* the files after it.                                                     *)
(***************************************************************************)
cutFile(T, f, n) == [T EXCEPT !.data[f] = SubSeq(@, 1, n), !.dData[f] = Min({@, n})]

cutIndex(T, n) == [T EXCEPT !.index = SubSeq(@, 1, n), !.dIndex = Min({@, n})]

removeFiles(T, gone) ==
    [T EXCEPT !.data  = [f \in FileNo |-> IF f \in gone THEN <<>> ELSE T.data[f]],
              !.dData = [f \in FileNo |-> IF f \in gone THEN 0 ELSE T.dData[f]]]

lastEntry(T) == IF Len(T.index) = 1 THEN indexEntry(T.tailId, 0) ELSE Last(T.index)

\* Mutant: the head file is not cut.
truncateHeadIndex(T, n) ==
    LET t1  == cutIndex(T, n - T.itemOffset + 1)
        exp == lastEntry(t1)
        t2  == IF exp.file = T.headId THEN t1
               ELSE [removeFiles(t1, {f \in FileNo : f > exp.file /\ f <= T.headId})
                        EXCEPT !.headId = exp.file]
    IN IF T.items <= n THEN T
       ELSE [t2 EXCEPT !.headBytes = exp.off, !.items = n, !.log = SubSeq(@, 1, n)]

truncateHead(T, n) ==
    LET t1  == cutIndex(T, n - T.itemOffset + 1)
        exp == lastEntry(t1)
        t2  == IF exp.file = T.headId THEN t1
               ELSE [removeFiles(t1, {f \in FileNo : f > exp.file /\ f <= T.headId})
                        EXCEPT !.headId = exp.file]
    IN IF T.items <= n THEN T
       ELSE [cutFile(t2, exp.file, exp.off) EXCEPT !.headBytes = exp.off, !.items = n,
                                                   !.log = SubSeq(@, 1, n)]

headError(T, n) == n < T.items /\ n < T.itemHidden

(***************************************************************************)
(* truncateTail hides the items first (hideTail).  Only when no visible    *)
(* item is left in the tail file does it fsync the metadata, rewrite the   *)
(* index without the entries of the dropped files and delete them          *)
(* (dropTail).  It does nothing when the items are hidden already.         *)
(***************************************************************************)
hideTail(T, n) == [T EXCEPT !.itemHidden = n, !.meta = n]

tailError(T, n) == T.itemHidden < n /\ T.items < n

newTailId(T) == IF T.items = T.itemHidden THEN T.headId
                ELSE T.index[T.itemHidden - T.itemOffset + 2].file

dropTail(T) ==
    LET id   == newTailId(T)
        same == {d \in T.itemOffset .. T.itemHidden :
                   \A c \in d .. T.itemHidden - 1 : T.index[c - T.itemOffset + 2].file = id}
        del  == Min(same)
        idx  == <<indexEntry(id, del)>> \o
                  SubSeq(T.index, del - T.itemOffset + 2, Len(T.index))
    IN IF id <= T.tailId THEN T
       ELSE [removeFiles(T, {f \in FileNo : f >= T.tailId /\ f < id})
               EXCEPT !.index = idx, !.dIndex = Len(idx), !.dMeta = T.meta,
                      !.tailId = id, !.itemOffset = del]

truncateTail(T, n) == IF T.itemHidden >= n THEN T ELSE dropTail(hideTail(T, n))

-----------------------------------------------------------------------------
(***************************************************************************)
(* repair, run when a table is opened: cut the head file or drop the last  *)
(* index entry until the entry points to the end of its file.              *)
(***************************************************************************)
RECURSIVE inSync(_)
inSync(T) ==
    LET e == lastEntry(T)
        size == Len(T.data[e.file])
    IN CASE e.off = size -> T
         [] e.off < size -> cutFile(T, e.file, e.off)
         [] e.off > size -> inSync(cutIndex(T, Len(T.index) - 1))

repair(T) ==
    LET t1 == [T EXCEPT !.tailId = T.index[1].file, !.itemOffset = T.index[1].off,
                        !.meta = Max({@, T.index[1].off})]
        t2 == inSync(t1)
        e  == lastEntry(t2)
        n  == t2.itemOffset + Len(t2.index) - 1
    IN reset(Sync([t2 EXCEPT !.itemHidden = t2.meta, !.headId = e.file,
                             !.headBytes = e.off, !.items = n, !.open = TRUE,
                             !.log = SubSeq(@, 1, n)]))

-----------------------------------------------------------------------------
(***************************************************************************)
(* The freezer.                                                            *)
(***************************************************************************)
Init == /\ tab = [t \in Kinds |-> newTable]
        /\ frozen = 0 /\ tail = 0
        /\ wr = Idle /\ syncing = NoSync
        /\ synced = [hi |-> 0, lo |-> 0]
        /\ view = [hi |-> 0, lo |-> 0]
        /\ lost = FALSE
        /\ crashes = 0

\* What a table holds, or will hold once repair has opened it.
Opened(T) == IF T.open THEN T ELSE repair(T)

Window(ts) == LET all == {Opened(ts[t]) : t \in Kinds}
              IN [hi |-> Min({T.items : T \in all}), lo |-> Max({T.itemHidden : T \in all})]

Seen == view' = Window(tab')

Only(S) == wr.op \in S

(***************************************************************************)
(* ModifyAncients: start a batch at the current head, let the callback     *)
(* append item after item to table after table, then commit the tables, in *)
(* the order a Go map is walked, and publish the new head.                 *)
(***************************************************************************)
ModifyAncients ==
    /\ Only({"idle"})
    /\ \E k \in 1 .. MaxBatch :
         /\ frozen + k <= MaxItems
         /\ wr' = [op |-> "append", prev |-> frozen, num |-> frozen, pos |-> 1,
                   upto |-> frozen + k]
    /\ tab' = [t \in Kinds |-> reset(tab[t])]
    /\ UNCHANGED <<frozen, tail, syncing, synced, lost, crashes>>
    /\ Seen

AppendRaw ==
    /\ Only({"append"})
    /\ LET t    == Tables[wr.pos]
           last == wr.pos = Len(Tables)
       IN /\ tab[t].curItem = wr.num \* errOutOrderInsertion otherwise: AppendFails
          /\ \E size \in Sizes[t] :
               /\ fits(tab[t], size) \/ tab[t].headId < MaxFiles
               /\ tab' = [tab EXCEPT ![t] = appendItem(@, Item(wr.num, size))]
          /\ wr' = IF last /\ wr.num + 1 = wr.upto
                   THEN [op |-> "commit", prev |-> wr.prev, left |-> Kinds]
                   ELSE [wr EXCEPT !.pos = IF last THEN 1 ELSE @ + 1,
                                   !.num = IF last THEN @ + 1 ELSE @]
    /\ UNCHANGED <<frozen, tail, syncing, synced, lost, crashes>>
    /\ Seen

CommitTable(t) ==
    /\ Only({"commit"}) /\ t \in wr.left
    /\ tab' = [tab EXCEPT ![t] = commit(@)]
    /\ wr' = [wr EXCEPT !.left = @ \ {t}]
    /\ UNCHANGED <<frozen, tail, syncing, synced, lost, crashes>>
    /\ Seen

CommitDone ==
    /\ Only({"commit"}) /\ wr.left = {}
    /\ \E t \in Kinds : frozen' = tab[t].curItem
    /\ wr' = Idle
    /\ UNCHANGED <<tab, tail, syncing, synced, lost, crashes>>
    /\ Seen

\* The callback returned an error: every table goes back to where it was.
AppendFails ==
    /\ Only({"append"})
    /\ wr' = [op |-> "rollback", n |-> wr.prev, left |-> Kinds]
    /\ UNCHANGED <<tab, frozen, tail, syncing, synced, lost, crashes>>
    /\ Seen

Rollback(t) ==
    /\ Only({"rollback"}) /\ t \in wr.left
    /\ tab' = [tab EXCEPT ![t] = IF headError(@, wr.n) THEN @ ELSE truncateHead(@, wr.n)]
    /\ wr' = IF wr.left = {t} THEN Idle ELSE [wr EXCEPT !.left = @ \ {t}]
    /\ UNCHANGED <<frozen, tail, syncing, synced, lost, crashes>>
    /\ Seen

(***************************************************************************)
(* TruncateHead and TruncateTail, table by table; the new bound is         *)
(* published at the end.                                                   *)
(***************************************************************************)
TruncateHead ==
    /\ Only({"idle"})
    /\ \E n \in 0 .. frozen - 1 : wr' = [op |-> "head", n |-> n, left |-> Kinds]
    /\ UNCHANGED <<tab, frozen, tail, syncing, synced, lost, crashes>>
    /\ Seen

TruncateHeadTable(t) ==
    /\ Only({"head"}) /\ t \in wr.left
    /\ IF headError(tab[t], wr.n)
       THEN wr' = Idle /\ UNCHANGED <<tab, syncing, synced>>
       ELSE /\ tab' = [tab EXCEPT ![t] = truncateHead(@, wr.n)]
            /\ wr' = [wr EXCEPT !.left = @ \ {t}]
            /\ synced' = [synced EXCEPT !.hi = Min({@, wr.n})]
            /\ syncing' = [syncing EXCEPT !.hi = Min({@, wr.n})]
    /\ UNCHANGED <<frozen, tail, lost, crashes>>
    /\ Seen

TruncateHeadDone ==
    /\ Only({"head"}) /\ wr.left = {}
    /\ frozen' = wr.n /\ wr' = Idle
    /\ UNCHANGED <<tab, tail, syncing, synced, lost, crashes>>
    /\ Seen

\* Any tail is accepted, also one above items that are not fsynced yet.
TruncateTail ==
    /\ Only({"idle"})
    /\ \E n \in tail + 1 .. frozen + 1 :
         wr' = [op |-> "tail", n |-> n, left |-> Kinds, hid |-> {}]
    /\ UNCHANGED <<tab, frozen, tail, syncing, synced, lost, crashes>>
    /\ Seen

HideTailTable(t) ==
    /\ Only({"tail"}) /\ wr.hid = {} /\ t \in wr.left
    /\ IF tailError(tab[t], wr.n)
       THEN wr' = Idle /\ UNCHANGED tab
       ELSE IF tab[t].itemHidden >= wr.n
       THEN wr' = [wr EXCEPT !.left = @ \ {t}] /\ UNCHANGED tab
       ELSE /\ tab' = [tab EXCEPT ![t] = hideTail(@, wr.n)]
            /\ wr' = [wr EXCEPT !.hid = {t}]
    /\ UNCHANGED <<frozen, tail, syncing, synced, lost, crashes>>
    /\ Seen

DropTailTable(t) ==
    /\ Only({"tail"}) /\ t \in wr.hid
    /\ tab' = [tab EXCEPT ![t] = dropTail(@)]
    /\ wr' = [wr EXCEPT !.hid = {}, !.left = @ \ {t}]
    /\ UNCHANGED <<frozen, tail, syncing, synced, lost, crashes>>
    /\ Seen

TruncateTailDone ==
    /\ Only({"tail"}) /\ wr.left = {}
    /\ tail' = wr.n /\ wr' = Idle
    /\ UNCHANGED <<tab, frozen, syncing, synced, lost, crashes>>
    /\ Seen

(***************************************************************************)
(* Sync takes no writeLock: it runs next to whatever the writer does.      *)
(***************************************************************************)
Open == ~Only({"crash", "down", "open", "repair", "failed"})

SyncStart ==
    /\ Open /\ ~syncing.on
    /\ synced # [hi |-> frozen, lo |-> tail]
    /\ syncing' = [on |-> TRUE, left |-> Kinds, lo |-> tail,
                   hi |-> IF Only({"head"}) THEN wr.n ELSE frozen]
    /\ UNCHANGED <<tab, frozen, tail, wr, synced, lost, crashes>>
    /\ Seen

SyncTable(t) ==
    /\ syncing.on /\ t \in syncing.left
    /\ tab' = [tab EXCEPT ![t] = Sync(@)]
    /\ syncing' = [syncing EXCEPT !.left = @ \ {t}]
    /\ UNCHANGED <<frozen, tail, wr, synced, lost, crashes>>
    /\ Seen

SyncDone ==
    /\ syncing.on /\ syncing.left = {}
    /\ synced' = [hi |-> Max({synced.hi, syncing.hi}), lo |-> Max({synced.lo, syncing.lo})]
    /\ syncing' = NoSync
    /\ UNCHANGED <<tab, frozen, tail, wr, lost, crashes>>
    /\ Seen

(***************************************************************************)
(* Close fsyncs every table.  A crash keeps what is fsynced of every file  *)
(* and any prefix of the rest.  Both forget the objects in memory.         *)
(***************************************************************************)
forget(T) == [T EXCEPT !.items = 0, !.itemOffset = 0, !.itemHidden = 0, !.headId = 0,
                       !.tailId = 0, !.headBytes = 0, !.dataBuffer = <<>>,
                       !.indexBuffer = <<>>, !.curItem = 0, !.pend = <<>>,
                       !.open = FALSE]

loose(T) == {f \in FileNo : T.dData[f] < Len(T.data[f])}

afterCrash(T) ==
    {forget([T EXCEPT !.index = SubSeq(@, 1, k), !.meta = m,
                      !.data = [f \in FileNo |-> IF f \in loose(T)
                                                 THEN SubSeq(T.data[f], 1, cut[f])
                                                 ELSE T.data[f]]]) :
       k \in T.dIndex .. Len(T.index), m \in {T.meta, T.dMeta},
       cut \in {c \in [loose(T) -> 0 .. MaxFileSize] :
                  \A f \in loose(T) : c[f] \in T.dData[f] .. Len(T.data[f])}}

Stop == /\ wr' = Down /\ syncing' = NoSync
        /\ frozen' = 0 /\ tail' = 0

Close == /\ Only({"idle"})
         /\ tab' = [t \in Kinds |-> forget(Sync(tab[t]))]
         /\ synced' = [hi |-> frozen, lo |-> tail]
         /\ Stop
         /\ UNCHANGED <<lost, crashes>>
         /\ Seen

Crash == /\ ~Only({"down", "crash"}) /\ crashes < MaxCrashes
         /\ wr' = [op |-> "crash", left |-> Kinds]
         /\ crashes' = crashes + 1
         /\ syncing' = NoSync /\ frozen' = 0 /\ tail' = 0
         /\ lost' = (lost \/ view.lo > synced.hi)
         /\ UNCHANGED <<tab, synced>>
         /\ Seen

CrashTable ==
    /\ Only({"crash"})
    /\ LET t == SelectSeq(Tables, LAMBDA u : u \in wr.left)[1]
       IN /\ \E T \in afterCrash(tab[t]) : tab' = [tab EXCEPT ![t] = T]
          /\ wr' = IF wr.left = {t} THEN Down ELSE [wr EXCEPT !.left = @ \ {t}]
    /\ UNCHANGED <<frozen, tail, syncing, synced, lost, crashes>>
    /\ Seen

(***************************************************************************)
(* NewFreezer: open and repair every table, then cut all tables to the     *)
(* same head and tail.                                                     *)
(***************************************************************************)
NewFreezer == /\ Only({"down"})
              /\ wr' = [op |-> "open", left |-> Kinds]
              /\ UNCHANGED <<tab, frozen, tail, syncing, synced, lost, crashes>>
              /\ Seen

OpenTable(t) ==
    /\ Only({"open"}) /\ t \in wr.left
    /\ LET new == [tab EXCEPT ![t] = repair(@)]
       IN /\ tab' = new
          /\ wr' = IF wr.left # {t} THEN [wr EXCEPT !.left = @ \ {t}]
                   ELSE [op |-> "repair", left |-> Kinds,
                         head |-> Min({new[u].items : u \in Kinds}),
                         tail |-> Max({new[u].itemHidden : u \in Kinds})]
    /\ UNCHANGED <<frozen, tail, syncing, synced, lost, crashes>>
    /\ Seen

RepairTable(t) ==
    /\ Only({"repair"}) /\ t \in wr.left
    /\ LET cut == truncateHead(tab[t], wr.head)
       IN IF headError(tab[t], wr.head) \/ tailError(cut, wr.tail)
          THEN wr' = [op |-> "failed"] /\ UNCHANGED tab
          ELSE /\ tab' = [tab EXCEPT ![t] = reset(truncateTail(cut, wr.tail))]
               /\ wr' = [wr EXCEPT !.left = @ \ {t}]
    /\ UNCHANGED <<frozen, tail, syncing, synced, lost, crashes>>
    /\ Seen

RepairDone ==
    /\ Only({"repair"}) /\ wr.left = {}
    /\ frozen' = wr.head /\ tail' = wr.tail /\ wr' = Idle
    /\ UNCHANGED <<tab, syncing, synced, lost, crashes>>
    /\ Seen

(***************************************************************************)
(* ResettableFreezer.Reset closes the freezer, renames its directory away, *)
(* deletes it and opens an empty one.  A crash before the deletion is      *)
(* complete leaves the renamed directory, which the next start deletes.    *)
(***************************************************************************)
Reset == /\ Only({"idle"})
         /\ tab' = [t \in Kinds |-> forget(newTable)]
         /\ synced' = [hi |-> 0, lo |-> 0]
         /\ Stop
         /\ UNCHANGED <<lost, crashes>>
         /\ Seen

Writing == \/ ModifyAncients \/ AppendRaw \/ CommitDone \/ AppendFails
           \/ \E t \in Kinds : CommitTable(t) \/ Rollback(t)
Cutting == \/ TruncateHead \/ TruncateHeadDone \/ TruncateTail \/ TruncateTailDone
           \/ \E t \in Kinds : \/ TruncateHeadTable(t) \/ HideTailTable(t)
                               \/ DropTailTable(t)
Syncing == SyncStart \/ SyncDone \/ \E t \in Kinds : SyncTable(t)
Opening == NewFreezer \/ RepairDone \/ \E t \in Kinds : OpenTable(t) \/ RepairTable(t)

Next == \/ Writing \/ Cutting \/ Syncing \/ Opening \/ Close \/ Reset
        \/ Crash \/ CrashTable

Spec == Init /\ [][Next]_vars

-----------------------------------------------------------------------------
TypeOK == /\ frozen \in 0 .. MaxItems /\ tail \in 0 .. MaxItems
          /\ \A t \in Kinds : /\ tab[t].headId \in FileNo
                              /\ tab[t].itemOffset <= tab[t].itemHidden
                              /\ Len(tab[t].log) <= MaxItems

(***************************************************************************)
(* Every item a table says it has reads back as the bytes it was appended  *)
(* with, one at a time and in ranges of any count and byte limit, at every *)
(* moment the table is open: next to a running batch, after a roll-back,   *)
(* after cuts at both ends and after a crash (Retrieve, RetrieveItems).    *)
(***************************************************************************)
Readable(T) ==
    \A n \in 0 .. T.items - 1 : has(T, n) =>
        /\ Retrieve(T, n) = T.log[n + 1]
        /\ \A limit \in {0, MaxFileSize + 1} :
             LET r == RetrieveItems(T, n, MaxItems, limit)
             IN /\ Len(r) >= 1
                /\ \A k \in DOMAIN r : r[k] = T.log[n + k]

ReadsBack == Open => \A t \in Kinds : Readable(tab[t])

(***************************************************************************)
(* Between operations all tables end at the same item, the published head, *)
(* and start at the same item, the published tail; this holds again after  *)
(* a failed batch and after every restart (roll-back of ModifyAncients,    *)
(* Freezer.repair), unless a crash came while items above the tail were    *)
(* not fsynced: the tail may be ahead of the head then.                    *)
(***************************************************************************)
TablesAligned ==
    Only({"idle"}) /\ ~lost =>
        tail <= frozen /\ \A t \in Kinds : tab[t].items = frozen /\ tab[t].itemHidden = tail

(***************************************************************************)
(* A freezer opens after any crash: neither truncation of Freezer.repair   *)
(* is refused, so the node can start, unless the crash came while the tail *)
(* was above the items that Sync had covered.                              *)
(***************************************************************************)
AlwaysOpens == wr.op = "failed" => lost

(***************************************************************************)
(* The freezer implements the ancient store: what a reader can reach in    *)
(* all tables is a window of the list that only the operations move, and a *)
(* restart keeps everything the last Sync covered, unless the tail was cut *)
(* above that before the crash.                                            *)
(***************************************************************************)
Ancient == INSTANCE AncientStore WITH
    lo  <- view.lo,
    hi  <- view.hi,
    slo <- synced.lo,
    shi <- synced.hi,
    sound <- ~lost

ImplementsAncientStore == Ancient!ASpec
=============================================================================
