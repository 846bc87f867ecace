------------------------------ MODULE ChainDB ------------------------------
(***************************************************************************)
(* Blocks in the database (core/rawdb): a key-value store for recent       *)
(* blocks, the ancient store for old ones, and the background thread that  *)
(* moves canonical blocks from the first to the second and deletes the     *)
(* side blocks it leaves behind (chain_freezer.go).  The ancient store is  *)
(* the one AncientStore specifies and Freezer implements.  A block is a    *)
(* number and the branch it is on; its hash is the block itself.  The      *)
(* second part is the index of transactions.                               *)
(***************************************************************************)
EXTENDS Integers, Sequences, FiniteSets, FiniteSetsExt, SequencesExt

CONSTANTS MaxNum,      \* bound: highest block number
          Forks,       \* Forks[b]: number of the first block of side branch b
          Threshold,   \* chainFreezer.threshold, blocks kept out of the freezer
          BatchLimit,  \* freezerBatchLimit
          MaxCrashes,  \* bound: crashes
          Kind         \* the accessor readers use: "body" or "has"

VARIABLES kv,      \* the key-value store
          anc,     \* the ancient store: hash, header, body... of block i at i + 1
          shi,     \* how many of them the last Sync covers
          fz,      \* the freezer thread
          reader,  \* a thread that looks up a canonical block
          crashes

vars == <<kv, anc, shi, fz, reader, crashes>>

Main   == "main"
Side   == DOMAIN Forks
None   == <<>>
Hash   == {<<n, Main>> : n \in 0 .. MaxNum}
            \cup UNION {{<<n, b>> : n \in Forks[b] .. MaxNum} : b \in Side}
Number(h) == h[1]
Parent(h) == <<h[1] - 1, IF h[2] = Main \/ Forks[h[2]] = h[1] THEN Main ELSE h[2]>>
Parts  == {"headers", "bodies", "receipts", "diffs"}
frozen == Len(anc)

-----------------------------------------------------------------------------
(***************************************************************************)
(* The accessors (accessors_chain.go).  Readers try the ancient store      *)
(* first; it answers only for the hash that was canonical when it was      *)
(* filled.                                                                 *)
(***************************************************************************)
Get(part, h) == h \in kv.parts[part]

ancientHash(n) == IF n < frozen THEN anc[n + 1] ELSE None

isCanon(n, h) == ancientHash(n) = h

ReadCanonicalHash(n) == IF n < frozen THEN anc[n + 1] ELSE kv.canon[n]

ReadHeader(h)   == isCanon(Number(h), h) \/ Get("headers", h)
ReadBody(h)     == isCanon(Number(h), h) \/ Get("bodies", h)
ReadReceipts(h) == isCanon(Number(h), h) \/ Get("receipts", h)
ReadTd(h)       == isCanon(Number(h), h) \/ Get("diffs", h)

ReadHeaderNumber(h) == IF h \in kv.nums THEN Number(h) ELSE -1

ReadAllHashes(n) == {h \in kv.parts["headers"] : Number(h) = n}

\* Canonical hashes of the key-value store from from to below to, at most most.
ReadAllCanonicalHashes(from, to, most) ==
    LET ns == SetToSortSeq({n \in from .. to - 1 : kv.canon[n] # None}, <)
    IN [i \in 1 .. Min({most, Len(ns)}) |-> kv.canon[ns[i]]]

ReadHeadHeader == IF ReadHeaderNumber(kv.head) # -1 /\ ReadHeader(kv.head) THEN kv.head ELSE None

(***************************************************************************)
(* ReadHeaderRange: count headers from number downwards, following parent  *)
(* hashes in the key-value store, then the rest from the ancient store.    *)
(***************************************************************************)
RECURSIVE liveHeaders(_, _)
liveHeaders(h, count) ==
    IF count = 0 \/ h = None \/ Number(h) < frozen \/ ~Get("headers", h) THEN <<>>
    ELSE <<h>> \o IF Number(h) = 0 THEN <<>> ELSE liveHeaders(Parent(h), count - 1)

ReadHeaderRange(number, count) ==
    LET most == Min({count, number + 1})
        live == IF number >= frozen THEN liveHeaders(ReadCanonicalHash(number), most) ELSE <<>>
        i    == number - Len(live)
        left == most - Len(live)
    IN live \o IF left = 0 \/ i >= frozen THEN <<>>
               ELSE Reverse(SubSeq(anc, i + 2 - left, i + 1))

RECURSIVE FindCommonAncestor(_, _)
FindCommonAncestor(a, b) ==
    LET up(h) == IF Number(h) > 0 /\ ReadHeader(Parent(h)) THEN Parent(h) ELSE None
        a1 == IF Number(a) >= Number(b) THEN up(a) ELSE a
        b1 == IF Number(b) >= Number(a) THEN up(b) ELSE b
    IN IF a = b THEN a
       ELSE IF a1 = None \/ b1 = None THEN None
       ELSE FindCommonAncestor(a1, b1)

WriteHeader(db, h)   == [db EXCEPT !.parts["headers"] = @ \cup {h}, !.nums = @ \cup {h}]
WriteBody(db, h)     == [db EXCEPT !.parts["bodies"] = @ \cup {h}]
WriteReceipts(db, h) == [db EXCEPT !.parts["receipts"] = @ \cup {h}]
WriteTd(db, h)       == [db EXCEPT !.parts["diffs"] = @ \cup {h}]
WriteCanonicalHash(db, h) == [db EXCEPT !.canon[Number(h)] = h]
WriteHeadHash(db, h) == [db EXCEPT !.head = h]

writeBlock(db, h) == WriteTd(WriteReceipts(WriteBody(WriteHeader(db, h), h), h), h)

DeleteBlockWithoutNumber(db, hs) == [db EXCEPT !.parts = [p \in Parts |-> @[p] \ hs]]

DeleteBlock(db, hs) == [DeleteBlockWithoutNumber(db, hs) EXCEPT !.nums = @ \ hs]

DeleteCanonicalHash(db, ns) ==
    [db EXCEPT !.canon = [n \in 0 .. MaxNum |-> IF n \in ns THEN None ELSE @[n]]]

-----------------------------------------------------------------------------
Off     == [at |-> "off"]
Waiting == [at |-> "check"]
NoRead  == [at |-> "idle"]

Init == /\ kv = [canon |-> [n \in 0 .. MaxNum |-> IF n = 0 THEN <<0, Main>> ELSE None],
                 nums  |-> {<<0, Main>>},
                 parts |-> [p \in Parts |-> {<<0, Main>>}],
                 head  |-> <<0, Main>>]
        /\ anc = <<>> /\ shi = 0
        /\ fz = Waiting /\ reader = NoRead
        /\ crashes = 0

Running == fz # Off

(***************************************************************************)
(* The chain grows by one canonical block, or stores a side block whose    *)
(* parent it has; each is one batch of the writers WriteHeader, WriteBody, *)
(* WriteReceipts, WriteTd and, for the canonical one, WriteCanonicalHash   *)
(* and WriteHead*Hash.                                                     *)
(***************************************************************************)
WriteCanonicalBlock ==
    /\ Running
    /\ Number(kv.head) < MaxNum
    /\ LET h == <<Number(kv.head) + 1, Main>>
       IN kv' = WriteHeadHash(WriteCanonicalHash(writeBlock(kv, h), h), h)
    /\ UNCHANGED <<anc, shi, fz, reader, crashes>>

WriteSideBlock ==
    /\ Running
    /\ \E h \in Hash : /\ h[2] # Main /\ ~Get("headers", h)
                       /\ Number(h) > frozen /\ Number(h) <= Number(kv.head) + 1
                       /\ ReadHeader(Parent(h))
                       /\ kv' = writeBlock(kv, h)
    /\ UNCHANGED <<anc, shi, fz, reader, crashes>>

(***************************************************************************)
(* WriteAncientBlocks appends to every table but the bodies; the commit of *)
(* the batch then finds the tables at different items, and the whole batch *)
(* is rolled back.                                                         *)
(***************************************************************************)
tablesWritten == {"hashes", "headers", "receipts", "diffs"}

batchAgrees(tables) == tables = {"hashes"} \cup Parts

WriteAncientBlocks ==
    /\ Running /\ reader.at # "locked"
    /\ frozen < Number(kv.head)
    /\ anc' = IF batchAgrees(tablesWritten) THEN Append(anc, <<frozen, Main>>) ELSE anc
    /\ UNCHANGED <<kv, shi, fz, reader, crashes>>

-----------------------------------------------------------------------------
(***************************************************************************)
(* freeze, the background thread.  check: is there anything old enough?    *)
(***************************************************************************)
Due == LET number == ReadHeaderNumber(kv.head)
       IN /\ number # -1
          /\ number >= Threshold
          /\ number - Threshold > frozen
          /\ Get("headers", kv.head)

limit == Min({Number(kv.head) - Threshold, frozen + BatchLimit})

Complete(n) == /\ kv.canon[n] # None
               /\ \A p \in Parts : Get(p, kv.canon[n])

\* Mutant: the blocks are wiped before the ancient store is synced.
FreezeRangeUnsynced ==
    /\ fz.at = "check" /\ Due /\ reader.at # "locked"
    /\ LET first == frozen
           nums  == [i \in 1 .. limit - first + 1 |-> first + i - 1]
           hs    == [i \in DOMAIN nums |-> kv.canon[nums[i]]]
       IN IF \A n \in ToSet(nums) : Complete(n)
          THEN anc' = anc \o hs /\ fz' = [at |-> "wipe", first |-> first, hashes |-> ToSet(hs)]
          ELSE UNCHANGED <<anc, fz>>
    /\ UNCHANGED <<kv, shi, reader, crashes>>

(***************************************************************************)
(* freezeRange appends the canonical blocks first .. limit, or none if a   *)
(* part of one is missing from the key-value store.  It holds writeLock.   *)
(***************************************************************************)
FreezeRange ==
    /\ fz.at = "check" /\ Due /\ reader.at # "locked"
    /\ LET first == frozen
           nums  == [i \in 1 .. limit - first + 1 |-> first + i - 1]
           hs    == [i \in DOMAIN nums |-> kv.canon[nums[i]]]
       IN IF \A n \in ToSet(nums) : Complete(n)
          THEN anc' = anc \o hs /\ fz' = [at |-> "sync", first |-> first, hashes |-> ToSet(hs)]
          ELSE UNCHANGED <<anc, fz>>
    /\ UNCHANGED <<kv, shi, reader, crashes>>

Sync == /\ fz.at = "sync"
        /\ shi' = frozen
        /\ fz' = [fz EXCEPT !.at = "wipe"]
        /\ UNCHANGED <<kv, anc, reader, crashes>>

\* The genesis block stays in the key-value store.
WipeCanonical ==
    /\ fz.at = "wipe"
    /\ LET hs == {h \in fz.hashes : Number(h) # 0}
       IN kv' = DeleteCanonicalHash(DeleteBlockWithoutNumber(kv, hs), {Number(h) : h \in hs})
    /\ fz' = [at |-> "sides", first |-> fz.first]
    /\ UNCHANGED <<anc, shi, reader, crashes>>

(***************************************************************************)
(* Side blocks of the frozen numbers go; those of the last of them are     *)
(* remembered, for their children dangle now.                              *)
(***************************************************************************)
WipeSides ==
    /\ fz.at = "sides"
    /\ LET nums == fz.first .. frozen - 1
           hs   == UNION {ReadAllHashes(n) : n \in nums \ {0}}
           last == IF frozen - 1 \in nums \ {0} THEN ReadAllHashes(frozen - 1) ELSE {}
       IN /\ kv' = DeleteBlock(kv, hs)
          /\ fz' = [at |-> "dangling", tip |-> frozen, dangling |-> last, drop |-> {}]
    /\ UNCHANGED <<anc, shi, reader, crashes>>

\* One height of the walk along the dangling branches; deletions are batched.
StepDangling ==
    /\ fz.at = "dangling" /\ fz.dangling # {}
    /\ LET kids == {h \in ReadAllHashes(fz.tip) : Parent(h) \in fz.dangling}
       IN fz' = [fz EXCEPT !.tip = @ + 1, !.dangling = kids, !.drop = @ \cup kids]
    /\ UNCHANGED <<kv, anc, shi, reader, crashes>>

WipeDangling ==
    /\ fz.at = "dangling" /\ fz.dangling = {}
    /\ kv' = DeleteBlock(kv, fz.drop)
    /\ fz' = Waiting
    /\ UNCHANGED <<anc, shi, reader, crashes>>

-----------------------------------------------------------------------------
(***************************************************************************)
(* A reader of a canonical block.  ReadBodyRLP holds the read lock of the  *)
(* ancient store over its two lookups (ReadAncients); HasHeader does not.  *)
(***************************************************************************)
ReadAncient ==
    /\ Running /\ reader.at = "idle"
    /\ \E n \in 0 .. Number(kv.head) :
         LET h == <<n, Main>>
         IN reader' = [at |-> IF Kind = "body" THEN "locked" ELSE "unlocked",
                       hash |-> h, found |-> isCanon(n, h)]
    /\ UNCHANGED <<kv, anc, shi, fz, crashes>>

ReadLive ==
    /\ reader.at \in {"locked", "unlocked"}
    /\ reader' = [at |-> "done",
                  found |-> reader.found \/ Get(IF Kind = "body" THEN "bodies" ELSE "headers",
                                                reader.hash)]
    /\ UNCHANGED <<kv, anc, shi, fz, crashes>>

ReadReturns == /\ reader.at = "done" /\ reader' = NoRead
               /\ UNCHANGED <<kv, anc, shi, fz, crashes>>

-----------------------------------------------------------------------------
(***************************************************************************)
(* A crash keeps the key-value store and, of the ancient store, at least   *)
(* what was synced.  NewDatabaseWithFreezer refuses to combine stores that *)
(* do not fit.                                                             *)
(***************************************************************************)
Crash ==
    /\ Running /\ crashes < MaxCrashes
    /\ \E n \in shi .. frozen : anc' = SubSeq(anc, 1, n)
    /\ fz' = Off /\ reader' = NoRead
    /\ crashes' = crashes + 1
    /\ UNCHANGED <<kv, shi>>

genesisFits == kv.canon[0] # None /\ frozen > 0 => anc[1] = kv.canon[0]

noGap == (kv.canon[0] # None /\ frozen > 0) =>
             \/ frozen <= MaxNum /\ kv.canon[frozen] # None
             \/ ReadHeaderNumber(kv.head) <= frozen - 1

nothingMoved == (kv.canon[0] # None /\ frozen = 0 /\ kv.head # kv.canon[0]) =>
                    kv.canon[1] # None

Fits == genesisFits /\ noGap /\ nothingMoved

(***************************************************************************)
(* InitDatabaseFromFreezer, for a node whose key-value store was deleted   *)
(* (external) while the ancient store was kept: the hash to number entries *)
(* and the head are written again, and the chain goes on from there.       *)
(***************************************************************************)
InitDatabaseFromFreezer ==
    /\ fz = Off /\ frozen > 0
    /\ kv' = [canon |-> [n \in 0 .. MaxNum |-> None], nums |-> ToSet(anc),
              parts |-> [p \in Parts |-> {}], head |-> Last(anc)]
    /\ UNCHANGED <<anc, shi, fz, reader, crashes>>

NewDatabaseWithFreezer ==
    /\ fz = Off /\ Fits
    /\ fz' = Waiting /\ shi' = frozen
    /\ UNCHANGED <<kv, anc, reader, crashes>>

FreezeStep == Sync \/ WipeCanonical \/ WipeSides \/ StepDangling \/ WipeDangling
Freezing == FreezeRange \/ FreezeStep
Reading  == ReadAncient \/ ReadLive \/ ReadReturns

Next == \/ WriteCanonicalBlock \/ WriteSideBlock \/ WriteAncientBlocks
        \/ Freezing \/ Reading \/ Crash
        \/ InitDatabaseFromFreezer \/ NewDatabaseWithFreezer

(***************************************************************************)
(* The freezer goroutine runs until the node stops, a started read ends,   *)
(* and a stopped node is started again.                                    *)
(***************************************************************************)
Spec == /\ Init /\ [][Next]_vars
        /\ SF_vars(FreezeRange)
        /\ WF_vars(FreezeStep)
        /\ WF_vars(ReadLive) /\ WF_vars(ReadReturns)
        /\ WF_vars(NewDatabaseWithFreezer)

-----------------------------------------------------------------------------
(***************************************************************************)
(* Every canonical block up to the head can be read in full, from one      *)
(* store or the other, under its canonical hash: while it moves, after a   *)
(* crash between any two steps of the move, and whatever side blocks are   *)
(* deleted around it.                                                      *)
(***************************************************************************)
CanonicalReadable ==
    \A n \in 0 .. Number(kv.head) :
        LET h == <<n, Main>>
        IN /\ ReadCanonicalHash(n) = h
           /\ ReadHeader(h) /\ ReadBody(h) /\ ReadReceipts(h) /\ ReadTd(h)
           /\ ReadHeaderNumber(h) = n

(***************************************************************************)
(* The readers that cross the two stores: a range of headers is complete   *)
(* and in order wherever the freezer stands, and a common ancestor, when   *)
(* one is found, is the last one of the two chains.                        *)
(***************************************************************************)
RECURSIVE Ancestry(_)
Ancestry(h) == {h} \cup IF Number(h) = 0 THEN {} ELSE Ancestry(Parent(h))

RangesExact ==
    /\ ReadHeadHeader = kv.head
    /\ \A n \in 0 .. Number(kv.head), count \in 1 .. MaxNum + 1 :
         ReadHeaderRange(n, count) = [i \in 1 .. Min({count, n + 1}) |-> <<n - i + 1, Main>>]
    /\ \A a, b \in kv.parts["headers"] :
         LET c == FindCommonAncestor(a, b)
             common == Ancestry(a) \cap Ancestry(b)
         IN c # None => c \in common /\ \A x \in common : Number(x) <= Number(c)
    /\ \A most \in 1 .. 2 :
         LET hs == ReadAllCanonicalHashes(frozen, MaxNum, most)
         IN \A i \in DOMAIN hs : hs[i] = <<frozen + i - 1, Main>>

(***************************************************************************)
(* A reader that looks into the ancient store and then into the key-value  *)
(* store finds the canonical block it asks for, although the freezer       *)
(* thread may move the block between the two lookups.                      *)
(***************************************************************************)
ReaderFinds == reader.at = "done" => reader.found

(***************************************************************************)
(* After a crash of the node the two stores still fit together, so         *)
(* NewDatabaseWithFreezer accepts them; and a freezer thread that is not   *)
(* in the middle of a cycle leaves no side block at a height it froze.     *)
(***************************************************************************)
StoresFit == /\ fz = Off => Fits
             /\ (fz.at = "check" /\ crashes = 0) =>
                    \A h \in UNION {kv.parts[p] : p \in Parts} :
                        h[2] # Main => Number(h) >= frozen

(***************************************************************************)
(* Once the chain stops growing, every block older than the threshold      *)
(* reaches the ancient store, crashes notwithstanding.                     *)
(***************************************************************************)
CaughtUp == Number(kv.head) - Threshold <= frozen

-----------------------------------------------------------------------------
(***************************************************************************)
(* The transaction indexer (core/rawdb/chain_iterator.go).  One goroutine  *)
(* reads bodies in order, several decode them, and the caller puts what    *)
(* they deliver, in any order, back into sequence with a priority queue    *)
(* before it moves the tail.  Indexing walks down from the block below the *)
(* tail, unindexing walks up from the tail.                                *)
(***************************************************************************)

CONSTANTS Blocks,      \* bound: the chain has blocks 0 .. Blocks - 1
          NumCPU,      \* runtime.NumCPU()
          FlushEvery,  \* blocks passed by unindexing between two writes of the tail
          MaxStops     \* bound: interrupts and crashes

VARIABLES disk,     \* [tail, passed]: the tail key; history: the blocks it stands for
          job,      \* the running IndexTransactions or UnindexTransactions
          rlpCh,    \* bodies read and not yet taken
          hashesCh, \* decoded blocks not yet received
          lookup,   \* the reader: the next number, or "done"
          proc,     \* proc[i]: a decoder, holding a number, "free" or "gone"
          stops

indexVars == <<disk, job, rlpCh, hashesCh, lookup, proc, stops>>

NoJob == [op |-> "none"]
Free  == -1
Gone  == -2
Over  == -2

threads == Min({job.to - job.from, NumCPU})
reverse == job.op = "index"
stepNum(n) == IF reverse THEN n - 1 ELSE n + 1
endNum  == IF reverse THEN job.from - 1 ELSE job.to

IndexInit == /\ disk = [tail |-> Blocks, passed |-> {}]
             /\ job = NoJob /\ rlpCh = <<>> /\ hashesCh = <<>>
             /\ lookup = Over /\ proc = <<>> /\ stops = 0

(***************************************************************************)
(* The caller extends the index downwards or shortens it (external: the    *)
(* ranges start where the stored tail says the index ends).                *)
(***************************************************************************)
start(op, from, to) ==
    /\ job' = [op |-> op, from |-> from, to |-> to, next |-> IF op = "index" THEN to ELSE from,
               queue |-> {}, since |-> {}, blocks |-> 0, interrupt |-> FALSE]
    /\ lookup' = IF op = "index" THEN to - 1 ELSE from
    /\ proc' = [i \in 1 .. Min({to - from, NumCPU}) |-> Free]
    /\ rlpCh' = <<>> /\ hashesCh' = <<>>
    /\ UNCHANGED <<disk, stops>>

IndexTransactions == /\ job = NoJob
                     /\ \E from \in 0 .. disk.tail - 1 : start("index", from, disk.tail)

UnindexTransactions == /\ job = NoJob
                       /\ \E to \in disk.tail + 1 .. Blocks : start("unindex", disk.tail, to)

-----------------------------------------------------------------------------
(***************************************************************************)
(* iterateTransactions.  Sends give way to an interrupt; which of the two  *)
(* ready cases of a select runs is open.                                   *)
(***************************************************************************)
On == job # NoJob

Lookup ==
    /\ On /\ lookup # Over
    /\ \/ /\ lookup # endNum /\ Len(rlpCh) < 2 * threads
          /\ rlpCh' = Append(rlpCh, lookup)
          /\ lookup' = stepNum(lookup)
       \/ /\ lookup = endNum \/ job.interrupt
          /\ lookup' = Over
          /\ UNCHANGED rlpCh
    /\ UNCHANGED <<disk, job, hashesCh, proc, stops>>

\* Mutant: a decoder does not notice that the reader has finished.
TakeOnly(i) ==
    /\ On /\ proc[i] = Free /\ rlpCh # <<>>
    /\ proc' = [proc EXCEPT ![i] = Head(rlpCh)]
    /\ rlpCh' = Tail(rlpCh)
    /\ UNCHANGED <<disk, job, hashesCh, lookup, stops>>

Take(i) ==
    /\ On /\ proc[i] = Free
    /\ \/ /\ rlpCh # <<>>
          /\ proc' = [proc EXCEPT ![i] = Head(rlpCh)]
          /\ rlpCh' = Tail(rlpCh)
       \/ /\ rlpCh = <<>> /\ lookup = Over
          /\ proc' = [proc EXCEPT ![i] = Gone]
          /\ UNCHANGED rlpCh
    /\ UNCHANGED <<disk, job, hashesCh, lookup, stops>>

\* The collection of the hashes is commented out: a delivery is a number.
Deliver(i) ==
    /\ On /\ proc[i] >= 0 /\ Len(hashesCh) < 2 * threads
    /\ hashesCh' = Append(hashesCh, proc[i])
    /\ proc' = [proc EXCEPT ![i] = Free]
    /\ UNCHANGED <<disk, job, rlpCh, lookup, stops>>

\* The body does not decode, or the interrupt is seen: the decoder ends.
Leave(i) ==
    /\ On /\ proc[i] >= 0
    /\ job.interrupt \/ stops < MaxStops
    /\ proc' = [proc EXCEPT ![i] = Gone]
    /\ stops' = IF job.interrupt THEN stops ELSE stops + 1
    /\ UNCHANGED <<disk, job, rlpCh, hashesCh, lookup>>

-----------------------------------------------------------------------------
(***************************************************************************)
(* The receiving loop: queue the delivery, then pass over what is next in  *)
(* sequence.  Without hashes the batch of lookup entries stays empty, so   *)
(* only the tail is ever written: by unindexTransactions every FlushEvery  *)
(* blocks, by indexTransactions, which waits for the batch to grow, never  *)
(* before the end.  History: since, the blocks passed after the last       *)
(* write, and passed, those that indexing jobs have passed and unindexing  *)
(* ones have not, at the last write.                                       *)
(***************************************************************************)
nextNumber(j) == IF j.op = "index" THEN j.next - 1 ELSE j.next

write(d, j) ==
    [tail |-> j.next,
     passed |-> IF j.op = "index" THEN d.passed \cup j.since ELSE d.passed \ j.since]

RECURSIVE drain(_, _)
drain(d, j) ==
    LET n  == nextNumber(j)
        j1 == [j EXCEPT !.queue = @ \ {n}, !.since = @ \cup {n}, !.blocks = @ + 1,
                        !.next = IF j.op = "index" THEN n ELSE n + 1]
    IN IF n \notin j.queue THEN <<d, j>>
       ELSE IF j.op = "unindex" /\ j1.blocks % FlushEvery = 0
            THEN drain(write(d, j1), [j1 EXCEPT !.since = {}])
            ELSE drain(d, j1)

Receive ==
    /\ On /\ hashesCh # <<>>
    /\ LET r == drain(disk, [job EXCEPT !.queue = @ \cup {Head(hashesCh)}])
       IN disk' = r[1] /\ job' = r[2]
    /\ hashesCh' = Tail(hashesCh)
    /\ UNCHANGED <<rlpCh, lookup, proc, stops>>

\* The last decoder has closed hashesCh: the tail is written.
Finish ==
    /\ On /\ hashesCh = <<>> /\ \A i \in DOMAIN proc : proc[i] = Gone
    /\ disk' = write(disk, job)
    /\ job' = NoJob
    /\ rlpCh' = <<>> /\ lookup' = Over /\ proc' = <<>>
    /\ UNCHANGED <<hashesCh, stops>>

Interrupt ==
    /\ On /\ ~job.interrupt /\ stops < MaxStops
    /\ job' = [job EXCEPT !.interrupt = TRUE]
    /\ stops' = stops + 1
    /\ UNCHANGED <<disk, rlpCh, hashesCh, lookup, proc>>

IndexCrash ==
    /\ On /\ stops < MaxStops
    /\ job' = NoJob /\ rlpCh' = <<>> /\ hashesCh' = <<>> /\ lookup' = Over /\ proc' = <<>>
    /\ stops' = stops + 1
    /\ UNCHANGED disk

Working == Lookup \/ Receive \/ Finish
             \/ \E i \in DOMAIN proc : Take(i) \/ Deliver(i)

IndexNext == \/ IndexTransactions \/ UnindexTransactions \/ Interrupt \/ IndexCrash
             \/ Working \/ \E i \in DOMAIN proc : Leave(i)

\* Goroutines that can run do run.
IndexSpec == IndexInit /\ [][IndexNext]_indexVars /\ WF_indexVars(Working)

-----------------------------------------------------------------------------
(***************************************************************************)
(* The tail on disk moves over no block that the loop has not passed, in   *)
(* either direction: from the tail on are exactly the blocks that indexing *)
(* jobs have passed and unindexing ones have not.  Bodies are decoded out  *)
(* of order, a body may not decode, the job may be interrupted and the     *)
(* node may crash between any two steps.                                   *)
(***************************************************************************)
TailExact == disk.passed = disk.tail .. Blocks - 1
=============================================================================
