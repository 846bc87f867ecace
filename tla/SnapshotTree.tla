---------------------------- MODULE SnapshotTree ----------------------------
(***************************************************************************)
(* The snapshot of core/state/snapshot: a flat copy of one block's state   *)
(* on disk, the diff layers of later blocks above it in memory, the        *)
(* goroutine that generates the flat copy while it is already in use, and  *)
(* what a crash or a shutdown leaves for the next start.                   *)
(*                                                                         *)
(* A key is its place in database order, so that an account sorts before   *)
(* its slots and a generation marker is a number: the keys up to it are    *)
(* covered.  Layers are objects in a heap, because readers keep the layer  *)
(* they were handed while the tree replaces it; the storage maps of a diff *)
(* layer are objects too, because flatten shares them.  A value is a       *)
(* positive number and 0 is an absent item.                                *)
(***************************************************************************)
EXTENDS Integers, SequencesExt

CONSTANTS Key,          \* 1..N: the accounts and slots, in database order
          Owner,        \* the account each key belongs to; an account owns itself
          Block,        \* the state roots
          Genesis, GenesisState,
          Parent,       \* the parent of every other root
          Diff,         \* what its block destructs and writes
          ReadKeys,     \* the keys that readers load into the cache
          Depths,       \* the layers argument of Cap
          MaxObjects, MaxFaults

VARIABLES obj,      \* the layer objects
          smap,     \* the storage maps of diff layers
          layers,   \* Tree.layers: root -> object
          cache,    \* the clean cache the disk layers share
          db,       \* the flat state on disk
          dbRoot, dbMarker, dbJournal, dbDisabled,
          gen,      \* the generator goroutine
          writer,   \* the call that changes the tree
          faults
vars == <<obj, smap, layers, cache, db, dbRoot, dbMarker, dbJournal, dbDisabled, gen, writer, faults>>
disk == <<db, dbRoot, dbMarker, dbJournal, dbDisabled>>

Acct == {k \in Key : Owner[k] = k}
Done == Cardinality(Key) + 1     \* the marker nil: everything is covered
NoMarker == -1                   \* no generator entry on disk
NoRoot == ""
NoJournal == [base |-> NoRoot, diffs |-> <<>>]
Stale == -1                      \* ErrSnapshotStale
NotCovered == -2                 \* ErrNotCoveredYet
Empty == <<>>

Covered(k, marker) == k <= marker

\* What a diff with storage given by value writes, as one map.
Written(d) == [k \in DOMAIN d.acct \cup UNION {DOMAIN d.stor[a] : a \in DOMAIN d.stor} |->
                 IF k \in Acct THEN d.acct[k] ELSE d.stor[Owner[k]][k]]

\* The state a root stands for.
Truth[r \in Block] ==
    IF r = Genesis THEN GenesisState
    ELSE [k \in Key |-> IF k \in DOMAIN Written(Diff[r]) THEN Written(Diff[r])[k]
                        ELSE IF Owner[k] \in Diff[r].destruct THEN 0
                        ELSE Truth[Parent[r]][k]]

-----------------------------------------------------------------------------
(* Layers *)

NewDisk(root, marker, abort) ==
    [kind |-> "disk", root |-> root, stale |-> FALSE, marker |-> marker, abort |-> abort]

IsDiff(o) == o.kind = "diff"

\* The items of a diff layer, its storage maps looked up.
Items(o, maps) == Written([acct |-> o.acct, stor |-> [a \in DOMAIN o.stor |-> maps[o.stor[a]]]])

\* The bloom filter knows every item and, as a negative number, every destruct.
Own(o, maps) == DOMAIN Items(o, maps) \cup {-a : a \in o.destruct}

NewDiff(heap, parent, root, d) ==
    LET accounts == SetToSeq(DOMAIN d.stor)
        maps == heap.smap \o [n \in DOMAIN accounts |-> d.stor[accounts[n]]]
        p == heap.obj[parent]
        o == [kind |-> "diff", root |-> root, parent |-> parent, stale |-> FALSE,
              origin |-> IF IsDiff(p) THEN p.origin ELSE parent,
              destruct |-> d.destruct, acct |-> d.acct,
              stor |-> [a \in DOMAIN d.stor |->
                          Len(heap.smap) + (CHOOSE n \in DOMAIN accounts : accounts[n] = a)],
              bloom |-> {}]
    IN  [obj |-> Append(heap.obj, [o EXCEPT !.bloom = Own(o, maps) \cup
                                                IF IsDiff(p) THEN p.bloom ELSE {}]),
         smap |-> maps]

DiskRead(o, k) ==
    IF o.stale THEN Stale
    ELSE IF ~Covered(k, o.marker) THEN NotCovered
    ELSE IF k \in DOMAIN cache THEN cache[k] ELSE db[k]

RECURSIVE DiffRead(_, _)
DiffRead(i, k) ==
    LET o == obj[i] IN
    IF ~IsDiff(o) THEN DiskRead(o, k)
    ELSE IF o.stale THEN Stale
    ELSE IF k \in DOMAIN Items(o, smap) THEN Items(o, smap)[k]
    ELSE IF Owner[k] \in o.destruct THEN 0
    ELSE DiffRead(o.parent, k)

\* A read skips to the disk layer when the bloom filter rules the key out.
Read(i, k) ==
    LET o == obj[i] IN
    IF IsDiff(o) /\ {k, -Owner[k]} \cap o.bloom = {}
    THEN IF o.stale THEN Stale ELSE DiskRead(obj[o.origin], k)
    ELSE DiffRead(i, k)

\* The layers from i down to the disk.
RECURSIVE Chain(_, _)
Chain(o, i) == IF IsDiff(o[i]) THEN <<i>> \o Chain(o, o[i].parent) ELSE <<i>>
DiffChain(i) == Front(Chain(obj, i))

\* The lists of a diff layer name the accounts it destructs too.
AccountList(o) == DOMAIN o.acct \cup o.destruct
StorageList(o, a) == IF a \in DOMAIN o.stor THEN DOMAIN smap[o.stor[a]] ELSE {}

\* The items of one layer an iterator passes, with 0 for what it deletes.
AccountIterator(o) ==
    IF IsDiff(o) THEN [k \in AccountList(o) |-> IF k \in DOMAIN o.acct THEN o.acct[k] ELSE 0]
    ELSE Restrict(db, {k \in Acct : db[k] # 0})
StorageIterator(o, a) ==
    IF IsDiff(o) THEN [k \in StorageList(o, a) |-> smap[o.stor[a]][k]]
    ELSE Restrict(db, {k \in Key \ Acct : Owner[k] = a /\ db[k] # 0})

\* The layers a fast iterator merges, youngest first: a storage iterator goes no
\* deeper than the layer that destructs its account.
newFastIterator(i, a) ==
    LET chain == Chain(obj, i)
        ends == {n \in DOMAIN chain : IsDiff(obj[chain[n]]) /\ a \in obj[chain[n]].destruct}
    IN  IF ends = {} THEN chain ELSE SubSeq(chain, 1, Min(ends))

\* The youngest layer's item wins and deleted ones are skipped; a = 0 iterates
\* the accounts.
fastIterator(i, a) ==
    LET chain == newFastIterator(i, a)
        layer(n) == IF a = 0 THEN AccountIterator(obj[chain[n]]) ELSE StorageIterator(obj[chain[n]], a)
        youngest == FoldLeft(LAMBDA acc, n : acc @@ layer(n), Empty, [n \in DOMAIN chain |-> n])
    IN  Restrict(youngest, {k \in DOMAIN youngest : youngest[k] # 0})

-----------------------------------------------------------------------------
(* Update and flatten *)

Idle == [pc |-> "idle"]
Off == [pc |-> "off"]
Generator(layer, marker) == [pc |-> "run", layer |-> layer, pos |-> marker, batch |-> Empty]
Down == [pc |-> "down", panicked |-> FALSE]
Panicked == [pc |-> "down", panicked |-> TRUE]

\* A block's diff goes on top of its parent's layer.
Update(r) ==
    LET heap == NewDiff([obj |-> obj, smap |-> smap], layers[Parent[r]], r, Diff[r]) IN
    /\ writer = Idle
    /\ r # Genesis /\ Parent[r] \in DOMAIN layers
    /\ Len(obj) < MaxObjects
    /\ obj' = heap.obj /\ smap' = heap.smap
    /\ layers' = (r :> Len(heap.obj)) @@ layers
    /\ UNCHANGED <<cache, disk, gen, writer, faults>>

\* One step of flatten: the layer o is merged into the maps of f below it.
\* A storage map f does not hold is taken over, not copied.
MergeDown(f, o) ==
    LET kept == Restrict(f.stor, DOMAIN f.stor \ o.destruct)
        both == DOMAIN kept \cap DOMAIN o.stor
    IN  [destruct |-> f.destruct \cup o.destruct,
         acct |-> o.acct @@ Restrict(f.acct, DOMAIN f.acct \ o.destruct),
         stor |-> kept @@ o.stor,
         smap |-> [n \in DOMAIN f.smap |->
                     IF \E a \in both : kept[a] = n
                     THEN f.smap[o.stor[CHOOSE a \in both : kept[a] = n]] @@ f.smap[n]
                     ELSE f.smap[n]]]

\* The heap after the diff layers of chain, top first, are flattened, and the
\* object they become.
Flattened(chain) ==
    LET bottom == obj[Last(chain)]
        top == obj[Head(chain)]
        f == FoldLeft(LAMBDA acc, i : MergeDown(acc, obj[i]),
                      [destruct |-> bottom.destruct, acct |-> bottom.acct, stor |-> bottom.stor, smap |-> smap],
                      Tail(Reverse(chain)))
    IN  IF Len(chain) = 1 THEN [obj |-> obj, smap |-> smap, flat |-> Head(chain)]
        ELSE [obj |-> Append([obj EXCEPT ![Last(chain)].stale = TRUE],
                             [kind |-> "diff", root |-> top.root, parent |-> bottom.parent, stale |-> FALSE,
                              origin |-> bottom.origin, destruct |-> f.destruct, acct |-> f.acct,
                              stor |-> f.stor, bloom |-> top.bloom]),
              smap |-> f.smap, flat |-> Len(obj) + 1]

-----------------------------------------------------------------------------
(* Cap *)

\* The roots of L below the given ones, by the root each layer's parent has.
RECURSIVE Below(_, _, _)
Below(L, o, roots) ==
    LET more == roots \cup {r \in DOMAIN L : IsDiff(o[L[r]]) /\ o[o[L[r]].parent].root \in roots}
    IN  IF more = roots THEN roots ELSE Below(L, o, more)

\* Stale layers leave the tree, and whatever links into them.
Pruned(L, o) == Restrict(L, DOMAIN L \ Below(L, o, {r \in DOMAIN L : o[L[r]].stale}))

RECURSIVE Bloomed(_, _, _, _)
Bloomed(L, o, maps, i) ==
    Own(o[i], maps) \cup
    LET p == o[i].parent IN
    IF ~IsDiff(o[p]) THEN {}
    ELSE IF o[p].root \in DOMAIN L /\ L[o[p].root] = p THEN Bloomed(L, o, maps, p) ELSE o[p].bloom

\* Mutation: the layers above keep their filter and the old disk layer.
NotRebloomed(L, o, maps, base) == o

\* Every layer above the new disk layer gets a new bloom filter and origin.
Rebloomed(L, o, maps, base) ==
    LET above == {L[r] : r \in Below(L, o, {o[base].root}) \cap DOMAIN L} \ {base}
    IN  [i \in DOMAIN o |-> IF i \in above THEN [o[i] EXCEPT !.bloom = Bloomed(L, o, maps, i), !.origin = base]
                            ELSE o[i]]

\* Cap with n layers kept above the disk: the layers below are flattened into
\* one, which goes to disk when it is big, when nothing is to be kept, or while
\* the disk layer has a generator.  Flattening into a stale layer panics.
Cap(r, n, big) ==
    LET chain == DiffChain(layers[r])
        rest == SubSeq(chain, n + 1, Len(chain))
        new == Flattened(rest)
        child == IF n = 0 THEN 0 ELSE chain[n]
        base == new.obj[new.flat].parent
        linked == IF n = 0 THEN new.obj ELSE [new.obj EXCEPT ![child].parent = new.flat]
        tree == (obj[Head(rest)].root :> new.flat) @@ layers
    IN
    /\ writer = Idle
    /\ r \in DOMAIN layers /\ IsDiff(obj[layers[r]])
    /\ rest # <<>> /\ Len(obj) <= MaxObjects - 2
    /\ IF Len(rest) > 1 /\ obj[Last(rest)].stale
       THEN writer' = Panicked /\ UNCHANGED <<obj, smap, layers>>
       ELSE /\ smap' = new.smap
            /\ IF n = 0 \/ big \/ obj[base].abort
               THEN /\ writer' = [pc |-> IF obj[base].abort THEN "abort" ELSE "go", op |-> "merge",
                                  base |-> base, bottom |-> new.flat, child |-> child]
                    /\ obj' = linked /\ layers' = tree
               ELSE /\ writer' = Idle
                    /\ obj' = linked /\ layers' = Pruned(tree, linked)
    /\ UNCHANGED <<cache, disk, gen, faults>>

\* diffToDisk up to the flushes it may make on the way: the first takes the
\* root off the disk with it.
MergeBegin(flush) ==
    LET bottom == obj[writer.bottom]
        base == obj[writer.base]
        wiped == {a \in bottom.destruct : Covered(a, base.marker)}
        gone == {k \in Key : Owner[k] \in wiped}
        accounts == Restrict(bottom.acct, {a \in DOMAIN bottom.acct : Covered(a, base.marker)})
    IN
    /\ writer.pc = "go" /\ writer.op = "merge"
    /\ IF base.stale
       THEN writer' = Panicked /\ UNCHANGED <<obj, cache, disk>>
       ELSE /\ writer' = [writer EXCEPT !.pc = "write"]
            /\ obj' = [obj EXCEPT ![writer.base].stale = TRUE]
            /\ cache' = [a \in wiped |-> 0] @@
                        Restrict(cache, {k \in DOMAIN cache : k \in Acct \/ k \notin gone \/ db[k] = 0})
            /\ IF flush
               THEN /\ db' = accounts @@ [k \in Key |-> IF k \in gone THEN 0 ELSE db[k]]
                    /\ dbRoot' = NoRoot
               ELSE UNCHANGED <<db, dbRoot>>
            /\ UNCHANGED <<dbMarker, dbJournal, dbDisabled>>
    /\ UNCHANGED <<smap, layers, gen, faults>>

\* The last batch: the rest of the items, the new root and the marker.
MergeEnd ==
    LET bottom == obj[writer.bottom]
        base == obj[writer.base]
        gone == {k \in Key : Owner[k] \in {a \in bottom.destruct : Covered(a, base.marker)}}
        items == Items(bottom, smap)
        covered == Restrict(items, {k \in DOMAIN items : Covered(k, base.marker)})
        resume == base.marker # Done /\ base.abort
        new == Len(obj) + 1
        heap == Append(obj, NewDisk(bottom.root, base.marker, resume))
        linked == IF writer.child = 0 THEN heap ELSE [heap EXCEPT ![writer.child].parent = new]
        tree == Pruned((bottom.root :> new) @@ layers, linked)
    IN
    /\ writer.pc = "write"
    /\ writer' = Idle
    /\ db' = covered @@ [k \in Key |-> IF k \in gone THEN 0 ELSE db[k]]
    /\ dbRoot' = bottom.root /\ dbMarker' = base.marker
    /\ cache' = covered @@ cache
    /\ gen' = IF resume THEN Generator(new, base.marker) ELSE gen
    /\ layers' = IF writer.child = 0 THEN bottom.root :> new ELSE tree
    /\ obj' = IF writer.child = 0 THEN linked ELSE Rebloomed(tree, linked, smap, new)
    /\ UNCHANGED <<smap, dbJournal, dbDisabled, faults>>

-----------------------------------------------------------------------------
(* Readers and the generator *)

\* A read that goes to disk leaves what it found in the cache.
Load(k) ==
    /\ k \notin DOMAIN cache
    /\ \E i \in DOMAIN obj : ~IsDiff(obj[i]) /\ ~obj[i].stale /\ Covered(k, obj[i].marker)
    /\ cache' = (k :> db[k]) @@ cache
    /\ UNCHANGED <<obj, smap, layers, disk, gen, writer, faults>>

Aborting == writer.pc = "abort"

\* The item of the trie the generator works for.
InTrie(k) == Truth[obj[gen.layer].root][k]

\* Whether the item on disk is proved to be the trie's.
proveRange(k) == db[k] = InTrie(k)

\* The batch makes an item that is not proved equal to the trie's.
generateRange(k) == IF proveRange(k) THEN gen.batch ELSE (k :> InTrie(k)) @@ gen.batch

\* A storage item without an account, or of an account without storage.
Dangling(k) ==
    k \notin Acct /\ (InTrie(Owner[k]) = 0 \/ \A s \in Key \ Acct : Owner[s] = Owner[k] => InTrie(s) = 0)
removeStorage(k) == IF db[k] # 0 THEN (k :> 0) @@ gen.batch ELSE gen.batch

\* A full batch is written with the marker up to which it is complete; a waiting
\* abort has it written at once and ends the generator.
checkAndFlush(k, batch) ==
    \/ /\ ~Aborting
       /\ gen' = [gen EXCEPT !.pos = k, !.batch = batch]
       /\ UNCHANGED <<obj, db, dbMarker, writer>>
    \/ /\ db' = batch @@ db /\ dbMarker' = k
       /\ obj' = [obj EXCEPT ![gen.layer].marker = k]
       /\ gen' = IF Aborting THEN Off ELSE [gen EXCEPT !.pos = k, !.batch = Empty]
       /\ writer' = IF Aborting THEN [writer EXCEPT !.pc = "go"] ELSE writer

\* The step of the generator over item k: only items the trie holds are
\* followed by checkAndFlush.
Generate(k, batch) ==
    /\ IF InTrie(k) # 0 THEN checkAndFlush(k, batch)
       ELSE /\ gen' = [gen EXCEPT !.pos = k, !.batch = batch]
            /\ UNCHANGED <<obj, db, dbMarker, writer>>
    /\ UNCHANGED <<smap, layers, cache, dbRoot, dbJournal, dbDisabled, faults>>

generateAccounts == gen.pc = "run" /\ LET k == gen.pos + 1 IN k \in Acct /\ Generate(k, generateRange(k))
generateStorages == gen.pc = "run" /\ LET k == gen.pos + 1 IN k \in Key \ Acct /\ ~Dangling(k) /\ Generate(k, generateRange(k))
removeDangling == gen.pc = "run" /\ LET k == gen.pos + 1 IN k \in Key \ Acct /\ Dangling(k) /\ Generate(k, removeStorage(k))

\* All items done: the last batch and the end of generation.
GenerateDone ==
    /\ gen.pc = "run" /\ gen.pos + 1 \notin Key
    /\ db' = gen.batch @@ db /\ dbMarker' = Done
    /\ obj' = [obj EXCEPT ![gen.layer].marker = Done]
    /\ gen' = [gen EXCEPT !.pc = "over", !.batch = Empty]
    /\ UNCHANGED <<smap, layers, cache, dbRoot, dbJournal, dbDisabled, writer, faults>>

\* A trie node is missing: the batch is lost and the generator only waits.
GenerateFails ==
    /\ gen.pc = "run"
    /\ gen' = [gen EXCEPT !.pc = "over", !.batch = Empty]
    /\ UNCHANGED <<obj, smap, layers, cache, disk, writer, faults>>

\* A generator that is over still answers the abort.
GeneratorAborted ==
    /\ gen.pc = "over" /\ Aborting
    /\ gen' = Off
    /\ writer' = [writer EXCEPT !.pc = "go"]
    /\ UNCHANGED <<obj, smap, layers, cache, disk, faults>>

-----------------------------------------------------------------------------
(* Journal, Disable, Rebuild, crash and restart *)

DiskLayer == CHOOSE i \in DOMAIN obj : \E r \in DOMAIN layers :
                 i = IF IsDiff(obj[layers[r]]) THEN obj[layers[r]].origin ELSE layers[r]

generating == obj[DiskLayer].marker # Done

\* Verify rebuilds the root from the iterators: it accepts exactly the items of
\* the root's state.
Verify(r) ==
    LET i == layers[r]
        under(a) == {k \in Key : Truth[r][k] # 0 /\ IF a = 0 THEN k \in Acct ELSE k \notin Acct /\ Owner[k] = a}
    IN  \A a \in {0} \cup DOMAIN fastIterator(i, 0) : fastIterator(i, a) = Restrict(Truth[r], under(a))

\* A call that first stops the generator of the tree's disk layer.
Call(op, root) ==
    /\ writer = Idle /\ faults < MaxFaults
    /\ faults' = faults + 1
    /\ writer' = [pc |-> IF layers # Empty /\ obj[DiskLayer].abort THEN "abort" ELSE "go", op |-> op, root |-> root]
    /\ UNCHANGED <<obj, smap, layers, cache, disk, gen>>

JournalBegin(r) == r \in DOMAIN layers /\ Call("journal", r)

\* A diff layer as the journal keeps it, its storage maps copied.
JournalEntry(o) == [root |-> o.root, destruct |-> o.destruct, acct |-> o.acct,
                    stor |-> [a \in DOMAIN o.stor |-> smap[o.stor[a]]]]

\* The diffs of the layer's chain, bottom first, with the root they start from;
\* a stale layer in the chain makes the journal fail.  The node then stops.
JournalEnd ==
    LET chain == Reverse(Chain(obj, layers[writer.root]))
        base == obj[Head(chain)]
    IN
    /\ writer.pc = "go" /\ writer.op = "journal"
    /\ dbMarker' = IF base.stale THEN dbMarker ELSE base.marker
    /\ dbJournal' = IF \E n \in DOMAIN chain : obj[chain[n]].stale THEN dbJournal
                    ELSE [base |-> obj[DiskLayer].root,
                          diffs |-> [n \in 1..Len(chain) - 1 |-> JournalEntry(obj[chain[n + 1]])]]
    /\ writer' = Down /\ gen' = Off
    /\ obj' = <<>> /\ smap' = <<>> /\ layers' = Empty /\ cache' = Empty
    /\ UNCHANGED <<db, dbRoot, dbDisabled, faults>>

AllStale == [i \in DOMAIN obj |-> IF \E r \in DOMAIN layers : layers[r] = i THEN [obj[i] EXCEPT !.stale = TRUE] ELSE obj[i]]

DisableBegin == Call("disable", NoRoot)
DisableEnd ==
    /\ writer.pc = "go" /\ writer.op = "disable"
    /\ obj' = AllStale /\ layers' = Empty /\ writer' = Idle
    /\ dbDisabled' = TRUE /\ dbRoot' = NoRoot /\ dbJournal' = NoJournal /\ dbMarker' = NoMarker
    /\ UNCHANGED <<smap, cache, db, gen, faults>>

\* A new disk layer that covers nothing yet, and its generator.
Generated(heap, root) ==
    /\ obj' = Append(heap, NewDisk(root, 0, TRUE))
    /\ layers' = root :> Len(heap) + 1
    /\ gen' = Generator(Len(heap) + 1, 0)
    /\ cache' = Empty
    /\ dbRoot' = root /\ dbMarker' = 0
    /\ UNCHANGED <<db, dbJournal>>

RebuildBegin(root) == Len(obj) < MaxObjects /\ Call("rebuild", root)
RebuildEnd ==
    /\ writer.pc = "go" /\ writer.op = "rebuild"
    /\ Generated(AllStale, writer.root)
    /\ dbDisabled' = FALSE
    /\ writer' = Idle
    /\ UNCHANGED <<smap, faults>>

Crash ==
    /\ writer.pc # "down" /\ faults < MaxFaults
    /\ faults' = faults + 1
    /\ writer' = Down /\ gen' = Off
    /\ obj' = <<>> /\ smap' = <<>> /\ layers' = Empty /\ cache' = Empty
    /\ UNCHANGED disk

\* The layers a start finds: the disk layer, and the journal's diffs when they
\* start from it.
Loaded(noBuild) ==
    LET base == NewDisk(dbRoot, dbMarker, dbMarker # Done /\ ~noBuild)
        diffs == IF dbJournal.base = dbRoot THEN dbJournal.diffs ELSE <<>>
    IN  FoldLeft(LAMBDA heap, d : NewDiff(heap, Len(heap.obj), d.root, d),
                 [obj |-> <<base>>, smap |-> <<>>], diffs)

\* The snapshot on disk is usable for the chain's root: a head that differs is
\* only accepted in recovery.
Loads(root, recovery) ==
    /\ dbRoot # NoRoot /\ dbMarker # NoMarker
    /\ Last(Loaded(TRUE).obj).root = root \/ recovery

\* The next start, for the chain's root.  A snapshot that cannot be loaded, or
\* whose head is another root outside recovery, is rebuilt or refused.
New(root, recovery, noBuild) ==
    LET heap == Loaded(noBuild) IN
    /\ writer.pc = "down"
    /\ IF dbDisabled
       THEN /\ writer' = Idle
            /\ UNCHANGED <<obj, smap, layers, cache, disk, gen>>
       ELSE IF Loads(root, recovery)
       THEN /\ writer' = Idle
            /\ obj' = heap.obj /\ smap' = heap.smap
            /\ layers' = [r \in {o.root : o \in Range(heap.obj)} |->
                            CHOOSE i \in DOMAIN heap.obj : heap.obj[i].root = r]
            /\ gen' = IF heap.obj[1].abort THEN Generator(1, dbMarker) ELSE Off
            /\ UNCHANGED <<cache, disk>>
       ELSE /\ ~noBuild
            /\ writer' = Idle
            /\ Generated(<<>>, root)
            /\ UNCHANGED <<smap, dbDisabled>>
    /\ UNCHANGED faults

-----------------------------------------------------------------------------
Init ==
    /\ obj = <<>> /\ smap = <<>> /\ layers = Empty /\ cache = Empty
    /\ db = [k \in Key |-> 0] /\ dbRoot = NoRoot /\ dbMarker = NoMarker
    /\ dbJournal = NoJournal /\ dbDisabled = FALSE
    /\ gen = Off /\ writer = Down /\ faults = 0

Next ==
    \/ \E r \in Block : Update(r)
    \/ \E r \in DOMAIN layers, n \in Depths, big \in BOOLEAN : Cap(r, n, big)
    \/ \E flush \in BOOLEAN : MergeBegin(flush)
    \/ MergeEnd
    \/ \E k \in ReadKeys : Load(k)
    \/ generateAccounts \/ generateStorages \/ removeDangling \/ GenerateDone \/ GenerateFails \/ GeneratorAborted
    \/ \E r \in Block : JournalBegin(r) \/ RebuildBegin(r)
    \/ DisableBegin \/ JournalEnd \/ DisableEnd \/ RebuildEnd \/ Crash
    \/ \E r \in Block, recovery, noBuild \in BOOLEAN : New(r, recovery, noBuild)

Spec == Init /\ [][Next]_vars

-----------------------------------------------------------------------------
(* Properties *)

Refused == {Stale, NotCovered}
Current(i) == \E r \in DOMAIN layers : layers[r] = i

\* What a layer of the tree answers between two calls, through the bloom filter
\* or past it, is the state of its root or a refusal; and as long as the layers
\* below it are the tree's too it never refuses as stale.  (AccountRLP and
\* Storage of both layers, after any Update, Cap and generation.)
LayersTrue ==
    \A r \in DOMAIN layers, k \in Key :
        LET i == layers[r]
            answers == {Read(i, k), DiffRead(i, k)}
        IN  writer = Idle =>
              /\ answers \subseteq {Truth[r][k]} \cup Refused
              /\ (\A n \in DOMAIN Chain(obj, i) : Current(Chain(obj, i)[n])) => Stale \notin answers

\* A layer a reader holds on to after the tree replaced it never gives another
\* block's account.  (flatten, cap and diffToDisk mark or unlink what they change.)
HeldLayersTrue ==
    \A i \in DOMAIN obj, a \in Acct :
        {Read(i, a), DiffRead(i, a)} \subseteq {Truth[obj[i].root][a]} \cup Refused

\* Once nothing is being generated, iterating a layer gives exactly the items of
\* its root.  (The fast iterators that Verify rebuilds the root hash from.)
IteratorsExact ==
    \A r \in DOMAIN layers :
        (/\ writer = Idle /\ ~generating
         /\ \A i \in Range(Chain(obj, layers[r])) : ~obj[i].stale) => Verify(r)

\* At any moment, in the middle of a merge or of generation too, what a start
\* would load from disk is the state of the root it finds there, as far as the
\* marker says, and the journal's layers are the states of their roots.
DiskLoadable ==
    (dbRoot # NoRoot /\ ~dbDisabled) =>
        /\ dbMarker # NoMarker
        /\ \A k \in Key : Covered(k, dbMarker) => db[k] = Truth[dbRoot][k]

\* On a chain without side branches no call of the tree panics.
NoPanic == (\A r, q \in Block \ {Genesis} : Parent[r] = Parent[q] => r = q) => writer # Panicked

\* The snapshot tree keeps all of the above.
SnapshotSound == LayersTrue /\ HeldLayersTrue /\ IteratorsExact /\ DiskLoadable /\ NoPanic
=============================================================================
