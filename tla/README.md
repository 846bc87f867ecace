# TLA+ specification of Pangu

Pangu is a blockchain node in Go. Transactions enter a pool, are ordered by an
external consensus layer, come back in blocks, and are executed by an EVM that
runs transactions without conflicts in parallel. This directory models the parts
of the node that hold state or calculate something hard, checks them with TLC on
small instances, and proves the central properties of its concurrent parts with
TLAPS for every value of the constants.

Every definition is translated from the code under `src/`. `PROJECT.json` has the
map from definitions to lines, the runs, one mutant per property (a plausible
slip in the code that TLC must catch), the hazards of the code with the
properties that watch them, the findings and the theorems.

## The system and the modules

    consensus (external) <-> executor service -> parallel processor -> EVM
                                |      |              |                |
                          pending pool |        StateDB (one object)   precompiles,
                          execution pool              |                pairing libraries
                                |                tries, snapshot tree
                     feeds, subscriptions             |
                                            trie database, block database,
                                            ancient store, key-value stores

### Events and locks (`src/event`, `src/utils/syncx`)

| Module | Models | State and actions |
|---|---|---|
| `Feed` | `event.Feed` | senders at their place in `Send`; `inbox`, `sendCases` as a sequence whose first `active` elements still wait; `sendLock`, `removeSub`. `Subscribe`, `SendLock`, merge, `TrySend` and select of `Send`, both halves of `remove` |
| `ClosableMutex` | `syncx.ClosableMutex`, the lock of the chain | the token in the one-slot channel; `TryLock`, `Unlock`, `Close` |
| `Subscription` | `NewSubscription`, `SubscriptionScope`, `ResubscribeErr`, `event.TypeMux` | producers, owners, the scope's map, the back-off loop; the mux's deliveries against `Unsubscribe` and `Stop`: a `deliver` takes `postMu`, evaluates `s.postC` (`Select`) and waits (`Deliver`), `closewait` closes the channel (`ClosePostC`) and then forgets it (`ForgetPostC`) under the same lock |

### Transaction pool (`src/core/txpool`)

`LegacyPool` is the pool's data: the lists `pending` and `queue`, the lookup, the
virtual nonces, local accounts and heartbeats, with `add`, `removeTx`, the
eviction tick, `SetGasTip` and `runReorg` (`reset`, `promoteExecutables`,
`demoteUnexecutables`, `truncatePending`, `truncateQueue`, announcement). All of
it runs under `pool.mu`, but the state it reads is the StateDB that the executor
writes without that mutex (`Blockchain.StateAt`), so a critical section is split
at the iterations of its loops and the executor's steps may fall in between.
`PoolLifecycle` is its goroutines: `TxPool.loop`, the resetter, callers of
`addTxs`, `scheduleReorgLoop`, `runReorg`, the tickers and `Close`, over the
channels they share; what a run does to the lists is `LegacyPool`'s subject.
`LegacyPoolAddProofs` has the facts about lists and the proofs of the steps that
add to them or go through the accounts; `LegacyPoolProofs` (lists, locals, limits)
and `LegacyPoolNonceProofs` build on it.

### State (`src/core/state`)

`StateDB` models the journaled state: setters, the journal with one undo operator
per entry type, revisions, `Finalise`, `IntermediateRoot` and `Commit`, with
errors of the trie below. `SnapshotTree` models the flat snapshots: a heap of
layer objects with the storage maps they share, `Update`, `Cap` (flatten, and the
merge into the disk layer in two steps), the background generator with its
marker and abort, readers through bloom filter and cache, iterators, `Journal`,
`Disable`, `Rebuild`, crashes and the restart from what is on disk.

### Execution (`src/core`, `src/accesslist`, `src/executor`, `src/core/evm`)

| Module | Models |
|---|---|
| `AccessListOps`, `AccessList` | the indexed access list with its journal, and the list of what instructions touched, with `ConflictDetection` |
| `AccessSet` | what a journaled access list promises; `AccessList` implements it |
| `Processor` | `ClassifyTx`, `Process`, `TxThread`, `ExecuteTx` and the state transition: threads over one StateDB that interleave between any two of its calls, and the serial queue |
| `Executor` | the executor service and the chain between consensus and pools: what a pool queues is promoted and announced by its runs; a transaction that gets past the checks uses its nonce, with a receipt or without; an error of `Process` ends the program |
| `StackOps` | the operation tables of all forks, their stack limits, and what every execute, gas and memory-size function does to the stack; the JUMPDEST analysis |
| `EVMMemory` | memory size, expansion fee, resize and the regions touched, with operands that wrap; `SSTORE` gas and refunds |
| `EVM` | call frames: the call family, `create`, the loop of `Run` in parallel and serial mode |
| `Precompiles` | price, length check and slices of every precompile |
| `ExecutorProofs` | the proofs about the chain, its lock and the call frames |

### Storage (`src/core/rawdb`, `src/ethdb`, `src/trie/triedb`)

| Module | Models |
|---|---|
| `Freezer` | the ancient store: index, data and metadata files, each with how much of it is fsynced; batches, cuts at both ends, `Sync`, crash, repair, `Reset`. `lost` remembers that a crash came while the tail was above what `Sync` covered |
| `AncientStore` | what the ancient store promises, and when it promises nothing any more (`sound`); `Freezer` implements it |
| `ChainDB` | block accessors over the two stores, the freezer thread, crash and start-up checks; the pipeline of `IndexTransactions` and `UnindexTransactions`, which moves the tail and writes no entries |
| `KeyValue` | memory database, batches, prefixed tables, the engines' key ranges and their `Close` |
| `HashDB` | the reference-counted trie node cache with its flush list |

### Algorithms (`src/trie`, `src/crypto`)

| Module | Models |
|---|---|
| `TrieOps`, `Trie` | nodes in memory and stored, insert, delete, get, hash, commit, the tracer, nodes missing from the database; the stack trie |
| `TrieIterator`, `TrieProof`, `TrieSync` | iterators (pre-order, difference, union), Merkle and range proofs, the synchronisation scheduler |
| `Bn256`, `Jacobian` | the google bn256 library: tower of fields, groups, pairing, byte forms |
| `Bn256Cloudflare`, `FieldWords` | the cloudflare library on Montgomery residues with its lattice, and word arithmetic |
| `Bls12381`, `BlsGroup` | fields, groups, pairing engine, maps to the curve and byte forms of bls12-381 |
| `CryptoWalk` | a caller of a pairing library, and the reference definitions the results are compared with |
| `StrictFold` | evaluation by value, as a program does it |

### How components are composed for TLC

`MCEvent`, `MCPoolCalls`, `MCStateDB`, `MCExecution`, `MCEVM`, `MCStorage` and
`MCAlgorithms` instantiate the components. A behaviour of such a module is a
behaviour of one component, chosen at the start by `unit` (`instance`,
`setting`); variables that a component does not use stay constant. The
components whose theorems state a run's property are extended, so the run checks
the very definition that the proof is about.

Where components interact, one of them has the other's contract as a part of its
state: `LegacyPool` has the executor's writes to the shared state, `Executor` has
a pool as a queue, the promoted transactions and a channel, `Processor` the
StateDB's journal, `ChainDB` the ancient store as `AncientStore` specifies it.

## What the runs check

Ten runs pass; two show a disagreement and are expected to find a violation.

| Run | Properties | What they say |
|---|---|---|
| `events` | `RemovalFindsCase`, `Delivered`, `SilentAfterUnsubscribe`, `FeedReturns` | `Feed`: a removal finds its channel in exactly one place, whoever merges the inbox meanwhile; a subscriber gets every value sent while it is subscribed, once, and all subscribers in one order; nothing after `Unsubscribe` returned; `Send` and `Unsubscribe` return |
| | `MutualExclusion`, `SubscriptionsSound` | the mutex and its `Close`; producers' errors are kept, a closed scope tracks nothing, the channel that a delivery of the mux has evaluated is not closed before the delivery is over, no call blocks another for ever |
| `pool_races` | `ListsAgree`, `PendingContiguous`, `VirtualNonce`, `PendingAnnounced` | lookup, lists and heartbeats agree; the pending list has no gap above the state nonce; the virtual nonce is right; what is pending was announced or will be |
| `pool_limits` | `Truncation`, `LocalsKept` | a run ends within the limits and takes from no account below its allowance; local transactions leave only for a reason of their own |
| `pool_goroutines` | `ShutdownClean`, `RequestsSeeRun` | no channel is closed twice, nothing is active or waiting for good after `Close`; whoever waits is woken by the run that took its request |
| `pool_calls` | `CallsReturn` | `Close` and adds return, also with a subscriber that never reads again; with readers, every announced head is reached |
| `state` | `RevertSound`, `BooksInOrder`, `CommitWritten` | a revert restores exactly what the revision saw; dirty counts cover every change; what was changed is in the database after `Commit` |
| | `SnapshotSound` | every snapshot layer, iterator and restart shows exactly the state of its root, at any stage of generation and merge and after any crash; no call on a linear chain panics |
| `execution` | `ListsSound`, `ImplementsAccessSet` | both access lists are well indexed and hold what they should; the journaled list implements the set |
| | `ChainSound`, `PromotedIsExecuted` | the chain is linked, a transaction whose nonce stands gets no receipt in a later block, and the state's nonces are those the blocks have used; what the execution pool has promoted gets into a block unless the service stops or a block ends the program |
| `evm` | `AccessInBounds`, `MemorySound`, `RefundsSound`, `FramesSound` | the interpreter's checks are enough for stack, memory, jump table and precompiles; refunds are covered; no gas or value is created; nothing changes below a static call |
| | `ClassesSound`, `ProcessingSound` | classes lose, duplicate and invent nothing; when `Process` returns, every transaction has one outcome, gas is never counted twice, and a block of one class keeps nonces in order, counts exactly, and creates no money except where a fee cap is below twice the tip |
| `storage` | `FilesSound`, `ImplementsAncientStore` | items read back after a crash anywhere, and the files open again and implement the append-only window unless the tail was cut above what is fsynced |
| | `BlocksSound`, `TablesSound`, `StorageProgress` | canonical blocks are readable at every moment; the index tail passes no block the indexer has not; tables, closed engines and the node cache are sound; freezing, indexing and `Close` end |
| `algorithms` | `CurvesSound`, `NumbersSound` | group laws, bilinearity (except for the points that cloudflare's `G2.Neg` makes of affine ones), decoders and maps; towers and word arithmetic against reference definitions |
| | `TriesSound`, `NodeSetsExact`, `TrieReadsSound`, `SyncSound` | the root depends on the content only; a commit writes and deletes exactly what changed; iterators and proofs are exact; a synchronised node has all that is below it, and the synchronisation ends |
| `state_reuse` | `CommitWritten`, violated | see Disagreements |
| `resubscribe_stuck` | `ResubscribeReturns`, violated | see Disagreements |

### Bounds, and why they are enough

Every bound is a constant in a `.cfg` file or in the `INSTANCE` of an MC module.

- `events`: two senders, two channels, one value each and one buffer slot, any
  number of subscriptions and removals. Two senders are needed for a merge
  between the two halves of `remove`; the index arithmetic of `deactivate` and
  `delete` needs two cases. Three goroutines on the mutex: a holder, one that
  waits and one that closes.
- `pool_races`: one account, nonces 0 to 2, two prices, two balances, limits of
  one slot, two executed transactions, one rollback, one head, one add in flight
  while the executor writes. Three nonces are needed for a gap with something on
  both sides. `pool_limits`: two accounts, five adds, two slots in all, so that
  both are above their allowance at once.
- `pool_goroutines`, `pool_calls`: two adders (one waits), two heads, two runs;
  one adder under fairness. A second head during a reset is the interesting one.
- `state`: one account and slot, absent or stored, one commit; three settings
  divide the setters, since each kind of journal entry is undone on its own:
  storage, self-destruct and creation with journals of three entries; the other
  fields and counters; and two nested revisions over two kinds of entry.
  `SnapshotTree`: two accounts with
  a slot each, a chain of three blocks that changes, destroys and recreates an
  account, one crash, stop, disable or rebuild at any moment; and a fork without
  them, with every depth of `Cap`.
- `execution`: three addresses and two slots, journals of four entries. The
  service: two transactions, two orders, one announcement in each channel, one
  drop by a pool, which is enough for a transaction to be ordered again while an
  old announcement of it still waits.
- `evm`: 64-bit numbers are scaled so that products and sums wrap inside the
  instance; a code of nine bytes contains every alignment of a PUSH; the stack
  limit is just above what the largest instruction needs. Blocks of the processor
  have three transactions in one class or two classes of one, with each kind of
  code (one that earns a refund included), a sender with two transactions so that
  the second pays a raised base fee and meets the refund of the first, and every
  reason to be refused; 625 classifications of four transactions over lists that
  meet and overlap.
- `storage`: two tables, three items over files of two bytes (so that items cross
  to a new file), one crash; three block heights with two side branches. Further
  bounds on the files are stated at `Files` in `MCStorage`: no `Sync` after the
  crash, a tail above what `Sync` covered is cut while no `Sync` runs, the crash
  then comes between operations, and what is left is opened and not used further.
- `algorithms`: curves of the same families with base fields of 7 and 13 bits,
  on which the group tables are known by definition; words of eight bits; tries
  with two nibbles to a byte and radix 4, so that all node shapes and embedded
  nodes occur.

### Fairness

Liveness assumes what the Go scheduler and the code give. A goroutine that can
step on its own does so (weak fairness). A goroutine that competes for a lock or
in a `select` is served if it is enabled again and again (strong fairness on
`SendLock`, `RemoveStep`, the rendezvous of the pool's channels, `FreezeRange`,
`Quits`): Go's mutexes hand over to waiters after a millisecond, waiters on a
channel are served in order, and `select` picks at random. Readers of a
subscribed channel keep reading in `FeedReturns`, as `Send`'s comment demands. In
`pool_calls` no subscriber is assumed to read in the "stalling" setting, and the
callers of `Close`, new heads and new adds are never assumed to come. In
`PromotedIsExecuted` the two loops and the scheduler of an open pool go on;
`SendTx`, a remote call without a deadline, need not return. The network
of the synchronisation answers every request in the end.

## What is proved

The theorems hold for every value of the constants: any number of senders,
goroutines, accounts and transactions, any limits, any number of steps. The
assumptions on the constants are `FeedAssumption`, `LifecycleAssumption`,
`NonceListAssumption` and `LegacyPoolAssumption`; the last two ask for finite sets
of accounts and fees and for the positive limits that `Config.sanitize` enforces.
The theorems about the call frames assume that gas limits are natural numbers and
that the fraction kept back from a callee is not zero (`FramesConstants`; 64 in
the code); those about subscriptions that the names the model uses for no
goroutine and for the caller of `Stop` are not names of subscriptions, and that
the largest back-off is ten units or more, so that a tenth of it is not zero (the
code's unit is the nanosecond). The access list, the chain and its lock assume
nothing. Of the 40 properties that the passing runs check, 15 are theorems as
they stand, and the safety parts of `SubscriptionsSound` and most of `FramesSound`
are theorems too.

| Theorem | States | Module |
|---|---|---|
| `FeedDelivers`, `FeedRemovalFindsCase`, `FeedSilentAfterUnsubscribe` | `Delivered`, `RemovalFindsCase`, `SilentAfterUnsubscribe` | `Feed` |
| `ScopeStaysSound`, `MuxStaysSound`, `ResubscribeStaysSound` | `SubscriptionSound`, `MuxSound`, `ResubscribeSound`: the safety parts of `SubscriptionsSound` | `Subscription` |
| `MutexSafe` | `MutualExclusion` | `ExecutorProofs` |
| `ExecutorChainSound` | `ChainSound` | `ExecutorProofs` |
| `EVMCreatesNoValue`, `EVMStaticCallsWriteNothing` | `ValueNotCreated`, `StaticStep` (an action property): two of the three parts of `FramesSound` | `ExecutorProofs` |
| `PoolListsAgree`, `PoolLookupExact`, `PoolOneTxPerNonce` | `ListsAgree` and its parts | `LegacyPoolProofs` |
| `PoolLocalsKept` | `LocalsKept`, an action property | `LegacyPoolProofs` |
| `PoolPendingContiguous`, `PoolVirtualNonce`, `PoolPendingAnnounced` | the properties of these names | `LegacyPoolNonceProofs` |
| `PoolTruncation` | `Truncation` | `LegacyPoolProofs` |
| `PoolShutsDownClean`, `PoolRequestsSeeRun` | `ShutdownClean`, `RequestsSeeRun` (an action property) | `PoolLifecycle` |
| `ListsStaySound` | `ListsSound` | `AccessList` |
| `ListImplementsSet` | `ImplementsAccessSet`: the indexed list refines `AccessSet` | `AccessList` |

The arguments, and why each property needs a stronger invariant:

- **Feed** (`FeedInv`). That a removal finds its case says nothing about where the
  case is while nobody removes it. `PlacedOK` says that an active channel is in
  the inbox or among `sendCases`, in exactly one of them and once, and `LockOK`
  ties the lock to the sender that may move cases. `GotOK` and `OwedOK` follow one
  value through a `Send`: a channel it is owed to has received it or is still
  among the first `active` cases. That all channels get the values in one order
  (`SameOrder`) then rests on the value being sent being the last one everywhere.
- **Scope** (`ScopeInv`). That the caller who ended a subscription comes back after
  its producer is a matter of who reads which value from the error channel.
  `MarksOK` says that a value in the channel is an error the producer sent while
  the mark was set already, so whoever waits after that can only have been woken
  by the close, and `WaitOK` that the winner waits until then. A scope is emptied
  under its lock (`ScopeOK`).
- **Mux** (`MuxInv`). `Post` delivers from a slice it copied, to subscriptions that
  may be gone from the map, and a delivery waits on the channel it evaluated, not
  on what `postC` is later. `PostersOK` says that a delivery holds `postMu` of a
  channel that is open, `BoxesOK` that a closed channel is locked away, forgotten or
  in no slice, and that what is in a slice and not in the map is being closed;
  `StopOK` that while `Stop` goes through the map, what it has not closed is still
  in its list. The mutant closes the channel without waiting for `postMu`.
- **Resubscribe.** `ResubscribeSound` is inductive as it stands: the wait doubles up
  to the limit and starts over at a tenth of it, and the loop has a live
  subscription only while it waits on it.
- **Mutex.** The token is in the channel, with the holder, or taken by `Close`.
- **Chain** (`ServiceInv`). A block gets what `ExecuteLoop` holds: a header made
  before the wait for transactions, and nonces and receipts made before the write.
  `LoopOK` says that they still fit: nobody else extends the chain, and a
  transaction of this block used a nonce that no block of the chain has used
  (`Fresh`), as it would have been refused otherwise. That a block is not empty
  needs the type of a pool, which never announces nothing.
- **Call frames** (`FramesInv`). A revert brings back an old state, so the sum of
  the balances must be bounded in every snapshot, not only in the present state;
  and below a static call every snapshot taken since must agree with the present
  state in balances and slots (`StaticOK`), or a revert of a callee would be a
  change. `readOnly` is then set, and only the frame that set it can reset it.
- **Pool lists** (`IInv`). The lists of an account hold its own transactions with
  distinct nonces and are disjoint, the lookup is their union, and the
  transaction being added is unknown. `LocalsKept` also needs `Remotely`: what the
  loops have marked for removal never belongs to a local account. One lemma per
  step of the pool; `MoveIsUnion`, `PutOK` and `UpdateOne` are the facts about lists
  that all of them use.
- **Nonces** (`NonceInv`). While a reset recomputes the lists, contiguity and the
  virtual nonce do not hold. The invariant says for each account what holds at
  which stage: the list covers what lies between the state nonce and the virtual
  nonce (`Covered`), has no gap at its front (`Front`), and is contiguous and ends
  at the virtual nonce outside of the recomputation. The executor's writes
  between two iterations only raise the state nonce, which `Covered` and `Front`
  survive. The properties except executions that are rolled back (`rollbacks`).
  `AnnounceInv` adds that an idle run has nothing left to announce.
- **Limits** (`LimitInv`). Inside `truncatePending` and `truncateQueue`, what is
  still above the limit is covered by what remains to be dropped; the cardinality
  of unions of disjoint lists is the work of the proof.
- **Lifecycle** (`LifeInv`). `done` channels are numbered: those below `nextDone`
  belong to runs, and all of them are closed except that of the run under way
  (`ChannelsOK`); `ShutdownOK` says which goroutine may still act at each stage of
  `Close`; `ReplyOK` and `WaitAllOK` that a caller waits for a channel of a run that
  serves its request or will be closed by the shutdown; `ResetOK` the same for the
  resetter.
- **Access list** (`ListInv`). `ListOK`: positions are a bijection between the
  addresses with slots and the array of slot sets. Undoing is right only in
  journal order, as `DeleteSlot` cuts the array at the position it empties;
  `JournalOK` therefore orders the journal: an address before its slots, and
  positions in the order of their first slot. The refinement maps the list to
  `Contents(list)` and the journal to itself.

### What is only model-checked

- Liveness (`FeedReturns`, `CallsReturn`, `PromotedIsExecuted`, `StorageProgress`,
  the end of `SyncSound`) and the statements about who can go on, with `ENABLED`
  (`MutexGoesOn`, `SubscriptionGoesOn` and `MuxGoesOn` in `SubscriptionsSound`): out
  of the prover's reach.
- What recursive definitions calculate: tries, pairings, words, the undo of a
  journal (`RevertSound`, `BooksInOrder`), classification, table folds, and the sum
  of the gas of all frames (`GasStep` in `FramesSound`). Proofs about them need
  induction over data, which the installed provers cannot instantiate.
- `SnapshotSound`, `FilesSound` and the refinement of `AncientStore`, `BlocksSound`,
  `TablesSound`, `ProcessingSound`, `AccessInBounds`, `MemorySound` and
  `RefundsSound`: their models use recursive operators and folds over layers, files,
  transactions and instruction tables.

## Disagreements

Two runs show that the code contradicts a comment:

- `state_reuse`: `Process` commits the one StateDB that `Blockchain.StateAt` hands
  out for every block. From the second block on, its tries are dead, updates are
  refused, and `Commit` returns the old root without an error
  (`src/core/process.go:139`; `src/core/state/statedb.go:998-1002` asks for a new
  instance).
- `resubscribe_stuck`: `Unsubscribe` on a resubscribing subscription blocks for
  ever when its loop has ended by itself (`src/event/subscription.go:146`, against
  the comment at 39-41).

Met while modelling, confirmed with TLC or by reading, and not kept as runs. The
models do what the code does; the properties say what still holds.

- Events: `event.go:104` says that "Stop blocks until all current deliveries have
  finished". A `Post` that read its slice before an `Unsubscribe` took the
  subscription out of the map can deliver after `Stop` returned, while that
  `Unsubscribe` is under way; `MuxSound` says that no other subscription is reached.
- Pool: after a rolled-back execution a pending list can have a gap, which
  `legacypool.go:1599-1600` says "should never happen". The reset goroutine of
  `TxPool.loop` can stay behind when the pool closes (`txpool.go:141`).
- Snapshots: `flatten` takes a storage map over without copying it
  (`difflayer.go:478-482`), so a replaced layer that a reader still holds, and that
  is not stale, shows slots of a later block; `snapshot.go:79-82` promises
  `ErrSnapshotStale`. A side branch that starts at a flattened layer stays in the
  tree although `Cap` means to "remove any layer that is stale or links into a
  stale layer", and a later `Cap` on it panics. A fast iterator drops the
  iterator of a layer that went stale without reporting its error.
- Execution: `ClassifyTx` moves a transaction that already joined a class, so two
  that conflict may run side by side; `MergeAccessList` drops the slots at
  position 0; `ConflictDetection` reports a conflict whenever a slot of a listed
  address is touched, and indexes the slots with -1 when that address has none.
  `UsedGas` loses updates, every message raises the shared base fee, a value is
  deducted with the gas and transferred again, and errors after `BuyGas` keep what
  was paid. The refund counter is not reset between transactions, so a refund is
  paid again to later ones; the coinbase gets the tip for refunded gas too, so
  money is created when a cap is below twice the tip (`NoMoneyCreated` bounds it by
  `subsidies`). A thread that reverts may undo the nonce another thread has set:
  that transaction has a receipt and can get a second one. Code that touches an
  account panics in the serial thread (`TrueAccessList` is nil there), and contract
  creation has no function to call in the parallel one.
- EVM: an error gives the remaining gas back, against `evm.go:75-77`; the call
  family overwrites the result of the conflict check.
- Service: a failed send to consensus and an error of the pool are ignored, and
  the send has no deadline. An error of `Process` panics in `ExecuteLoop`, and a panic
  in one of its threads ends the program too.
- Storage: `WriteAncientBlocks` never succeeds, `ReadBlock` returns nil,
  `WriteBadBlock` appends nothing. A child imported onto a side chain while its
  dangling blocks are deleted survives its parent. `TruncateTail` accepts a tail
  above items that are not fsynced; after a crash the freezer then refuses to open,
  or opens with its head below its tail. The collection of hashes in
  `chain_iterator.go:150-158` is commented out: `indexTransactions` "creates txlookup
  indices" (174) for no transaction, and writes the tail at the end only, not
  "periodically" (177), as it waits for a batch that stays empty.
- Tries: a failed `Delete` leaves entries in the tracer; `VerifyRangeProof` ignores
  the errors of `Update` and does not check that keys lie between the edges;
  embedded leaves do not reach the leaf callback.
- Crypto: `square` of the portable field arithmetic of bls12-381 drops carries in
  `madd2s` (`arithmetic_fallback.go:506-520`) and is then wrong; `NumbersSound`
  states where it is right (`squareDrops`). In the cloudflare package `twistPoint.Neg`
  clears `t` (`twist.go:199-204`), `MakeAffine` returns at once when z is one, and the
  Miller loop multiplies by `t`: the pairing of a negated affine point of G2 is not
  the inverse of the pairing (`PairingSound` excepts points out of form; TLC finds
  the negated generator without the exception). Case 3 of `fp6.frobeniusMap` is wrong and unused;
  in the google package `gfP12.Conjugate` returns its argument, `Double` is wrong
  when the receiver is the operand, and `GT.Unmarshal` takes coordinates above the
  modulus.

## What is not modelled

`PROJECT.json` lists every part with the reason. In general: encodings, data
types, logging, metrics, configuration, generated code, RPC wiring, C libraries
and assembly. Inside the parts that are modelled:

- Pool: the two heaps of the priced list are left open (any remote transaction may
  be the cheapest); every transaction takes one slot; the on-disk journal does
  nothing in this code.
- Execution: transactions that create a contract, the price of data, and what code
  does inside a transaction (an input of `Processor`; `EVM` models the frames).
  Nonces and code hashes are not part of `EVM`, so a creation may be refused at any
  time.
- State: `Copy`, `SetStorage`, preimages, prefetcher; the node runs without
  snapshots, so StateDB and SnapshotTree are not composed. Concurrent calls of
  `Update` and `Cap`, and iterators that a `Cap` overtakes, are not modelled:
  iteration is one step.
- Storage: truncations and renames are durable at once, writes do not fail
  half-way, read-only mode, migration and compression are left out. An item is
  never larger than a file.
- Tries: parallel hashing, leaf collection, node resolver, the path scheme, errors
  of callbacks. A hash is its preimage: collisions are excluded.
- Crypto: random points, pools of integers, the isogeny of G2. The isogeny of G1
  has degree 2 in the instance, 11 in the source.
