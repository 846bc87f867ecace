-------------------------- MODULE ExecutorProofs ---------------------------
(***************************************************************************)
(* Proofs about the execution of blocks: the lock of the chain admits one  *)
(* goroutine at a time; what the executor service appends to the chain is  *)
(* linked, uses a nonce that stands once only, and agrees with the state;  *)
(* and the call frames of a transaction create no value and write nothing  *)
(* from inside a static call.                                              *)
(***************************************************************************)
EXTENDS Executor, ClosableMutex, EVM, TLAPS

-----------------------------------------------------------------------------
(* The lock. *)

\* The inductive invariant.
MutexInv == MutexTypeOK /\ MutualExclusion

\* A new mutex has its token and no holder.
LEMMA InitMutexInv == MutexInit => MutexInv
  BY Zenon DEF MutexInit, MutexInv, MutexTypeOK, MutualExclusion, MutexState

\* Every operation of a goroutine keeps the invariant.
LEMMA NextMutexInv == MutexInv /\ [MutexNext]_mutexVars => MutexInv'
<1> SUFFICES ASSUME MutexInv, [MutexNext]_mutexVars PROVE MutexInv'
  BY Zenon
<1> USE DEF MutexInv, MutexTypeOK, MutualExclusion, MutexState
<1>1. ASSUME NEW p \in Proc, CallTryLock(p) PROVE MutexInv'
  BY <1>1, Zenon DEF CallTryLock
<1>2. ASSUME NEW p \in Proc, TryLock(p) PROVE MutexInv'
  BY <1>2, Zenon DEF TryLock
<1>3. ASSUME NEW p \in Proc, Unlock(p) PROVE MutexInv'
  BY <1>3, Zenon DEF Unlock
<1>4. ASSUME NEW p \in Proc, CallClose(p) PROVE MutexInv'
  BY <1>4, Zenon DEF CallClose
<1>5. ASSUME NEW p \in Proc, Close(p) PROVE MutexInv'
  BY <1>5, Zenon DEF Close
<1>6. ASSUME NEW p \in Proc, GoOn(p) PROVE MutexInv'
  BY <1>6, Zenon DEF GoOn
<1>7. CASE UNCHANGED mutexVars
  BY <1>7, Zenon DEF mutexVars
<1>8. QED
  BY <1>1, <1>2, <1>3, <1>4, <1>5, <1>6, <1>7, Zenon DEF MutexNext, MutexStep

\* For any set of goroutines, the critical section of chainmu has at most one
\* of them in it.
THEOREM MutexSafe == MutexSpec => []MutualExclusion
<1>1. MutexInv => MutualExclusion
  BY Zenon DEF MutexInv
<1>2. QED
  BY <1>1, InitMutexInv, NextMutexInv, PTL DEF MutexSpec

-----------------------------------------------------------------------------
(* The chain.  ChainSound is not inductive: the block that is written is   *)
(* the one ExecuteLoop holds, its transactions come from the announcements *)
(* of the execution pool, and these from what a run has promoted.          *)

\* A pool as the service sees it: it never announces nothing.
Pool == [queue : SUBSET Txs, pending : SUBSET Txs, ev : SUBSET Txs,
         ch : Seq((SUBSET Txs) \ {{}}), open : BOOLEAN]

Block == [number : Nat, parent : Nat, txs : SUBSET Txs, kept : SUBSET Txs, receipts : SUBSET Txs]

Loop == [at : {"top", "select", "process", "write", "over", "dead"}, block : Block]

Sender == [at : {"select", "send", "over"}, txs : SUBSET Txs]

ServiceTypeOK ==
    /\ pend \in Pool /\ exec \in Pool
    /\ net \subseteq Txs /\ nonces \subseteq Txs
    /\ loop \in Loop
    /\ chain \in Seq(Block) /\ Len(chain) >= 1
    /\ sender \in Sender

\* Block i of the chain has number i - 1, also the genesis block.
Numbered == \A i \in DOMAIN chain : chain[i].number = i - 1

\* A block uses only nonces that no block of the chain has used.
Fresh(block) == Kept \cap (block.receipts \cup block.kept) = {}

\* What ExecuteLoop holds fits on the chain as it is.
LoopOK ==
    /\ loop.at \in {"select", "process", "write"} =>
          loop.block.number = Len(chain) /\ loop.block.parent = Len(chain) - 1
    /\ loop.at \in {"process", "write"} => loop.block.txs # {}
    /\ loop.at = "write" => ReceiptsSound(loop.block) /\ Fresh(loop.block)

ServiceInv == ServiceTypeOK /\ Numbered /\ LoopOK /\ ChainSound

\* The genesis block has nothing in it.
LEMMA GenesisIs ==
    /\ Genesis \in Block /\ Genesis.number = 0 /\ Genesis.txs = {}
    /\ Genesis.kept = {} /\ Genesis.receipts = {} /\ ReceiptsSound(Genesis)
BY DEF Genesis, Block, ReceiptsSound

\* The two ways in which a block is filled in.
Headed(b, m, k)   == [b EXCEPT !.number = m, !.parent = k]
Filled(b, ks, rs) == [b EXCEPT !.kept = ks, !.receipts = rs]

LEMMA HeadedBlock ==
    ASSUME NEW b \in Block, NEW m \in Nat, NEW k \in Nat
    PROVE  /\ Headed(b, m, k) \in Block
           /\ Headed(b, m, k).number = m /\ Headed(b, m, k).parent = k
<1> DEFINE c == [b EXCEPT !.number = m]
<1>1. c \in Block /\ c.number = m
  BY Zenon DEF Block
<1>2. Headed(b, m, k) = [c EXCEPT !.parent = k]
  BY DEF Headed
<1> HIDE DEF c
<1>3. [c EXCEPT !.parent = k] \in Block /\ [c EXCEPT !.parent = k].parent = k /\ [c EXCEPT !.parent = k].number = m
  BY <1>1, Zenon DEF Block
<1> QED
  BY <1>2, <1>3, Zenon

LEMMA FilledBlock ==
    ASSUME NEW b \in Block, NEW ks \in SUBSET Txs, NEW rs \in SUBSET Txs
    PROVE  /\ Filled(b, ks, rs) \in Block
           /\ Filled(b, ks, rs).number = b.number /\ Filled(b, ks, rs).parent = b.parent
           /\ Filled(b, ks, rs).txs = b.txs
           /\ Filled(b, ks, rs).kept = ks /\ Filled(b, ks, rs).receipts = rs
<1> DEFINE c == [b EXCEPT !.kept = ks]
           d == [c EXCEPT !.receipts = rs]
<1>1. c \in Block /\ c.kept = ks /\ c.number = b.number /\ c.parent = b.parent /\ c.txs = b.txs
  BY Zenon DEF Block
<1>2. Filled(b, ks, rs) = d
  BY DEF Filled
<1> HIDE DEF c
<1>3. d \in Block /\ d.receipts = rs /\ d.kept = ks /\ d.number = c.number /\ d.parent = c.parent /\ d.txs = c.txs
  BY <1>1, Zenon DEF Block
<1> HIDE DEF d
<1> QED
  BY <1>1, <1>2, <1>3, Zenon

\* A new service: empty pools, the genesis block, nothing executed.
LEMMA InitService == ServiceInit => ServiceInv
<1> SUFFICES ASSUME ServiceInit PROVE ServiceInv
  BY Zenon
<1>1. DOMAIN chain = {1} /\ Len(chain) = 1 /\ chain[1] = Genesis /\ chain \in Seq(Block)
  BY GenesisIs DEF ServiceInit
<1>2. Kept = {}
  BY <1>1, GenesisIs, Zenon DEF Kept
<1>3. NewPool \in Pool
  BY DEF NewPool, Pool
<1>4. loop \in Loop /\ loop.at = "top" /\ sender \in Sender
  BY GenesisIs DEF ServiceInit, Loop, Sender
<1>5. ServiceTypeOK
  BY <1>1, <1>3, <1>4 DEF ServiceInit, ServiceTypeOK
<1>6. LoopOK
  BY <1>4, Zenon DEF LoopOK
<1>7. ChainSound
  BY <1>1, <1>2, <1>4, GenesisIs DEF ServiceInit, ChainSound
<1> QED
  BY <1>1, <1>5, <1>6, <1>7, GenesisIs DEF ServiceInv, Numbered

\* A pool stays a pool when transactions are added and dropped.
LEMMA AddKeepsPool ==
    ASSUME NEW pool \in Pool, NEW ts \in SUBSET Txs, NEW gone
    PROVE  Add(pool, ts, gone) \in Pool
BY Zenon DEF Pool, Add

\* A pool stays a pool when it runs, ...
LEMMA RunKeepsPool ==
    ASSUME NEW pool \in Pool, NEW unpaid, NEW over, NEW reset
    PROVE  runReorg(pool, unpaid, over, reset) \in Pool
BY Zenon DEF Pool, runReorg

\* ... and when it announces what the run has promoted.
LEMMA AnnouncedKeepsPool ==
    ASSUME NEW pool \in Pool, announces(pool)
    PROVE  announced(pool) \in Pool
<1>1. /\ Append(pool.ch, pool.ev) \in Seq((SUBSET Txs) \ {{}}) /\ pool.ch \in Seq((SUBSET Txs) \ {{}})
      /\ pool.ev \in SUBSET Txs
  BY DEF Pool, announces
<1> QED
  BY <1>1, Zenon DEF Pool, announced

\* The rest of the invariant is about chain, loop and nonces only.
LEMMA ChainUntouched ==
    ASSUME ServiceInv, UNCHANGED <<loop, chain, nonces>>
    PROVE  Numbered' /\ LoopOK' /\ ChainSound'
<1>1. Kept' = Kept
  BY Zenon DEF Kept
<1> QED
  BY <1>1, Zenon DEF ServiceInv, Numbered, LoopOK, Fresh, ChainSound

PoolStep == \/ AddTxToPendingPool \/ AddTxToExecutionPool \/ RunPendingPool \/ RunExecutionPool
            \/ Selecting \/ SendTx \/ CommitBlock \/ Stop

\* The calls of clients and of the consensus layer, SendLoop, the runs of the
\* pools and Stop.
LEMMA PoolSteps == ASSUME ServiceInv, PoolStep PROVE ServiceInv'
<1>1. UNCHANGED <<loop, chain, nonces>>
  BY Zenon DEF PoolStep, AddTxToPendingPool, AddTxToExecutionPool, RunPendingPool, RunExecutionPool,
         Selecting, SendLoop, SendTx, SendLoopEnds, CommitBlock, Stop
<1>2. pend \in Pool /\ exec \in Pool /\ net \subseteq Txs /\ sender \in Sender
  BY Zenon DEF ServiceInv, ServiceTypeOK
<1>3. pend' \in Pool /\ exec' \in Pool /\ net' \subseteq Txs /\ sender' \in Sender
  <2>1. CASE AddTxToPendingPool
    BY <2>1, <1>2, AddKeepsPool, Zenon DEF AddTxToPendingPool
  <2>2. CASE AddTxToExecutionPool
    BY <2>2, <1>2, AddKeepsPool, Zenon DEF AddTxToExecutionPool
  <2>3. CASE SendLoop
    <3>1. /\ Head(pend.ch) \in SUBSET Txs
          /\ Tail(pend.ch) \in Seq((SUBSET Txs) \ {{}})
      BY <2>3, <1>2 DEF SendLoop, Pool
    <3>2. pend' \in Pool
      BY <2>3, <1>2, <3>1, Zenon DEF SendLoop, Pool
    <3> QED
      BY <2>3, <1>2, <3>1, <3>2, Zenon DEF SendLoop, Sender
  <2>4. CASE SendTx
    <3>1. PICK t \in sender.txs, delivered \in BOOLEAN :
            /\ sender' = [txs |-> sender.txs \ {t}, at |-> IF sender.txs = {t} THEN "select" ELSE "send"]
            /\ net' = IF delivered THEN net \cup {t} ELSE net
      BY <2>4, Zenon DEF SendTx
    <3>2. sender' \in Sender /\ net' \subseteq Txs
      BY <3>1, <1>2 DEF Sender
    <3> QED
      BY <2>4, <3>2, <1>2, Zenon DEF SendTx
  <2>5. CASE SendLoopEnds
    BY <2>5, <1>2, Zenon DEF SendLoopEnds, Sender
  <2>6. CASE CommitBlock
    <3>1. PICK ts \in (SUBSET net) \ {{}}, gone \in SUBSET held(exec) :
             exec' = Add(Add(exec, ts \cap held(pend), gone), ts \ (ts \cap held(pend)), {})
      BY <2>6, Zenon DEF CommitBlock
    <3>2. Add(exec, ts \cap held(pend), gone) \in Pool
      BY <1>2, AddKeepsPool, Zenon
    <3>3. exec' \in Pool
      BY <1>2, <3>1, <3>2, AddKeepsPool, Zenon
    <3> QED
      BY <2>6, <1>2, <3>3, Zenon DEF CommitBlock
  <2>7. CASE RunPendingPool
    BY <2>7, <1>2, RunKeepsPool, AnnouncedKeepsPool, Zenon DEF RunPendingPool
  <2>8. CASE RunExecutionPool
    BY <2>8, <1>2, RunKeepsPool, AnnouncedKeepsPool, Zenon DEF RunExecutionPool
  <2>9. CASE Stop
    <3>1. [exec EXCEPT !.open = FALSE] \in Pool /\ [pend EXCEPT !.open = FALSE] \in Pool
      BY <1>2, Zenon DEF Pool
    <3> QED
      BY <2>9, <1>2, <3>1, Zenon DEF Stop
  <2> QED
    BY <2>1, <2>2, <2>3, <2>4, <2>5, <2>6, <2>7, <2>8, <2>9, Zenon DEF PoolStep, Selecting
<1>4. ServiceTypeOK'
  BY <1>1, <1>3, Zenon DEF ServiceInv, ServiceTypeOK
<1> QED
  BY <1>1, <1>4, ChainUntouched, Zenon DEF ServiceInv

\* initHeader numbers the next block after the last one.
LEMMA InitHeaderStep == ASSUME ServiceInv, InitHeader PROVE ServiceInv'
<1> USE DEF ServiceInv
<1>1. UNCHANGED <<pend, exec, net, chain, nonces, sender>> /\ loop.at = "top"
  BY Zenon DEF InitHeader
<1>2. CurrentBlock.number = Len(chain) - 1 /\ Len(chain) \in Nat /\ Len(chain) >= 1
  BY DEF ServiceTypeOK, Numbered, CurrentBlock
<1>3. loop' = [at |-> "select", block |-> [Genesis EXCEPT !.number = Len(chain), !.parent = Len(chain) - 1]]
  BY <1>2 DEF InitHeader
<1>4. /\ loop' \in Loop /\ loop'.at = "select"
      /\ loop'.block.number = Len(chain) /\ loop'.block.parent = Len(chain) - 1
  <2> DEFINE b == Headed(Genesis, Len(chain), Len(chain) - 1)
  <2>1. b \in Block /\ b.number = Len(chain) /\ b.parent = Len(chain) - 1
    <3> DEFINE m == Len(chain)
               k == Len(chain) - 1
    <3>1. m \in Nat /\ k \in Nat /\ Genesis \in Block
      BY <1>2, GenesisIs
    <3> HIDE DEF m, k, ServiceInv
    <3>2. /\ Headed(Genesis, m, k) \in Block
          /\ Headed(Genesis, m, k).number = m /\ Headed(Genesis, m, k).parent = k
      BY <3>1, HeadedBlock
    <3> QED
      BY <3>2, Zenon DEF m, k
  <2>2. loop' = [at |-> "select", block |-> b]
    BY <1>3, Zenon DEF Headed
  <2> HIDE DEF b
  <2> QED
    BY <2>1, <2>2 DEF Loop
<1>5. ServiceTypeOK'
  BY <1>1, <1>4, Zenon DEF ServiceTypeOK
<1>6. LoopOK'
  BY <1>1, <1>4, Zenon DEF LoopOK
<1>7. Kept' = Kept
  BY <1>1, Zenon DEF Kept
<1>8. ChainSound'
  BY <1>1, <1>4, <1>7, Zenon DEF ChainSound
<1> QED
  BY <1>1, <1>5, <1>6, <1>8, Zenon DEF Numbered

\* The loop takes an announcement, which is not empty.
LEMMA TakeEventStep == ASSUME ServiceInv, TakeEvent PROVE ServiceInv'
<1> USE DEF ServiceInv
<1>1. UNCHANGED <<pend, net, chain, nonces, sender>> /\ loop.at = "select" /\ exec.ch # <<>>
  BY Zenon DEF TakeEvent
<1>2. /\ Head(exec.ch) \in (SUBSET Txs) \ {{}}
      /\ Tail(exec.ch) \in Seq((SUBSET Txs) \ {{}})
  BY <1>1 DEF ServiceTypeOK, Pool
<1>3. exec' \in Pool
  BY <1>2, Zenon DEF TakeEvent, ServiceTypeOK, Pool
<1>4. /\ loop' \in Loop /\ loop'.at = "process"
      /\ loop'.block.number = loop.block.number /\ loop'.block.parent = loop.block.parent
      /\ loop'.block.txs = loop.block.txs \cup Head(exec.ch)
  <2> DEFINE b == [loop.block EXCEPT !.txs = @ \cup Head(exec.ch)]
  <2>1. loop.block \in Block
    BY Zenon DEF ServiceTypeOK, Loop
  <2>2. /\ b \in Block /\ b.number = loop.block.number /\ b.parent = loop.block.parent
        /\ b.txs = loop.block.txs \cup Head(exec.ch)
    BY <1>2, <2>1, Zenon DEF Block
  <2> HIDE DEF b
  <2>3. loop' = [at |-> "process", block |-> b]
    BY DEF TakeEvent, ServiceTypeOK, Loop, b
  <2> QED
    BY <2>2, <2>3 DEF Loop
<1>5. ServiceTypeOK'
  BY <1>1, <1>3, <1>4, Zenon DEF ServiceTypeOK
<1>6. LoopOK'
  BY <1>1, <1>2, <1>4, Zenon DEF LoopOK
<1>7. Kept' = Kept
  BY <1>1, Zenon DEF Kept
<1>8. ChainSound'
  BY <1>1, <1>4, <1>7, Zenon DEF ChainSound
<1> QED
  BY <1>1, <1>5, <1>6, <1>8, Zenon DEF Numbered

\* Process gives receipts and takes nonces only where the state's nonce is
\* still the transaction's, and the state then is one block ahead of the chain.
LEMMA ProcessStep == ASSUME ServiceInv, Process PROVE ServiceInv'
<1> USE DEF ServiceInv
<1>1. UNCHANGED <<pend, exec, net, chain, sender>> /\ loop.at = "process"
  BY Zenon DEF Process
<1>2. PICK ok \in SUBSET (loop.block.txs \ nonces), kept \in SUBSET (loop.block.txs \ nonces) :
         /\ Cardinality(loop.block.txs) = 1 => ok \subseteq kept
         /\ nonces' = nonces \cup kept
         /\ loop' = [at |-> "write", block |-> [loop.block EXCEPT !.kept = kept, !.receipts = ok]]
  BY Zenon DEF Process
<1>3. /\ loop' \in Loop /\ loop'.at = "write"
      /\ loop'.block.number = loop.block.number /\ loop'.block.parent = loop.block.parent
      /\ loop'.block.txs = loop.block.txs /\ loop'.block.kept = kept /\ loop'.block.receipts = ok
  <2> DEFINE b == Filled(loop.block, kept, ok)
  <2>1. loop.block \in Block
    BY Zenon DEF ServiceTypeOK, Loop
  <2>2. kept \in SUBSET Txs /\ ok \in SUBSET Txs
    BY <2>1, Zenon DEF Block
  <2>3. /\ b \in Block /\ b.number = loop.block.number /\ b.parent = loop.block.parent
        /\ b.txs = loop.block.txs /\ b.kept = kept /\ b.receipts = ok
    BY <2>1, <2>2, FilledBlock, SMT
  <2> HIDE DEF b
  <2>4. loop' = [at |-> "write", block |-> b]
    BY <1>2 DEF b, Filled
  <2> QED
    BY <2>3, <2>4 DEF Loop
<1>4. nonces' \subseteq Txs
  BY <1>2, Zenon DEF ServiceTypeOK, Loop, Block
<1>5. ServiceTypeOK'
  BY <1>1, <1>3, <1>4, Zenon DEF ServiceTypeOK
<1>6. nonces = Kept
  BY <1>1, Zenon DEF ChainSound
<1>7. Kept' = Kept
  BY <1>1, Zenon DEF Kept
<1>8. ReceiptsSound(loop'.block)
  BY <1>2, <1>3, Zenon DEF ReceiptsSound
<1>9. Fresh(loop.block)'
  BY <1>2, <1>3, <1>6, <1>7, Zenon DEF Fresh
<1>10. LoopOK'
  BY <1>1, <1>3, <1>8, <1>9, Zenon DEF LoopOK
<1>11. ChainSound'
  BY <1>1, <1>2, <1>3, <1>6, <1>7, Zenon DEF ChainSound
<1> QED
  BY <1>1, <1>5, <1>10, <1>11, Zenon DEF Numbered

\* The block that is written extends the chain, and its nonces are new.
LEMMA WriteStep == ASSUME ServiceInv, WriteBlockAndSetHead PROVE ServiceInv'
<1> USE DEF ServiceInv
<1> DEFINE n == Len(chain)
           b == loop.block
<1>1. /\ UNCHANGED <<pend, exec, net, nonces, sender>> /\ loop.at = "write"
      /\ chain' = Append(chain, b) /\ loop' = [loop EXCEPT !.at = "top"]
  BY Zenon DEF WriteBlockAndSetHead
<1>2. /\ b \in Block /\ b.number = n /\ b.parent = n - 1 /\ b.txs # {}
      /\ ReceiptsSound(b) /\ Fresh(b)
  BY <1>1, Zenon DEF ServiceTypeOK, LoopOK, Loop
<1>3. n \in Nat /\ n >= 1 /\ DOMAIN chain = 1 .. n /\ chain \in Seq(Block)
  BY DEF ServiceTypeOK
<1>4. loop'.at = "top" /\ loop' \in Loop
  BY <1>1, Zenon DEF ServiceTypeOK, Loop
<1>5. nonces = Kept \cup b.kept
  BY <1>1, Zenon DEF ChainSound
<1> HIDE DEF b
<1>6. /\ chain' \in Seq(Block) /\ Len(chain') = n + 1 /\ DOMAIN chain' = 1 .. n + 1
      /\ chain'[n + 1] = b /\ \A i \in 1 .. n : chain'[i] = chain[i]
  BY <1>1, <1>2, <1>3
<1> HIDE DEF n
<1>7. ServiceTypeOK'
  <2>1. Len(chain') >= 1
    BY <1>3, <1>6
  <2> HIDE DEF ServiceInv
  <2>2. ServiceTypeOK
    BY Zenon DEF ServiceInv
  <2> QED
    BY <2>1, <2>2, <1>1, <1>4, <1>6, Zenon DEF ServiceTypeOK
<1>8. Numbered'
  BY <1>2, <1>3, <1>6 DEF Numbered
<1>9. LoopOK'
  BY <1>4, Zenon DEF LoopOK
<1>10. Kept' = Kept \cup b.kept
  BY <1>2, <1>3, <1>6 DEF Kept
<1>11. ChainSound'
  <2>1. \A i \in 2 .. Len(chain') : /\ chain'[i].number = i - 1
                                   /\ chain'[i].parent = chain'[i - 1].number
                                   /\ chain'[i].txs # {}
    <3> SUFFICES ASSUME NEW i \in 2 .. n + 1
                 PROVE  /\ chain'[i].number = i - 1
                        /\ chain'[i].parent = chain'[i - 1].number
                        /\ chain'[i].txs # {}
      BY <1>6, Zenon
    <3>1. CASE i \in 2 .. n
      <4>1. chain'[i] = chain[i] /\ chain'[i - 1] = chain[i - 1]
        BY <3>1, <1>3, <1>6
      <4>2. i \in 2 .. Len(chain)
        BY <3>1, Zenon DEF n
      <4> QED
        BY <4>1, <4>2, Zenon DEF ChainSound
    <3>2. CASE i = n + 1
      <4>1. chain'[i] = b /\ chain'[i - 1] = chain[n] /\ chain[n].number = n - 1
        BY <3>2, <1>3, <1>6 DEF Numbered
      <4> QED
        BY <3>2, <4>1, <1>2, <1>3
    <3> QED
      BY <3>1, <3>2, <1>3
  <2>2. ASSUME NEW i \in 1 .. n + 1 PROVE ReceiptsSound(chain'[i])
    <3>1. CASE i \in 1 .. n
      BY <3>1, <1>3, <1>6, Zenon DEF ChainSound
    <3>2. CASE i = n + 1
      BY <3>2, <1>2, <1>6, Zenon
    <3> QED
      BY <3>1, <3>2, <1>3
  <2>3. ASSUME NEW i \in 1 .. n + 1, NEW j \in 1 .. n + 1, i < j
        PROVE  chain'[i].kept \cap (chain'[j].receipts \cup chain'[j].kept) = {}
    <3>1. CASE j \in 1 .. n
      <4>1. i \in 1 .. n /\ chain'[i] = chain[i] /\ chain'[j] = chain[j]
        BY <2>3, <3>1, <1>3, <1>6
      <4>2. \A k, l \in DOMAIN chain : k < l => chain[k].kept \cap (chain[l].receipts \cup chain[l].kept) = {}
        BY Zenon DEF ServiceInv, ChainSound
      <4>3. i \in DOMAIN chain /\ j \in DOMAIN chain
        BY <3>1, <4>1, <1>3, Zenon
      <4> QED
        BY <2>3, <4>1, <4>2, <4>3, Zenon
    <3>2. CASE j = n + 1
      <4>1. i \in 1 .. n /\ chain'[i] = chain[i] /\ chain'[j] = b
        BY <2>3, <3>2, <1>3, <1>6
      <4>2. chain[i].kept \subseteq Kept
        BY <4>1, <1>3, Zenon DEF Kept
      <4> QED
        BY <4>1, <4>2, <1>2, Zenon DEF Fresh
    <3> QED
      BY <3>1, <3>2, <1>3
  <2>4. nonces' = Kept'
    BY <1>1, <1>5, <1>10, Zenon
  <2> QED
    BY <2>1, <2>2, <2>3, <2>4, <1>4, <1>6, Zenon DEF ChainSound
<1> QED
  BY <1>7, <1>8, <1>9, <1>11, Zenon

\* The loop ends when its subscription does, and the program when Process fails.
LEMMA LoopEndsStep == ASSUME ServiceInv, ExecuteLoopEnds \/ ProcessFails PROVE ServiceInv'
<1> USE DEF ServiceInv
<1>1. UNCHANGED <<pend, exec, net, chain, nonces, sender>> /\ loop.at \in {"select", "process"}
  BY Zenon DEF ExecuteLoopEnds, ProcessFails
<1>2. loop' \in Loop /\ loop'.at \in {"over", "dead"}
  BY Zenon DEF ExecuteLoopEnds, ProcessFails, ServiceTypeOK, Loop
<1>3. ServiceTypeOK' /\ LoopOK'
  BY <1>1, <1>2, Zenon DEF ServiceTypeOK, LoopOK
<1>4. Kept' = Kept
  BY <1>1, Zenon DEF Kept
<1>5. ChainSound'
  BY <1>1, <1>2, <1>4, Zenon DEF ChainSound
<1> QED
  BY <1>1, <1>3, <1>5, Zenon DEF Numbered

\* Every step of the service keeps the invariant.
LEMMA NextService == ServiceInv /\ [ServiceNext]_serviceVars => ServiceInv'
<1> SUFFICES ASSUME ServiceInv, [ServiceNext]_serviceVars PROVE ServiceInv'
  BY Zenon
<1>1. CASE UNCHANGED serviceVars
  <2>1. ServiceTypeOK'
    BY <1>1, Zenon DEF serviceVars, ServiceInv, ServiceTypeOK
  <2> QED
    BY <1>1, <2>1, ChainUntouched, Zenon DEF serviceVars, ServiceInv
<1>2. CASE PoolStep
  BY <1>2, PoolSteps, Zenon
<1>3. CASE Executing
  BY <1>3, InitHeaderStep, TakeEventStep, ProcessStep, WriteStep, LoopEndsStep, Zenon DEF Executing
<1> QED
  BY <1>1, <1>2, <1>3, Zenon DEF ServiceNext, PoolStep

\* For any transactions, any number of ordered blocks and of announcements,
\* and however the pools drop and accept again: the chain is linked, a
\* transaction whose nonce stands gets no receipt in a later block, and the
\* nonces the pools validate with are those the blocks have used, failed
\* transactions included.
THEOREM ExecutorChainSound == ServiceSpec => []ChainSound
<1>1. ServiceInv => ChainSound
  BY Zenon DEF ServiceInv
<1> QED
  BY <1>1, InitService, NextService, PTL DEF ServiceSpec

-----------------------------------------------------------------------------
(* The call frames. *)

\* The constants as core/evm has them.
FramesConstants == Limits \subseteq Nat /\ Fraction \in Nat \ {0}

World == [bal : [Account -> Nat], store : [Account -> {0, 1}], exist : SUBSET Account]

\* A state in which no value was created.
WorldOK(w) == w \in World /\ total(w) <= Supply

Frame == [self : Account, gas : Int, can : BOOLEAN, snap : {w \in World : total(w) <= Supply},
          static : BOOLEAN, creates : BOOLEAN, break : BOOLEAN, conflict : BOOLEAN]

\* Same balances and same storage.
Alike(v, w) == v.bal = w.bal /\ v.store = w.store

FramesTypeOK ==
    /\ WorldOK(world) /\ frames \in Seq(Frame)
    /\ readOnly \in BOOLEAN /\ parallel \in BOOLEAN
    /\ result \in [status : {"running", "done", "panic"}, can : BOOLEAN, err : BOOLEAN, conflict : BOOLEAN]
    /\ Running => frames # <<>>

\* Above a static call nothing is static once more, readOnly is set, and the
\* states that a revert would go back to differ from the present one in
\* nothing that counts.
StaticOK ==
    \A i \in DOMAIN frames : frames[i].static =>
        /\ readOnly
        /\ \A j \in DOMAIN frames : j > i => Alike(frames[j].snap, world) /\ ~frames[j].static

FramesInv == FramesTypeOK /\ StaticOK

\* The steps of a frame change neither what it would revert to nor who set
\* readOnly.
Kin(f, g) == f \in Frame /\ f.snap = g.snap /\ f.static = g.static /\ f.self = g.self

\* The innermost frame and the ones below it.
LEMMA TopIs ==
  ASSUME FramesInv, Running
  PROVE  /\ Len(frames) \in Nat \ {0} /\ DOMAIN frames = 1 .. Len(frames)
         /\ Top = frames[Len(frames)] /\ Top \in Frame /\ Kin(Top, Top)
         /\ Below \in Seq(Frame) /\ Len(Below) = Len(frames) - 1
         /\ \A i \in 1 .. Len(frames) - 1 : Below[i] = frames[i]
<1>1. frames \in Seq(Frame) /\ frames # <<>>
  BY Zenon DEF FramesInv, FramesTypeOK
<1>2. Len(frames) \in Nat \ {0} /\ DOMAIN frames = 1 .. Len(frames)
  BY <1>1
<1>3. Top = frames[Len(frames)] /\ Top \in Frame
  BY <1>1, <1>2 DEF Top
<1>4. /\ Below \in Seq(Frame) /\ Len(Below) = Len(frames) - 1
      /\ \A i \in 1 .. Len(frames) - 1 : Below[i] = frames[i]
  BY <1>1, <1>2 DEF Below
<1> QED
  BY <1>2, <1>3, <1>4, Zenon DEF Kin

\* Kinship is transitive.
LEMMA KinTrans == ASSUME NEW f, NEW g, NEW h, Kin(f, g), Kin(g, h) PROVE Kin(f, h)
  BY Zenon DEF Kin

\* Reading the state in parallel mode leaves the frame its snapshot.
LEMMA Touched == ASSUME NEW f \in Frame, parallel \in BOOLEAN PROVE Kin(touched(f), f)
  BY Zenon DEF Kin, touched, Frame

\* So does paying for an instruction.
LEMMA ChargedOne == ASSUME NEW f \in Frame, NEW c \in Int PROVE Kin(charge(f, c), f)
  BY DEF Kin, charge, Frame

\* So does a conflict that breaks the frame off.
LEMMA Broken == ASSUME NEW f \in Frame, parallel \in BOOLEAN PROVE Kin(broken(f), f)
<1>1. (parallel /\ ~f.can) \in BOOLEAN
  BY Zenon
<1> QED
  BY <1>1, Zenon DEF Kin, broken, Frame

\* The caller as a frame that ends leaves it: gas back, marks taken over.
LEMMA Resumed ==
  ASSUME NEW p \in Frame, NEW gas \in Int, NEW can \in BOOLEAN, NEW conflict \in BOOLEAN,
         NEW creates \in BOOLEAN, parallel \in BOOLEAN
  PROVE  Kin(resumed(p, gas, can, conflict, creates), p)
<1>1. (~creates /\ parallel /\ ~can) \in BOOLEAN /\ (p.conflict \/ conflict) \in BOOLEAN
  BY Zenon
<1>2. (IF creates THEN p.can ELSE can) \in BOOLEAN /\ p.gas + gas \in Int
  BY DEF Frame
<1> QED
  BY <1>1, <1>2, ZenonT(40) DEF Kin, resumed, Frame

\* A step inside the innermost frame.
LEMMA StepInside ==
  ASSUME FramesInv, Running, NEW f, Kin(f, Top), setTop(f), WorldOK(world'),
         readOnly => Alike(world', world),
         UNCHANGED <<readOnly, parallel, result>>
  PROVE  FramesInv' /\ StaticStep
<1> DEFINE n == Len(frames)
<1>1. /\ n \in Nat \ {0} /\ DOMAIN frames = 1 .. n
      /\ Top = frames[n] /\ Top \in Frame
      /\ Below \in Seq(Frame) /\ Len(Below) = n - 1
      /\ \A i \in 1 .. n - 1 : Below[i] = frames[i]
  BY TopIs, Zenon
<1>2. f \in Frame /\ f.snap = Top.snap /\ f.static = Top.static /\ frames' = Append(Below, f)
  BY Zenon DEF Kin, setTop
<1> HIDE DEF n
<1>3. /\ frames' \in Seq(Frame) /\ Len(frames') = n /\ DOMAIN frames' = 1 .. n
      /\ frames'[n] = f /\ \A i \in 1 .. n - 1 : frames'[i] = frames[i]
  BY <1>1, <1>2
<1>4. \A i \in 1 .. n : frames'[i].snap = frames[i].snap /\ frames'[i].static = frames[i].static
  <2> TAKE i \in 1 .. n
  <2>1. CASE i = n
    BY <2>1, <1>1, <1>2, <1>3, Zenon
  <2>2. CASE i \in 1 .. n - 1
    BY <2>2, <1>3, Zenon
  <2> QED
    BY <2>1, <2>2, <1>1
<1>5. frames' # <<>>
  BY <1>1, <1>3, Zenon
<1>6. FramesTypeOK'
  BY <1>3, <1>5, Zenon DEF FramesInv, FramesTypeOK, Running
<1>7. StaticOK'
  BY <1>1, <1>3, <1>4, SMTT(30) DEF FramesInv, StaticOK, Alike
<1>8. StaticStep
  BY <1>1, Zenon DEF StaticStep, FramesInv, StaticOK, Alike
<1> QED
  BY <1>6, <1>7, <1>8, Zenon DEF FramesInv

\* A call or a creation that starts a frame of its own.
LEMMA StepInto ==
  ASSUME FramesInv, Running, NEW p, Kin(p, Top), NEW g, g \in Frame, g.snap = world,
         frames' = Append(Append(Below, p), g), WorldOK(world'),
         readOnly' \in BOOLEAN, readOnly => readOnly', g.static => readOnly' /\ ~readOnly,
         readOnly => Alike(world', world), UNCHANGED <<parallel, result>>
  PROVE  FramesInv' /\ StaticStep
<1> DEFINE n == Len(frames)
<1>1. /\ n \in Nat \ {0} /\ DOMAIN frames = 1 .. n
      /\ Top = frames[n] /\ Top \in Frame
      /\ Below \in Seq(Frame) /\ Len(Below) = n - 1
      /\ \A i \in 1 .. n - 1 : Below[i] = frames[i]
  BY TopIs, Zenon
<1>2. p \in Frame /\ p.snap = Top.snap /\ p.static = Top.static
  BY Zenon DEF Kin
<1> HIDE DEF n
<1>3. /\ frames' \in Seq(Frame) /\ Len(frames') = n + 1 /\ DOMAIN frames' = 1 .. n + 1
      /\ frames'[n + 1] = g /\ frames'[n] = p /\ \A i \in 1 .. n - 1 : frames'[i] = frames[i]
  BY <1>1, <1>2
<1>4. \A i \in 1 .. n : frames'[i].snap = frames[i].snap /\ frames'[i].static = frames[i].static
  <2> TAKE i \in 1 .. n
  <2>1. CASE i = n
    BY <2>1, <1>1, <1>2, <1>3, Zenon
  <2>2. CASE i \in 1 .. n - 1
    BY <2>2, <1>3, Zenon
  <2> QED
    BY <2>1, <2>2, <1>1
<1>5. frames' # <<>>
  BY <1>1, <1>3
<1>6. FramesTypeOK'
  BY <1>3, <1>5, Zenon DEF FramesInv, FramesTypeOK, Running
<1>7. ASSUME NEW i \in 1 .. n, frames[i].static
      PROVE  /\ readOnly /\ Alike(world', world) /\ ~g.static
             /\ \A j \in 1 .. n : j > i => Alike(frames[j].snap, world) /\ ~frames[j].static
  BY <1>7, <1>1, Zenon DEF FramesInv, StaticOK
<1>8. StaticOK'
  <2> SUFFICES ASSUME NEW i \in 1 .. n + 1, frames'[i].static
               PROVE  /\ readOnly'
                      /\ \A j \in 1 .. n + 1 : j > i => Alike(frames'[j].snap, world') /\ ~frames'[j].static
    BY <1>3, Zenon DEF StaticOK, Alike
  <2>1. CASE i = n + 1
    BY <2>1, <1>1, <1>3
  <2>2. CASE i \in 1 .. n
    <3>1. frames[i].static
      BY <2>2, <1>4, Zenon
    <3>2. /\ readOnly /\ Alike(world', world) /\ ~g.static
          /\ \A j \in 1 .. n : j > i => Alike(frames[j].snap, world) /\ ~frames[j].static
      BY <3>1, <2>2, <1>7, Zenon
    <3>3. ASSUME NEW j \in 1 .. n + 1, j > i
          PROVE  Alike(frames'[j].snap, world') /\ ~frames'[j].static
      <4>1. CASE j = n + 1
        BY <4>1, <3>2, <1>3, Zenon DEF Alike
      <4>2. CASE j \in 1 .. n
        BY <4>2, <3>2, <3>3, <1>4, ZenonT(40) DEF Alike
      <4> QED
        BY <4>1, <4>2, <1>1
    <3> QED
      BY <3>2, <3>3, Zenon
  <2> QED
    BY <2>1, <2>2, <1>1
<1>9. StaticStep
  BY <1>1, <1>7, Zenon DEF StaticStep, Alike
<1> QED
  BY <1>6, <1>8, <1>9, Zenon DEF FramesInv

\* The end of the innermost frame, with or without an error.
LEMMA StepOut ==
  ASSUME FramesInv, Running, NEW f, Kin(f, Top), NEW failed \in BOOLEAN, End(f, failed)
  PROVE  FramesInv' /\ StaticStep
<1> DEFINE n == Len(frames)
<1>1. /\ n \in Nat \ {0} /\ DOMAIN frames = 1 .. n
      /\ Top = frames[n] /\ Top \in Frame
      /\ Below \in Seq(Frame) /\ Len(Below) = n - 1
      /\ \A i \in 1 .. n - 1 : Below[i] = frames[i]
  BY TopIs, Zenon
<1>2. /\ f \in Frame /\ f.snap = Top.snap /\ f.static = Top.static
      /\ f.gas \in Int /\ f.can \in BOOLEAN /\ f.conflict \in BOOLEAN /\ f.creates \in BOOLEAN
      /\ f.snap \in World /\ total(f.snap) <= Supply
  BY Zenon DEF Kin, Frame
<1>3. /\ readOnly' = (readOnly /\ ~f.static) /\ UNCHANGED parallel
      /\ world' = IF failed THEN f.snap ELSE world
  BY Zenon DEF End
<1>4. parallel \in BOOLEAN /\ readOnly \in BOOLEAN
  BY Zenon DEF FramesInv, FramesTypeOK
<1>5. PICK gas \in Int, can \in BOOLEAN :
        IF n = 1
        THEN /\ frames' = <<>>
             /\ result' = [status |-> "done", can |-> can, err |-> failed, conflict |-> f.conflict]
        ELSE /\ frames' = Append(SubSeq(Below, 1, Len(Below) - 1),
                            resumed(Below[Len(Below)], gas, can, f.conflict, f.creates))
             /\ UNCHANGED result
  <2>1. CASE failed \/ ~f.creates
    BY <2>1, <1>2, Zenon DEF End, depth
  <2>2. CASE ~(failed \/ ~f.creates)
    <3>1. PICK gas \in {0} \cup {f.gas - size * CreateDataGas : size \in {0, 1, MaxCodeSize + 1}},
               can \in {TRUE, f.can} :
              IF depth = 1
              THEN /\ frames' = <<>>
                   /\ result' = [status |-> "done", can |-> can, err |-> failed, conflict |-> f.conflict]
              ELSE /\ frames' = Append(SubSeq(Below, 1, Len(Below) - 1),
                                  resumed(Below[Len(Below)], gas, can, f.conflict, f.creates))
                   /\ UNCHANGED result
      BY <2>2, Zenon DEF End
    <3>2. gas \in Int
      BY <1>2 DEF MaxCodeSize, CreateDataGas
    <3>3. can \in BOOLEAN
      BY <1>2, Zenon
    <3> QED
      BY <3>1, <3>2, <3>3, Zenon DEF depth
  <2> QED
    BY <2>1, <2>2, Zenon
<1> HIDE DEF n
<1>6. WorldOK(world')
  BY <1>2, <1>3, Zenon DEF FramesInv, FramesTypeOK, WorldOK
<1>7. /\ readOnly' \in BOOLEAN
      /\ \A i \in 1 .. n - 1 : frames[i].static =>
           /\ readOnly /\ readOnly' /\ Alike(world', world)
           /\ \A j \in 1 .. n : j > i => Alike(frames[j].snap, world) /\ ~frames[j].static
  <2>1. readOnly' \in BOOLEAN
    BY <1>2, <1>3, <1>4, Zenon
  <2>2. ASSUME NEW i \in 1 .. n - 1, frames[i].static
        PROVE  /\ readOnly /\ Alike(frames[n].snap, world) /\ ~frames[n].static
               /\ \A j \in 1 .. n : j > i => Alike(frames[j].snap, world) /\ ~frames[j].static
    BY <2>2, <1>1 DEF FramesInv, StaticOK
  <2>3. ASSUME NEW i \in 1 .. n - 1, frames[i].static
        PROVE  readOnly' /\ Alike(world', world)
    BY <2>2, <2>3, <1>1, <1>2, <1>3, Zenon DEF Alike
  <2> QED
    BY <2>1, <2>2, <2>3, Zenon
<1>8. CASE n = 1
  <2>1. frames' = <<>> /\ result' = [status |-> "done", can |-> can, err |-> failed, conflict |-> f.conflict]
    BY <1>5, <1>8, Zenon
  <2>2. FramesTypeOK'
    BY <2>1, <1>2, <1>3, <1>4, <1>6, <1>7 DEF FramesTypeOK, Running
  <2>3. Len(frames') = 0 /\ DOMAIN frames' = {}
    BY <2>1
  <2> QED
    BY <2>2, <2>3, <1>1, <1>8 DEF FramesInv, StaticOK, StaticStep
<1>9. CASE n # 1
  <2> DEFINE q == resumed(Below[Len(Below)], gas, can, f.conflict, f.creates)
  <2>1. frames' = Append(SubSeq(Below, 1, Len(Below) - 1), q) /\ UNCHANGED result
    BY <1>5, <1>9, Zenon
  <2>2. n \in Nat /\ n >= 2 /\ Below[Len(Below)] = frames[n - 1] /\ frames[n - 1] \in Frame
    BY <1>1, <1>9
  <2>3. q \in Frame /\ q.snap = frames[n - 1].snap /\ q.static = frames[n - 1].static
    <3>1. Below[Len(Below)] \in Frame
      BY <2>2, Zenon
    <3>2. Kin(q, Below[Len(Below)])
      BY <3>1, <1>2, <1>4, Resumed, Zenon
    <3> QED
      BY <3>2, <2>2, Zenon DEF Kin
  <2> HIDE DEF q
  <2>4. /\ frames' \in Seq(Frame) /\ Len(frames') = n - 1 /\ DOMAIN frames' = 1 .. n - 1
        /\ frames'[n - 1] = q /\ \A i \in 1 .. n - 2 : frames'[i] = frames[i]
    BY <2>1, <2>2, <2>3, <1>1
  <2>5. \A i \in 1 .. n - 1 : frames'[i].snap = frames[i].snap /\ frames'[i].static = frames[i].static
    <3> TAKE i \in 1 .. n - 1
    <3>1. CASE i = n - 1
      BY <3>1, <2>3, <2>4, Zenon
    <3>2. CASE i \in 1 .. n - 2
      BY <3>2, <2>4, Zenon
    <3> QED
      BY <3>1, <3>2, <2>2
  <2>6. frames' # <<>>
    BY <2>2, <2>4
  <2>7. FramesTypeOK'
    BY <2>1, <2>4, <2>6, <1>3, <1>6, <1>7, Zenon DEF FramesInv, FramesTypeOK, Running
  <2>8. StaticOK'
    BY <2>2, <2>4, <2>5, <1>7, SMTT(30) DEF StaticOK, Alike
  <2>9. StaticStep
    BY <2>2, <2>4, <1>1, <1>7 DEF StaticStep, Alike
  <2> QED
    BY <2>7, <2>8, <2>9, Zenon DEF FramesInv
<1> QED
  BY <1>8, <1>9, Zenon

credit(w, a, v) == [w EXCEPT !.bal[a] = @ + v]

\* The sum over the six accounts follows a change of one of them.
LEMMA OneBalance ==
  ASSUME NEW w \in World, NEW a \in Account, NEW v \in Int, w.bal[a] + v >= 0
  PROVE  /\ credit(w, a, v) \in World /\ total(credit(w, a, v)) = total(w) + v
         /\ credit(w, a, v).store = w.store /\ credit(w, a, v).exist = w.exist
         /\ credit(w, a, v).bal = [w.bal EXCEPT ![a] = @ + v]
<1> DEFINE u == credit(w, a, v)
<1>1. w.bal \in [Account -> Nat] /\ w.store \in [Account -> {0, 1}] /\ w.exist \in SUBSET Account
  BY Zenon DEF World
<1>2. u.bal = [w.bal EXCEPT ![a] = @ + v] /\ u.store = w.store /\ u.exist = w.exist
  BY Zenon DEF World, credit
<1>3. u.bal \in [Account -> Nat] /\ \A c \in Account : u.bal[c] = IF c = a THEN w.bal[c] + v ELSE w.bal[c]
  BY <1>1, <1>2
<1>4. u \in World
  BY <1>1, <1>2, <1>3, Zenon DEF World, credit
<1> HIDE DEF u
<1>5. total(u) = total(w) + v
  BY <1>1, <1>3 DEF total, Account
<1> QED
  BY <1>2, <1>4, <1>5, Zenon DEF u

\* Transfer moves value from one account to another and creates none.
LEMMA TransferOK ==
  ASSUME NEW w, WorldOK(w), NEW from \in Account, NEW to \in Account, NEW v \in Nat, w.bal[from] >= v
  PROVE  WorldOK(transfer(w, from, to, v)) /\ (v = 0 => Alike(transfer(w, from, to, v), w))
<1> DEFINE u == credit(w, from, -v)
           t == credit(u, to, v)
<1>1. w \in World /\ total(w) <= Supply /\ w.bal \in [Account -> Nat] /\ -v \in Int /\ w.bal[from] + (-v) >= 0
  BY DEF WorldOK, World
<1>2. u \in World /\ total(u) = total(w) + (-v) /\ u.store = w.store /\ u.bal = [w.bal EXCEPT ![from] = @ + (-v)]
  BY <1>1, OneBalance
<1> HIDE DEF u
<1>3. u.bal[to] + v >= 0 /\ v \in Int
  BY <1>2 DEF World
<1>4. t \in World /\ total(t) = total(u) + v /\ t.store = u.store /\ t.bal = [u.bal EXCEPT ![to] = @ + v]
  <2>1. u \in World
    BY <1>2, Zenon
  <2> QED
    BY <2>1, <1>3, OneBalance
<1>5. transfer(w, from, to, v) = t
  <2>1. w.bal[from] - v = w.bal[from] + (-v)
    BY <1>1, Zenon
  <2> QED
    BY <2>1, Zenon DEF transfer, u, credit
<1>6. total(w) \in Int
  BY <1>1 DEF total, Account
<1> HIDE DEF t
<1>7. WorldOK(t)
  BY <1>1, <1>2, <1>4, <1>6 DEF WorldOK
<1>8. v = 0 => t.bal = w.bal
  BY <1>1, <1>2, <1>4
<1> QED
  BY <1>2, <1>4, <1>5, <1>7, <1>8, Zenon DEF Alike

\* A destroyed contract's balance goes to the beneficiary or is burnt.
LEMMA DestroyOK ==
  ASSUME NEW w, WorldOK(w), NEW a \in Account, NEW b \in Account
  PROVE  WorldOK([[w EXCEPT !.bal[b] = @ + w.bal[a], !.exist = @ \cup {b}] EXCEPT !.bal[a] = 0])
<1> DEFINE x == w.bal[a]
           u == credit(w, b, x)
           y == u.bal[a]
           t == credit(u, a, -y)
           r == [[w EXCEPT !.bal[b] = @ + x, !.exist = @ \cup {b}] EXCEPT !.bal[a] = 0]
<1>1. w \in World /\ total(w) <= Supply /\ x \in Nat /\ w.bal[b] + x >= 0
  BY DEF WorldOK, World
<1>2. u \in World /\ total(u) = total(w) + x /\ u.bal = [w.bal EXCEPT ![b] = @ + x] /\ u.exist = w.exist
  BY <1>1, OneBalance
<1> HIDE DEF u
<1>3. y \in Nat /\ y >= x /\ -y \in Int /\ u.bal[a] + (-y) >= 0
  BY <1>1, <1>2 DEF World
<1>4. t \in World /\ total(t) = total(u) + (-y) /\ t.bal = [u.bal EXCEPT ![a] = @ + (-y)]
  <2>1. u \in World
    BY <1>2, Zenon
  <2> QED
    BY <2>1, <1>3, OneBalance
<1>5. /\ r.bal = t.bal /\ r.store = w.store /\ r.exist = w.exist \cup {b}
      /\ r \in [bal : {t.bal}, store : {w.store}, exist : {w.exist \cup {b}}]
  <2>1. r.bal = [[w.bal EXCEPT ![b] = @ + x] EXCEPT ![a] = 0]
    BY <1>1, Zenon DEF World
  <2>2. u.bal[a] + (-y) = 0
    BY <1>3
  <2>3. r.bal = t.bal
    BY <2>1, <2>2, <1>2, <1>4, Zenon
  <2>4. r.store = w.store /\ r.exist = w.exist \cup {b}
    BY <1>1, Zenon DEF World
  <2> QED
    BY <2>3, <2>4, <1>1, Zenon DEF World
<1> HIDE DEF t, r, x, y
<1>6. total(w) \in Int /\ total(r) = total(t)
  <2>1. total(w) \in Int
    BY <1>1 DEF total, Account, World
  <2> QED
    BY <2>1, <1>5, Zenon DEF total
<1>7. r \in World
  BY <1>1, <1>4, <1>5, Zenon DEF World
<1>8. WorldOK(r)
  BY <1>1, <1>2, <1>3, <1>4, <1>6, <1>7 DEF WorldOK, Supply
<1> QED
  BY <1>8, Zenon DEF r, x

\* Creating an account moves nothing.
LEMMA ExistOK ==
  ASSUME NEW w, WorldOK(w), NEW a \in Account
  PROVE  LET u == [w EXCEPT !.exist = @ \cup {a}] IN WorldOK(u) /\ Alike(u, w)
<1> DEFINE u == [w EXCEPT !.exist = @ \cup {a}]
<1>1. w \in World
  BY Zenon DEF WorldOK
<1>2. u \in World /\ u.bal = w.bal /\ u.store = w.store
  BY <1>1, Zenon DEF World
<1> QED
  BY <1>2, Zenon DEF WorldOK, Alike, total

\* What every instruction may rely on.
LEMMA Start ==
  ASSUME FramesInv, Ready
  PROVE  /\ Running /\ Top \in Frame /\ Kin(Top, Top) /\ Top.gas \in Int /\ Top.self \in Account
         /\ parallel \in BOOLEAN /\ WorldOK(world)
<1>1. Running
  BY Zenon DEF Ready
<1>2. Top \in Frame /\ Kin(Top, Top)
  BY <1>1, TopIs, Zenon
<1> QED
  BY <1>1, <1>2, Zenon DEF FramesInv, FramesTypeOK, Frame

\* An instruction that only changes its frame.
LEMMA OnlyTop ==
  ASSUME FramesInv, Running, NEW f, Kin(f, Top), Only(f)
  PROVE  FramesInv' /\ StaticStep
<1>1. WorldOK(world')
  BY Zenon DEF Only, FramesInv, FramesTypeOK
<1>2. Alike(world', world)
  BY Zenon DEF Only, Alike
<1>3. setTop(f) /\ UNCHANGED <<readOnly, parallel, result>>
  BY Zenon DEF Only
<1> QED
  BY <1>1, <1>2, <1>3, StepInside, Zenon

\* A panic ends the call and leaves the state.
LEMMA PanicStep == ASSUME FramesInv, Panic PROVE FramesInv' /\ StaticStep
<1>1. FramesTypeOK'
  BY Zenon DEF FramesInv, FramesTypeOK, Panic, Running
<1>2. StaticOK'
  BY Zenon DEF FramesInv, StaticOK, Panic, Alike
<1> QED
  BY <1>1, <1>2, Zenon DEF FramesInv, Panic, StaticStep

\* The instructions that only charge, read, or end the frame.
LEMMA SimpleSteps ==
  ASSUME FramesInv, Refused \/ Work \/ Halt \/ SkippedStop \/ Sload \/ Break
  PROVE  FramesInv' /\ StaticStep
<1>1. CASE Refused
  <2>1. Ready /\ End([Top EXCEPT !.can = TRUE], TRUE)
    BY <1>1, Zenon DEF Refused
  <2>2. Kin([Top EXCEPT !.can = TRUE], Top)
    BY <2>1, Start, Zenon DEF Kin, Frame
  <2> QED
    BY <2>1, <2>2, Start, StepOut, Zenon
<1>2. CASE Work
  <2>1. Ready /\ Only(charge(Top, 1))
    BY <1>2, Zenon DEF Work
  <2>2. Kin(charge(Top, 1), Top)
    BY <2>1, Start, ChargedOne
  <2> QED
    BY <2>1, <2>2, Start, OnlyTop, Zenon
<1>3. CASE Halt
  BY <1>3, Start, StepOut, Zenon DEF Halt
<1>4. CASE SkippedStop
  <2>1. UNCHANGED vars
    BY <1>4, Zenon DEF SkippedStop
  <2>2. FramesTypeOK'
    BY <2>1, Zenon DEF FramesInv, FramesTypeOK, vars, Running
  <2>3. StaticOK'
    BY <2>1, Zenon DEF FramesInv, StaticOK, vars
  <2> QED
    BY <2>1, <2>2, <2>3, Zenon DEF FramesInv, StaticStep, vars
<1>5. CASE Sload
  <2> DEFINE f == touched(charge(Top, 1))
  <2>1. Ready /\ (Panic \/ Only(broken(f)))
    BY <1>5, Zenon DEF Sload
  <2>2. Kin(charge(Top, 1), Top)
    BY <2>1, Start, ChargedOne
  <2>3. Kin(f, charge(Top, 1))
    BY <2>1, <2>2, Start, Touched, Zenon DEF Kin
  <2>4. f \in Frame
    BY <2>3, Zenon DEF Kin
  <2>5. Kin(broken(f), f)
    BY <2>1, <2>4, Start, Broken, Zenon
  <2>6. Kin(broken(f), Top)
    BY <2>2, <2>3, <2>5, KinTrans, Zenon
  <2> QED
    BY <2>1, <2>6, Start, PanicStep, OnlyTop, Zenon
<1>6. CASE Break
  BY <1>6, TopIs, StepOut, Zenon DEF Break
<1> QED
  BY <1>1, <1>2, <1>3, <1>4, <1>5, <1>6, Zenon

\* The instructions that write.
LEMMA WriteSteps ==
  ASSUME FramesInv, Sstore \/ Selfdestruct
  PROVE  FramesInv' /\ StaticStep
<1> DEFINE f == touched(charge(Top, 1))
<1>1. Ready
  BY Zenon DEF Sstore, Selfdestruct
<1>2. Kin(charge(Top, 1), Top)
  BY <1>1, Start, ChargedOne
<1>3. Kin(f, charge(Top, 1))
  BY <1>1, <1>2, Start, Touched, Zenon DEF Kin
<1>4. f \in Frame
  BY <1>3, Zenon DEF Kin
<1>5. Kin(f, Top)
  BY <1>2, <1>3, KinTrans, Zenon
<1>6. Kin(broken(f), Top)
  <2>1. Kin(broken(f), f)
    BY <1>1, <1>4, Start, Broken, Zenon
  <2> QED
    BY <2>1, <1>5, KinTrans, Zenon
<1>7. Kin([f EXCEPT !.break = TRUE], Top)
  BY <1>4, <1>5, Zenon DEF Kin, Frame
<1>8. f.self \in Account /\ f.self = Top.self
  BY <1>4, <1>5, Zenon DEF Kin, Frame
<1> HIDE DEF f
<1>9. CASE Sstore
  <2>1. \/ Panic \/ Only(f) \/ End(f, TRUE)
        \/ /\ ~readOnly /\ setTop(broken(f))
           /\ world' = [world EXCEPT !.store[f.self] = 1 - @]
           /\ UNCHANGED <<readOnly, parallel, given, result>>
    BY <1>9, Zenon DEF Sstore, f
  <2>2. ASSUME world' = [world EXCEPT !.store[f.self] = 1 - @] PROVE WorldOK(world')
    <3>1. world \in World /\ total(world) <= Supply
      BY Zenon DEF FramesInv, FramesTypeOK, WorldOK
    <3>2. world.store \in [Account -> {0, 1}] /\ world'.bal = world.bal
          /\ world'.store = [world.store EXCEPT ![f.self] = 1 - @]
      BY <2>2, <3>1, Zenon DEF World
    <3>3. world'.store \in [Account -> {0, 1}]
      BY <3>2, <1>8
    <3>4. world' \in World
      BY <2>2, <3>1, <3>2, <3>3, Zenon DEF World
    <3> QED
      BY <3>1, <3>2, <3>4, Zenon DEF WorldOK, total
  <2>3. CASE ~readOnly /\ setTop(broken(f)) /\ world' = [world EXCEPT !.store[f.self] = 1 - @]
             /\ UNCHANGED <<readOnly, parallel, given, result>>
    BY <2>2, <2>3, <1>1, <1>6, Start, StepInside, Zenon
  <2> QED
    BY <2>1, <2>3, <1>1, <1>5, Start, PanicStep, OnlyTop, StepOut, Zenon
<1>10. CASE Selfdestruct
  <2>1. PICK b \in Account :
        \/ Panic \/ Only(f) \/ End(f, TRUE)
        \/ /\ ~readOnly /\ setTop([f EXCEPT !.break = TRUE])
           /\ world' = [[world EXCEPT !.bal[b] = @ + world.bal[f.self], !.exist = @ \cup {b}]
                           EXCEPT !.bal[f.self] = 0]
           /\ UNCHANGED <<readOnly, parallel, given, result>>
    BY <1>10, Zenon DEF Selfdestruct, f
  <2>2. CASE /\ ~readOnly /\ setTop([f EXCEPT !.break = TRUE])
             /\ world' = [[world EXCEPT !.bal[b] = @ + world.bal[f.self], !.exist = @ \cup {b}]
                             EXCEPT !.bal[f.self] = 0]
             /\ UNCHANGED <<readOnly, parallel, given, result>>
    <3>1. WorldOK(world)
      BY Zenon DEF FramesInv, FramesTypeOK
    <3>2. WorldOK(world')
      BY <2>2, <3>1, <1>8, DestroyOK, Zenon
    <3> QED
      BY <2>2, <3>2, <1>1, <1>7, Start, StepInside, Zenon
  <2> QED
    BY <2>1, <2>2, <1>1, <1>5, Start, PanicStep, OnlyTop, StepOut, Zenon
<1> QED
  BY <1>9, <1>10, Zenon

\* The gas given to a callee is a number.
LEMMA CallGasInt ==
  ASSUME FramesConstants, NEW a \in Int, NEW b \in Int, NEW c \in Int
  PROVE  callGas(a, b, c) \in Int
<1>1. (a - b) % (MaxUint + 1) \in Int
  BY DEF MaxUint
<1>2. \A l \in Int : l \div Fraction \in Int
  BY DEF FramesConstants
<1> QED
  BY <1>1, <1>2 DEF callGas

\* What a call moves: nothing of an account that is read only.
LEMMA MovedOK ==
  ASSUME WorldOK(world), NEW kind, NEW addr \in Account, NEW self \in Account, NEW value \in Nat,
         world.bal[self] >= value
  PROVE  LET moved == IF kind = "CALL" THEN transfer(alive(kind, addr), self, addr, value)
                      ELSE alive(kind, addr)
         IN WorldOK(moved) /\ ((kind = "CALL" => value = 0) => Alike(moved, world))
<1> DEFINE w == alive(kind, addr)
<1>1. WorldOK(w) /\ Alike(w, world)
  <2>1. CASE kind \in {"CALL", "STATICCALL"}
    BY <2>1, ExistOK, Zenon DEF alive
  <2>2. CASE kind \notin {"CALL", "STATICCALL"}
    BY <2>2, Zenon DEF alive, Alike
  <2> QED
    BY <2>1, <2>2, Zenon
<1>2. w.bal[self] >= value
  BY <1>1, Zenon DEF Alike
<1> HIDE DEF w
<1>3. WorldOK(transfer(w, self, addr, value)) /\ (value = 0 => Alike(transfer(w, self, addr, value), w))
  BY <1>1, <1>2, TransferOK, Zenon
<1> QED
  BY <1>1, <1>3, Zenon DEF Alike, w

\* Call, CallCode, DelegateCall and StaticCall.
LEMMA EnterStep ==
  ASSUME FramesInv, Running, NEW p, Kin(p, Top), NEW kind, NEW addr \in Account, NEW value \in Nat,
         NEW gas \in Int, enter(p, kind, addr, value, gas), readOnly /\ kind = "CALL" => value = 0
  PROVE  FramesInv' /\ StaticStep
<1> DEFINE moved == IF kind = "CALL" THEN transfer(alive(kind, addr), p.self, addr, value)
                    ELSE alive(kind, addr)
           answer(g, can, w) == /\ setTop(resumed(p, g, can, FALSE, FALSE)) /\ world' = w
                                /\ UNCHANGED <<readOnly, parallel, given, result>>
           g == [newFrame(IF kind \in {"CALL", "STATICCALL"} THEN addr ELSE p.self, gas, world)
                   EXCEPT !.static = setsReadOnly(kind)]
<1>1. /\ p \in Frame /\ p.self \in Account /\ parallel \in BOOLEAN /\ readOnly \in BOOLEAN
      /\ WorldOK(world) /\ world \in World /\ total(world) <= Supply
  BY Zenon DEF Kin, Frame, FramesInv, FramesTypeOK, WorldOK
<1>2. ASSUME NEW h \in Int, NEW can \in BOOLEAN, NEW w, WorldOK(w), readOnly => Alike(w, world), answer(h, can, w)
      PROVE  FramesInv' /\ StaticStep
  <2>1. Kin(resumed(p, h, can, FALSE, FALSE), p)
    BY <1>1, Resumed, Zenon
  <2>2. Kin(resumed(p, h, can, FALSE, FALSE), Top)
    BY <2>1, KinTrans, Zenon
  <2>3. WorldOK(world') /\ (readOnly => Alike(world', world))
    BY <1>2, Zenon
  <2> QED
    BY <2>2, <2>3, <1>2, StepInside, Zenon
<1>3. Alike(world, world)
  BY Zenon DEF Alike
<1>4. CASE \E h \in {0, gas} : answer(h, kind # "CALL", world)
  <2>1. PICK h \in {0, gas} : answer(h, kind # "CALL", world)
    BY <1>4, Zenon
  <2>2. h \in Int /\ (kind # "CALL") \in BOOLEAN
    OBVIOUS
  <2> QED
    BY <2>1, <2>2, <1>1, <1>2, <1>3, Zenon
<1>5. CASE answer(gas, TRUE, world)
  BY <1>1, <1>2, <1>3, <1>5, Zenon
<1>6. CASE /\ world.bal[p.self] >= value
           /\ \/ answer(gas - 1, kind # "CALL", moved)
              \/ answer(gas, TRUE, moved)
              \/ /\ frames' = Append(Append(Below, p), g)
                 /\ readOnly' = (readOnly \/ kind = "STATICCALL")
                 /\ world' = moved
                 /\ UNCHANGED <<parallel, given, result>>
  <2>1. WorldOK(moved) /\ (readOnly => Alike(moved, world))
    <3>1. WorldOK(moved) /\ ((kind = "CALL" => value = 0) => Alike(moved, world))
      BY <1>1, <1>6, MovedOK, Zenon
    <3> QED
      BY <3>1, Zenon
  <2>2. gas - 1 \in Int /\ (kind # "CALL") \in BOOLEAN
    OBVIOUS
  <2>3. g \in Frame /\ g.snap = world /\ g.static = setsReadOnly(kind)
    <3>1. setsReadOnly(kind) \in BOOLEAN /\ (IF kind \in {"CALL", "STATICCALL"} THEN addr ELSE p.self) \in Account
      BY <1>1, Zenon DEF setsReadOnly
    <3> QED
      BY <3>1, <1>1, Zenon DEF newFrame, Frame
  <2> HIDE DEF moved, g
  <2>4. CASE answer(gas - 1, kind # "CALL", moved)
    BY <2>1, <2>2, <2>4, <1>2, Zenon
  <2>5. CASE answer(gas, TRUE, moved)
    BY <2>1, <2>5, <1>2, Zenon
  <2>6. CASE /\ frames' = Append(Append(Below, p), g)
             /\ readOnly' = (readOnly \/ kind = "STATICCALL")
             /\ world' = moved
             /\ UNCHANGED <<parallel, given, result>>
    <3>1. /\ readOnly' \in BOOLEAN /\ (readOnly => readOnly') /\ (g.static => readOnly' /\ ~readOnly)
      BY <2>3, <2>6, <1>1, Zenon DEF setsReadOnly
    <3>2. WorldOK(world') /\ (readOnly => Alike(world', world)) /\ UNCHANGED <<parallel, result>>
      BY <2>1, <2>6, Zenon
    <3> QED
      BY <2>3, <2>6, <3>1, <3>2, StepInto, Zenon
  <2> QED
    BY <2>4, <2>5, <2>6, <1>6, Zenon
<1>7. world.bal[p.self] \in Nat
  BY <1>1, Zenon DEF World
<1>8. \/ answer(gas, TRUE, world)
      \/ \E h \in {0, gas} : answer(h, kind # "CALL", world)
      \/ /\ ~(world.bal[p.self] < value)
         /\ \/ answer(gas - 1, kind # "CALL", moved)
            \/ answer(gas, TRUE, moved)
            \/ /\ frames' = Append(Append(Below, p), g)
               /\ readOnly' = (readOnly \/ kind = "STATICCALL")
               /\ world' = moved
               /\ UNCHANGED <<parallel, given, result>>
  BY Zenon DEF enter
<1>9. ~(world.bal[p.self] < value) => world.bal[p.self] >= value
  BY <1>7
<1> HIDE DEF answer, moved, g
<1> QED
  BY <1>4, <1>5, <1>6, <1>8, <1>9, Zenon

\* CALL, STATICCALL and their relatives.
LEMMA CallInstruction == ASSUME FramesConstants, FramesInv, Call PROVE FramesInv' /\ StaticStep
<1>1. PICK kind \in {"CALL", "CALLCODE", "DELEGATECALL", "STATICCALL"},
           addr \in Account \ {"new"}, value \in {0, 1}, callCost \in {1, MaxUint + 1} :
        LET base == baseGas(kind, addr, value)
            temp == callGas(Top.gas - 1, base, callCost)
            f    == touched(charge(Top, 1 + base + temp))
        IN /\ Ready /\ (kind \in {"DELEGATECALL", "STATICCALL"} => value = 0)
           /\ Charged(1) /\ Charged(1 + base + temp)
           /\ IF TouchPanics THEN Panic
              ELSE IF ~executes(Top) THEN Only(f)
              ELSE IF kind = "CALL" /\ readOnly /\ value > 0 THEN End(f, TRUE)
              ELSE enter(f, kind, addr, value, temp + (IF value > 0 THEN CallStipend ELSE 0))
  BY Zenon DEF Call
<1> DEFINE base == baseGas(kind, addr, value)
           temp == callGas(Top.gas - 1, base, callCost)
           f    == touched(charge(Top, 1 + base + temp))
           gas  == temp + (IF value > 0 THEN CallStipend ELSE 0)
<1>2. base \in Int
  BY DEF baseGas, CallNewAccountGas, CallValueTransferGas
<1>3. temp \in Int
  <2>1. Top.gas \in Int
    BY <1>1, Start, Zenon
  <2>2. Top.gas - 1 \in Int /\ callCost \in Int
    BY <2>1 DEF MaxUint
  <2> QED
    BY <1>2, <2>2, CallGasInt, Zenon
<1> HIDE DEF base, temp
<1>4. 1 + base + temp \in Int /\ gas \in Int
  BY <1>2, <1>3 DEF CallStipend
<1>5. Kin(f, Top)
  <2>1. Kin(charge(Top, 1 + base + temp), Top)
    BY <1>1, <1>4, Start, ChargedOne, Zenon
  <2>2. Kin(f, charge(Top, 1 + base + temp))
    BY <1>1, <2>1, Start, Touched, Zenon DEF Kin
  <2> QED
    BY <2>1, <2>2, KinTrans, Zenon
<1>6. /\ Ready
      /\ \/ Panic \/ Only(f) \/ End(f, TRUE)
         \/ ~(kind = "CALL" /\ readOnly /\ value > 0) /\ enter(f, kind, addr, value, gas)
  BY <1>1, Zenon DEF base, temp
<1> HIDE DEF f, gas
<1>7. CASE ~(kind = "CALL" /\ readOnly /\ value > 0) /\ enter(f, kind, addr, value, gas)
  BY <1>4, <1>5, <1>6, <1>7, Start, EnterStep
<1> QED
  BY <1>5, <1>6, <1>7, Start, PanicStep, OnlyTop, StepOut, Zenon

\* CREATE and CREATE2.
LEMMA CreateInstruction == ASSUME FramesConstants, FramesInv, Create PROVE FramesInv' /\ StaticStep
<1> DEFINE paid == charge(Top, CreateGas)
           gas  == paid.gas - paid.gas \div Fraction
           p    == [charge(paid, gas) EXCEPT !.can = FALSE]
<1>1. PICK value \in {0, 1} :
        Ready /\ (Panic \/ End([paid EXCEPT !.can = FALSE], TRUE) \/ (~readOnly /\ create(p, gas, value)))
  BY Zenon DEF Create
<1>2. Kin(paid, Top)
  BY <1>1, Start, ChargedOne DEF CreateGas
<1>3. paid \in Frame /\ paid.gas \in Int
  BY <1>2, Zenon DEF Kin, Frame
<1> HIDE DEF paid
<1>4. gas \in Int
  <2>1. \A l \in Int : l \div Fraction \in Int
    BY DEF FramesConstants
  <2> QED
    BY <2>1, <1>3
<1>5. Kin([paid EXCEPT !.can = FALSE], Top)
  BY <1>2, <1>3, Zenon DEF Kin, Frame
<1> HIDE DEF gas
<1>6. Kin(p, Top)
  <2>1. Kin(charge(paid, gas), paid)
    BY <1>3, <1>4, ChargedOne, Zenon
  <2>2. Kin(p, charge(paid, gas))
    BY <2>1, Zenon DEF Kin, Frame
  <2> QED
    BY <2>1, <2>2, <1>2, KinTrans, Zenon
<1> HIDE DEF p
<1>7. CASE ~readOnly /\ create(p, gas, value)
  <2> DEFINE g == [newFrame("new", gas, world) EXCEPT !.creates = TRUE]
             w == [world EXCEPT !.exist = @ \cup {"new"}]
  <2>1. \/ Only([p EXCEPT !.gas = @ + gas])
        \/ /\ world.bal[p.self] >= value
           /\ frames' = Append(Append(Below, p), g)
           /\ world' = transfer(w, p.self, "new", value)
           /\ UNCHANGED <<readOnly, parallel, given, result>>
    <3>1. world.bal[p.self] \in Nat
      BY <1>6, Zenon DEF FramesInv, FramesTypeOK, WorldOK, World, Kin, Frame
    <3> QED
      BY <3>1, <1>7 DEF create
  <2>2. CASE Only([p EXCEPT !.gas = @ + gas])
    <3>1. Kin([p EXCEPT !.gas = @ + gas], Top)
      BY <1>4, <1>6 DEF Kin, Frame
    <3> QED
      BY <3>1, <2>2, <1>1, Start, OnlyTop, Zenon
  <2>3. CASE /\ world.bal[p.self] >= value
             /\ frames' = Append(Append(Below, p), g)
             /\ world' = transfer(w, p.self, "new", value)
             /\ UNCHANGED <<readOnly, parallel, given, result>>
    <3>1. /\ WorldOK(world) /\ world \in World /\ total(world) <= Supply /\ "new" \in Account
          /\ p.self \in Account /\ value \in Nat
      BY <1>6 DEF FramesInv, FramesTypeOK, WorldOK, Kin, Frame, Account
    <3>2. WorldOK(w) /\ Alike(w, world)
      BY <3>1, ExistOK, Zenon
    <3>3. g \in Frame /\ g.snap = world /\ ~g.static
      BY <3>1, <1>4, Zenon DEF newFrame, Frame
    <3> HIDE DEF w, g
    <3>4. w.bal[p.self] >= value
      BY <3>2, <2>3, Zenon DEF Alike
    <3>5. WorldOK(world')
      BY <3>1, <3>2, <3>4, <2>3, TransferOK, Zenon
    <3>6. readOnly \in BOOLEAN
      BY Zenon DEF FramesInv, FramesTypeOK
    <3> QED
      BY <3>3, <3>5, <3>6, <2>3, <1>1, <1>6, <1>7, Start, StepInto, Zenon
  <2> QED
    BY <2>1, <2>2, <2>3, Zenon
<1> QED
  BY <1>1, <1>5, <1>7, Start, PanicStep, StepOut, Zenon

\* The outermost frame of a transaction.
LEMMA InitFrames == ASSUME FramesConstants, Init PROVE FramesInv
<1>1. world = [bal |-> [a \in Account |-> IF a = "main" THEN Supply ELSE 0],
               store |-> [a \in Account |-> 0], exist |-> Account \ {"absent", "new"}]
  BY Zenon DEF Init
<1>2. world \in World
  BY <1>1, Zenon DEF World, Supply
<1>3. total(world) <= Supply
  BY <1>1 DEF total, Account, Supply
<1>4. PICK g \in Limits : frames = <<newFrame("main", g, world)>>
  BY Zenon DEF Init
<1>5. newFrame("main", g, world) \in Frame /\ ~newFrame("main", g, world).static
  BY <1>2, <1>3 DEF newFrame, Frame, FramesConstants, Account
<1>6. frames \in Seq(Frame) /\ frames # <<>> /\ DOMAIN frames = {1} /\ ~frames[1].static
  BY <1>4, <1>5
<1>7. FramesTypeOK
  BY <1>2, <1>3, <1>6, Zenon DEF Init, FramesTypeOK, WorldOK
<1> QED
  BY <1>6, <1>7, Zenon DEF FramesInv, StaticOK

\* One case per instruction.
LEMMA NextFrames == ASSUME FramesConstants, FramesInv, [Next]_vars PROVE FramesInv' /\ [StaticStep]_vars
<1>1. CASE UNCHANGED vars
  <2>1. FramesTypeOK'
    BY <1>1, Zenon DEF FramesInv, FramesTypeOK, vars, Running
  <2>2. StaticOK'
    BY <1>1, Zenon DEF FramesInv, StaticOK, vars
  <2> QED
    BY <1>1, <2>1, <2>2, Zenon DEF FramesInv
<1>2. CASE Next
  BY <1>2, SimpleSteps, WriteSteps, CallInstruction, CreateInstruction, Zenon DEF Next
<1> QED
  BY <1>1, <1>2, Zenon

\* For every gas limit, every depth of calls and every contract: what the
\* accounts hold together never exceeds what they held at the start.
THEOREM EVMCreatesNoValue == ASSUME FramesConstants PROVE Spec => []ValueNotCreated
<1>1. Init => FramesInv
  BY InitFrames, Zenon
<1>2. FramesInv /\ [Next]_vars => FramesInv'
  BY NextFrames, Zenon
<1>3. FramesInv => ValueNotCreated
  BY Zenon DEF FramesInv, FramesTypeOK, WorldOK, ValueNotCreated
<1> QED
  BY <1>1, <1>2, <1>3, PTL DEF Spec

\* For every gas limit, every depth of calls and every contract: from the
\* start of a static call to its end no balance and no slot changes.
THEOREM EVMStaticCallsWriteNothing == ASSUME FramesConstants PROVE Spec => [][StaticStep]_vars
<1>1. Init => FramesInv
  BY InitFrames, Zenon
<1>2. FramesInv /\ [Next]_vars => FramesInv'
  BY NextFrames, Zenon
<1>3. FramesInv /\ [Next]_vars => [StaticStep]_vars
  BY NextFrames, Zenon
<1> QED
  BY <1>1, <1>2, <1>3, PTL DEF Spec

=============================================================================
