------------------------------ MODULE Executor ------------------------------
(***************************************************************************)
(* The executor service and the chain (executor/executor_server.go,        *)
(* core/blockchain.go): transactions go from the pending pool to the       *)
(* consensus layer, come back in ordered blocks, and are executed and      *)
(* appended to the chain as the execution pool announces them.  A pool is  *)
(* what the service sees of it: a queue, the promoted transactions, what   *)
(* the current run announces, and a channel (LegacyPool and PoolLifecycle  *)
(* model it in full).  Every transaction has a sender of its own, so that  *)
(* its nonce is valid until it was executed.                               *)
(***************************************************************************)
EXTENDS Integers, Sequences, FiniteSets

CONSTANTS Txs,
          MaxOrders, \* bound: blocks of the consensus layer, and direct additions
          MaxEvents, \* txChanSize: announcements that wait for a loop
          MaxDrops   \* bound: times a pool drops what was not executed

VARIABLES pend,    \* the pending pool
          exec,    \* the execution pool
          net,     \* requests that reached the consensus layer
          orders,  \* blocks it has ordered
          loop,    \* ExecuteLoop: where it is, its header and transactions
          chain,   \* bc.blocks
          nonces,  \* transactions whose nonce is used: the state both pools validate with
          sender,  \* SendLoop: the event it is sending, or "select", "over"
          drops    \* history: times a pool dropped what was not executed

serviceVars == <<pend, exec, net, orders, loop, chain, nonces, sender, drops>>

NewPool == [queue |-> {}, pending |-> {}, ev |-> {}, ch |-> <<>>, open |-> TRUE]
Genesis == [number |-> 0, parent |-> 0, txs |-> {}, kept |-> {}, receipts |-> {}]

ServiceInit ==
    /\ pend = NewPool /\ exec = NewPool
    /\ net \in SUBSET Txs \* requests other nodes have sent
    /\ orders = 0
    /\ chain = <<Genesis>> /\ nonces = {}
    /\ loop = [at |-> "top", block |-> Genesis]
    /\ sender = [at |-> "select", txs |-> {}]
    /\ drops = 0

CurrentBlock == chain[Len(chain)]
InBlocks     == UNION {chain[i].txs : i \in DOMAIN chain}

-----------------------------------------------------------------------------
(***************************************************************************)
(* The pools.  Add queues what the pool does not hold and the state has    *)
(* not executed; a full pool makes room.  What validation refuses is not   *)
(* in ts.  A closed pool still queues.                                     *)
(***************************************************************************)
held(pool) == pool.queue \cup pool.pending

Add(pool, ts, gone) ==
    LET new == {t \in ts : t \notin held(pool) /\ t \notin nonces}
    IN [pool EXCEPT !.queue = (@ \ gone) \cup new, !.pending = @ \ gone]

Dropping(gone) == /\ drops' = IF gone \subseteq nonces THEN drops ELSE drops + 1
                  /\ drops' <= MaxDrops

(***************************************************************************)
(* A run of the scheduler: transactions of the queue that were executed or *)
(* cannot be paid are dropped and the others promoted; after a new head so *)
(* are those already promoted; what is over the limits is dropped, having  *)
(* been announced or not.                                                  *)
(***************************************************************************)
runReorg(pool, unpaid, over, reset) ==
    LET promoted == pool.queue \ (nonces \cup unpaid)
    IN [pool EXCEPT !.queue   = {},
                    !.pending = (@ \cup promoted) \ (over \cup IF reset THEN nonces ELSE {}),
                    !.ev      = promoted]

runs(pool) == {r \in [unpaid : SUBSET pool.queue, over : SUBSET held(pool), reset : BOOLEAN] :
                 /\ pool.ev = {}
                 /\ r.reset => pool.pending \cap InBlocks # {}
                 /\ r.reset \/ pool.queue # {}}

\* The end of the run: txFeed.Send waits for room in the channel.
announces(pool) == pool.ev # {} /\ (pool.open => Len(pool.ch) < MaxEvents)
announced(pool) == [pool EXCEPT !.ev = {}, !.ch = IF pool.open THEN Append(@, pool.ev) ELSE @]

RunPendingPool ==
    /\ \/ \E r \in runs(pend) : /\ pend' = runReorg(pend, r.unpaid, r.over, r.reset)
                                /\ Dropping(r.unpaid \cup r.over)
       \/ announces(pend) /\ pend' = announced(pend) /\ UNCHANGED drops
    /\ UNCHANGED <<exec, net, orders, loop, chain, nonces, sender>>

RunExecutionPool ==
    /\ \/ \E r \in runs(exec) : /\ exec' = runReorg(exec, r.unpaid, r.over, r.reset)
                                /\ Dropping(r.unpaid \cup r.over)
       \/ announces(exec) /\ exec' = announced(exec) /\ UNCHANGED drops
    /\ UNCHANGED <<pend, net, orders, loop, chain, nonces, sender>>

-----------------------------------------------------------------------------
AddTxToPendingPool ==
    /\ \E t \in Txs, gone \in SUBSET held(pend) :
         pend' = Add(pend, {t}, gone) /\ pend' # pend /\ Dropping(gone)
    /\ UNCHANGED <<exec, net, orders, loop, chain, nonces, sender>>

\* AddTxToExecutionPool passes the consensus layer by.
AddTxToExecutionPool ==
    /\ orders < MaxOrders
    /\ \E t \in Txs, gone \in SUBSET held(exec) :
         exec' = Add(exec, {t}, gone) /\ exec' # exec /\ Dropping(gone)
    /\ orders' = orders + 1
    /\ UNCHANGED <<pend, net, loop, chain, nonces, sender>>

SendLoop ==
    /\ sender.at = "select" /\ pend.ch # <<>>
    /\ sender' = [at |-> "send", txs |-> Head(pend.ch)]
    /\ pend' = [pend EXCEPT !.ch = Tail(@)]
    /\ UNCHANGED <<exec, net, orders, loop, chain, nonces, drops>>

\* sendTx: the result is not looked at, a failed call loses the request.  The
\* call has no deadline: nothing says that this step is ever taken.
SendTx ==
    /\ sender.at = "send"
    /\ \E t \in sender.txs, delivered \in BOOLEAN :
          /\ sender' = [txs |-> sender.txs \ {t}, at |-> IF sender.txs = {t} THEN "select" ELSE "send"]
          /\ net' = IF delivered THEN net \cup {t} ELSE net
    /\ UNCHANGED <<pend, exec, orders, loop, chain, nonces, drops>>

SendLoopEnds ==
    /\ sender.at = "select" /\ ~pend.open
    /\ sender' = [sender EXCEPT !.at = "over"]
    /\ UNCHANGED <<pend, exec, net, orders, loop, chain, nonces, drops>>

(***************************************************************************)
(* CommitBlock adds first the transactions the pending pool knows as       *)
(* local, then the others.  The consensus layer may order a request in     *)
(* more than one block.                                                    *)
(***************************************************************************)
CommitBlock ==
    /\ orders < MaxOrders
    /\ \E ts \in (SUBSET net) \ {{}}, gone \in SUBSET held(exec) :
         LET local == ts \cap held(pend)
         IN exec' = Add(Add(exec, local, gone), ts \ local, {}) /\ Dropping(gone)
    /\ orders' = orders + 1
    /\ UNCHANGED <<pend, net, loop, chain, nonces, sender>>

-----------------------------------------------------------------------------
\* initHeader, at the top of the loop after a block was written.
InitHeader ==
    /\ loop.at = "top"
    /\ loop' = [at |-> "select", block |-> [Genesis EXCEPT !.number = CurrentBlock.number + 1,
                                                          !.parent = CurrentBlock.number]]
    /\ UNCHANGED <<pend, exec, net, orders, chain, nonces, sender, drops>>

TakeEvent ==
    /\ loop.at = "select" /\ exec.ch # <<>>
    /\ loop' = [at |-> "process", block |-> [loop.block EXCEPT !.txs = @ \cup Head(exec.ch)]]
    /\ exec' = [exec EXCEPT !.ch = Tail(@)]
    /\ UNCHANGED <<pend, net, orders, chain, nonces, sender, drops>>

\* Mutant: the nonce is not compared with the state's.
ProcessAgain ==
    /\ loop.at = "process"
    /\ \E ok, kept \in SUBSET loop.block.txs :
          /\ Cardinality(loop.block.txs) = 1 => ok \subseteq kept
          /\ nonces' = nonces \cup kept
          /\ loop' = [at |-> "write", block |-> [loop.block EXCEPT !.kept = kept, !.receipts = ok]]
    /\ UNCHANGED <<pend, exec, net, orders, chain, sender, drops>>

(***************************************************************************)
(* Process writes the shared state (Processor models what it does inside). *)
(* A transaction whose nonce is the state's may get past the checks; it    *)
(* uses the nonce then, and gets a receipt unless its code fails.  In a    *)
(* block of several transactions a thread may undo the nonce another       *)
(* thread has set: kept are those that stand in the end.                   *)
(***************************************************************************)
Process ==
    /\ loop.at = "process"
    /\ \E ok, kept \in SUBSET (loop.block.txs \ nonces) :
          /\ Cardinality(loop.block.txs) = 1 => ok \subseteq kept
          /\ nonces' = nonces \cup kept
          /\ loop' = [at |-> "write", block |-> [loop.block EXCEPT !.kept = kept, !.receipts = ok]]
    /\ UNCHANGED <<pend, exec, net, orders, chain, sender, drops>>

\* An error of Process, or a panic inside it, ends the whole program.
ProcessFails ==
    /\ loop.at = "process"
    /\ loop' = [loop EXCEPT !.at = "dead"]
    /\ UNCHANGED <<pend, exec, net, orders, chain, nonces, sender, drops>>

\* WriteBlockAndSetHead: chainmu is never closed and has no other user.
WriteBlockAndSetHead ==
    /\ loop.at = "write"
    /\ chain' = Append(chain, loop.block)
    /\ loop' = [loop EXCEPT !.at = "top"]
    /\ UNCHANGED <<pend, exec, net, orders, nonces, sender, drops>>

\* Mutant: the loop does not hear that its subscription ended.
ExecuteLoopContinues ==
    /\ loop.at = "select" /\ ~exec.open
    /\ UNCHANGED serviceVars

ExecuteLoopEnds ==
    /\ loop.at = "select" /\ ~exec.open
    /\ loop' = [loop EXCEPT !.at = "over"]
    /\ UNCHANGED <<pend, exec, net, orders, chain, nonces, sender, drops>>

\* Stop closes the execution pool, then the pending pool.
Stop ==
    /\ exec.open \/ pend.open
    /\ IF exec.open THEN exec' = [exec EXCEPT !.open = FALSE] /\ UNCHANGED pend
                    ELSE pend' = [pend EXCEPT !.open = FALSE] /\ UNCHANGED exec
    /\ UNCHANGED <<net, orders, loop, chain, nonces, sender, drops>>

Selecting == SendLoop \/ SendLoopEnds
Executing == InitHeader \/ TakeEvent \/ Process \/ ProcessFails \/ WriteBlockAndSetHead \/ ExecuteLoopEnds
Alive     == loop.at # "dead"

ServiceNext == Alive /\ (\/ AddTxToPendingPool \/ AddTxToExecutionPool \/ RunPendingPool \/ RunExecutionPool
                         \/ Selecting \/ SendTx \/ CommitBlock \/ Executing \/ Stop)

\* Both loops are goroutines that take what their select offers, and so is the
\* scheduler of an open pool; a call of the consensus layer may never return.
ServiceSpec == /\ ServiceInit /\ [][ServiceNext]_serviceVars
               /\ WF_serviceVars(Alive /\ Selecting) /\ WF_serviceVars(Alive /\ Executing)
               /\ WF_serviceVars(Alive /\ exec.open /\ RunExecutionPool)

-----------------------------------------------------------------------------
Kept == UNION {chain[i].kept : i \in DOMAIN chain}

ReceiptsSound(block) == /\ block.receipts \cup block.kept \subseteq block.txs
                        /\ Cardinality(block.txs) = 1 => block.receipts \subseteq block.kept

(***************************************************************************)
(* The chain is linked by number and parent.  Every receipt is of a        *)
(* transaction of its block, and a transaction whose nonce stands gets no  *)
(* receipt in a later block, however often the consensus layer orders it,  *)
(* a pool drops and accepts it again, and the announcements of it wait:    *)
(* only one whose nonce another thread has undone can get a second         *)
(* receipt, and none that was alone in its block.  The nonces of the state *)
(* are those the blocks have used, failed transactions included, and the   *)
(* block that is about to be written.                                      *)
(***************************************************************************)
ChainSound ==
    /\ \A i \in 2 .. Len(chain) : /\ chain[i].number = i - 1
                                  /\ chain[i].parent = chain[i - 1].number
                                  /\ chain[i].txs # {}
    /\ \A i \in DOMAIN chain : ReceiptsSound(chain[i])
    /\ \A i, j \in DOMAIN chain :
          i < j => chain[i].kept \cap (chain[j].receipts \cup chain[j].kept) = {}
    /\ nonces = IF loop.at = "write" THEN Kept \cup loop.block.kept ELSE Kept

(***************************************************************************)
(* While the execution pool is open and no block ends the program, what it *)
(* has queued is promoted or dropped, and what it has promoted gets into a *)
(* block, even if it is dropped after that.  A stopped service ends both   *)
(* loops, unless SendLoop is in a call that does not return.               *)
(***************************************************************************)
PromotedIsExecuted ==
    /\ \A t \in Txs : /\ t \in exec.queue ~> (t \notin exec.queue \/ ~exec.open \/ ~Alive)
                      /\ t \in exec.pending ~> (t \in InBlocks \/ ~exec.open \/ ~Alive)
    /\ (~exec.open /\ ~pend.open) ~> [](~Alive \/ (loop.at = "over" /\ sender.at \in {"over", "send"}))
=============================================================================
