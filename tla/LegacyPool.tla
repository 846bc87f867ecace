----------------------------- MODULE LegacyPool -----------------------------
(***************************************************************************)
(* The transaction pool (src/core/txpool/legacypool/legacypool.go): the    *)
(* per-account lists `pending` and `queue`, the lookup of all transactions,*)
(* the virtual nonces, the local accounts, and the operations on them: add,*)
(* removeTx, the eviction tick, SetGasTip, and the background run runReorg *)
(* (reset, promoteExecutables, demoteUnexecutables, truncatePending,       *)
(* truncateQueue, event announcement).                                     *)
(*                                                                         *)
(* All of them run under pool.mu.  `stage` says which one holds the mutex  *)
(* ("free": none).  A critical section is split into the iterations of its *)
(* loops, because the state the pool reads (GetNonce, GetBalance) is the   *)
(* one StateDB that the executor writes without taking pool.mu             *)
(* (Blockchain.StateAt returns it, src/core/blockchain.go:72): the actions *)
(* StateWrite, Transfer and Rollback may fall between any two iterations.  *)
(*                                                                         *)
(* The priced list is abstracted to its contract: Underpriced may refuse a *)
(* remote transaction, Discard returns some remote transactions, at most   *)
(* as many as are needed (the heaps are not modelled).  Every              *)
(* transaction takes one slot.  Heartbeat times are abstracted to their    *)
(* presence: any account may be the oldest.                                *)
(***************************************************************************)
EXTENDS Integers, FiniteSets, Folds, Sequences

(***************************************************************************)
(* Transactions and the nonce-indexed lists of them that the transaction   *)
(* pool keeps per account (src/core/txpool/legacypool/list.go), as pure    *)
(* operators on sets of transactions.  A list holds at most one            *)
(* transaction per nonce.  The caches of the code's list (costcap, gascap, *)
(* totalcost, the nonce heap and the sorted slice) are not modelled.       *)
(*                                                                         *)
(* A transaction is reduced to its sender, nonce and price.  The price     *)
(* stands for both GasFeeCap and GasTipCap, and is also the cost (a        *)
(* transaction of one unit of gas and no value).                           *)
(***************************************************************************)

CONSTANTS Addr,       \* accounts
          MaxNonce,   \* bound: nonces are 0..MaxNonce
          Fee,        \* prices
          PriceBump   \* Config.PriceBump, in percent

ASSUME NonceListAssumption ==
    /\ MaxNonce \in Nat
    /\ IsFiniteSet(Addr) /\ Addr # {}
    /\ IsFiniteSet(Fee) /\ Fee # {} /\ Fee \subseteq Nat
    /\ PriceBump \in Nat

Nonce == 0 .. MaxNonce

Tx == [from : Addr, nonce : Nonce, fee : Fee]

Cost(tx) == tx.fee

\* list.Contains
Has(list, n) == \E t \in list : t.nonce = n

\* One transaction per nonce.
Unique(list) == \A s, t \in list : s.nonce = t.nonce => s = t

\* The price test of list.Add: strictly more, and by PriceBump percent with
\* the threshold rounded down.
Bumps(old, new) ==
    /\ old.fee < new.fee
    /\ new.fee >= (old.fee * (100 + PriceBump)) \div 100

\* list.Add refuses tx when an older transaction with its nonce is better...
Rejects(list, tx) == \E old \in list : old.nonce = tx.nonce /\ ~Bumps(old, tx)

\* ... and otherwise overwrites the transaction with its nonce.
Old(list, tx) == {old \in list : old.nonce = tx.nonce}

Put(list, tx) == (list \ Old(list, tx)) \cup {tx}

\* list.Forward: the transactions below the threshold.
Forward(list, threshold) == {t \in list : t.nonce < threshold}

\* list.Filter: what the balance cannot pay for ...
Unpayable(list, balance) == {t \in list : Cost(t) > balance}

\* ... and, for a strict list, everything above the lowest of those.
Invalids(list, removed) == {t \in list \ removed : \E r \in removed : r.nonce < t.nonce}

\* Mutant: a gap in the list does not end the run.
ReadyOverGaps(list, start) ==
    {t \in list : \E first \in list :
        /\ first.nonce <= start
        /\ \A u \in list : first.nonce <= u.nonce}

\* list.Ready: the run of consecutive nonces that starts at the lowest nonce
\* of the list, provided that one is not above start.
Ready(list, start) ==
    {t \in list : \E first \in list :
        /\ first.nonce <= start
        /\ \A u \in list : first.nonce <= u.nonce
        /\ \A n \in first.nonce .. t.nonce : Has(list, n)}

\* list.Cap: the transactions in excess of k, highest nonces first.
Excess(list, k) == {t \in list : Cardinality({u \in list : u.nonce <= t.nonce}) > k}

\* list.Cap(list.Len() - 1): the transaction with the highest nonce.
Last(list) == {t \in list : \A u \in list : u.nonce <= t.nonce}

\* Several list.Add in a row, for transactions of distinct nonces: which of
\* them are refused, and the list that results.
RejectedOf(list, txs) == {t \in txs : Rejects(list, t)}
ReplacedOf(list, txs) == {o \in list : \E t \in txs : t.nonce = o.nonce /\ Bumps(o, t)}
PutAll(list, txs) == (list \ ReplacedOf(list, txs)) \cup (txs \ RejectedOf(list, txs))

-----------------------------------------------------------------------------
CONSTANTS Balance,       \* account balances
          AccountSlots, GlobalSlots, AccountQueue, GlobalQueue, \* Config
          Source,        \* the values of the local flag that callers of Add pass
          Tip,           \* the values SetGasTip is called with
          MaxExec,       \* bound: executed transactions of an account
          MaxAdd,        \* bound: calls of Add
          MaxInflight,   \* bound: concurrent calls of Add
          MaxHead,       \* bound: new chain heads
          MaxRollback    \* bound: rollbacks of executed transactions

ASSUME LegacyPoolAssumption ==
    /\ Balance \subseteq Nat
    /\ AccountSlots \in Nat \ {0} /\ GlobalSlots \in Nat \ {0}   \* Config.sanitize
    /\ AccountQueue \in Nat \ {0} /\ GlobalQueue \in Nat \ {0}
    /\ Source \subseteq BOOLEAN /\ Tip \subseteq Nat
    /\ MaxExec \in Nat /\ MaxAdd \in Nat /\ MaxInflight \in Nat /\ MaxHead \in Nat /\ MaxRollback \in Nat

VARIABLES stNonce, stBal,  \* currentState: nonce and balance of each account
          rollbacks, heads, adds, \* rollbacks, new heads and calls of Add so far
          pending, queue,  \* pool.pending, pool.queue
          remotes, localTxs, \* pool.all
          locals,          \* pool.locals
          beats,           \* the accounts that have a heartbeat in pool.beats
          pnonce, fallback, \* pool.pendingNonces: virtual nonces, state copy
          gasTip,          \* pool.gasTip
          changes,         \* pool.changesSinceReorg
          inflight,        \* transactions past validateTxBasics, not yet added
          launch, dirty, resetReq, events, \* what the next runReorg is given
          stage,           \* who holds pool.mu, and how far it is
          job,             \* the transaction being added
          todo,            \* accounts still to visit by the current loop
          victims,         \* transactions still to remove by the current loop
          offenders,       \* truncatePending: accounts popped so far
          drop,            \* truncateQueue: transactions still to drop
          isReset,         \* the current run resets the pool
          runEvents,       \* transactions the current run will announce
          run,             \* the current run: "idle", "launched", "locked", "sending"
          announced        \* history: transactions announced so far

chainVars == <<stNonce, stBal, rollbacks, heads>>
listVars  == <<pending, queue, remotes, localTxs, beats, pnonce>>
runVars   == <<todo, offenders, drop, isReset, runEvents, run, announced>>
reqVars   == <<launch, dirty, resetReq, events>>
addVars   == <<adds, inflight, job, locals, changes>>
vars == <<chainVars, listVars, runVars, reqVars, addVars, fallback, gasTip, stage, victims>>

all == remotes \cup localTxs
NoJob == [tx |-> CHOOSE t \in Tx : TRUE, local |-> FALSE, isLocal |-> FALSE]

TotalCost(list) ==
    MapThenFoldSet(+, 0, Cost, LAMBDA S : CHOOSE t \in S : TRUE, list)
\* The sum of the lengths of the lists: the lists of two accounts are disjoint.
Total(lists) == Cardinality(UNION {lists[a] : a \in Addr})
NonEmpty(lists) == {a \in Addr : lists[a] # {}}
\* Mutant: the virtual nonce is not lowered.
NotLower(m, n) == m

\* noncer.setIfLower
Lower(m, n) == IF m <= n THEN m ELSE n
LastNonce(list) == (CHOOSE t \in Last(list) : TRUE).nonce

Init ==
    /\ stNonce = [a \in Addr |-> 0]
    /\ stBal \in [Addr -> Balance]
    /\ rollbacks = 0 /\ heads = 0 /\ adds = 0
    /\ pending = [a \in Addr |-> {}]
    /\ queue = [a \in Addr |-> {}]
    /\ remotes = {} /\ localTxs = {} /\ locals = {} /\ beats = {}
    /\ pnonce = stNonce /\ fallback = stNonce
    /\ gasTip = 0 /\ changes = 0 /\ inflight = {}
    /\ launch = FALSE /\ dirty = {} /\ resetReq = FALSE /\ events = {}
    /\ stage = "free" /\ job = NoJob
    /\ todo = {} /\ victims = {} /\ offenders = <<>> /\ drop = 0
    /\ isReset = FALSE /\ runEvents = {} /\ run = "idle" /\ announced = {}

-----------------------------------------------------------------------------
(* The executor: writes to the shared StateDB, and new heads. *)

\* A transaction of account a is executed.
StateWrite(a) ==
    /\ stNonce[a] < MaxExec
    /\ stNonce' = [stNonce EXCEPT ![a] = @ + 1]
    /\ \E b \in Balance : b <= stBal[a] /\ stBal' = [stBal EXCEPT ![a] = b]
    /\ UNCHANGED <<rollbacks, heads, listVars, runVars, reqVars, addVars, fallback, gasTip, stage, victims>>

\* Account a buys gas, before its nonce moves, pays, is credited or gets gas back.
Transfer(a) ==
    /\ \E b \in Balance : b # stBal[a] /\ stBal' = [stBal EXCEPT ![a] = b]
    /\ UNCHANGED <<stNonce, rollbacks, heads, listVars, runVars, reqVars, addVars, fallback, gasTip, stage, victims>>

\* RevertToSnapshot undoes a transaction of a that cannot run in parallel.
Rollback(a) ==
    /\ rollbacks < MaxRollback
    /\ stNonce[a] > 0
    /\ stNonce' = [stNonce EXCEPT ![a] = @ - 1]
    /\ \E b \in Balance : b >= stBal[a] /\ stBal' = [stBal EXCEPT ![a] = b]
    /\ rollbacks' = rollbacks + 1
    /\ UNCHANGED <<heads, listVars, runVars, reqVars, addVars, fallback, gasTip, stage, victims>>

\* A new head: TxPool.loop calls Reset, which requests a reset run.
RequestReset ==
    /\ heads < MaxHead
    /\ heads' = heads + 1
    /\ resetReq' = TRUE
    /\ launch' = TRUE
    /\ UNCHANGED <<stNonce, stBal, rollbacks, listVars, runVars, dirty, events, addVars, fallback, gasTip, stage, victims>>

-----------------------------------------------------------------------------
(* Adding a transaction: addTxs, add, enqueueTx. *)

\* addTxs before the lock: known transactions and those below the tip (read
\* without pool.mu) are filtered out.
AddBegin(t, local) ==
    /\ adds < MaxAdd /\ Cardinality(inflight) < MaxInflight
    /\ adds' = adds + 1
    /\ t \notin all
    /\ local \/ t.fee >= gasTip
    /\ inflight' = inflight \cup {[tx |-> t, local |-> local]}
    /\ UNCHANGED <<chainVars, listVars, runVars, reqVars, job, locals, changes,
                   fallback, gasTip, stage, victims>>

\* ValidateTransactionWithState: nonce, balance, and the total of the
\* account's pending transactions with t replacing the one of its nonce.
ValidState(t) ==
    /\ stNonce[t.from] <= t.nonce
    /\ Cost(t) <= stBal[t.from]
    /\ TotalCost(Put(pending[t.from], t)) <= stBal[t.from]

Full == Cardinality(all) + 1 > GlobalSlots + GlobalQueue

isGapped(t) ==
    /\ t.nonce > pnonce[t.from]
    /\ \E n \in pnonce[t.from] .. t.nonce - 1 : ~Has(queue[t.from], n)

\* list.Contains of the sender's pending list.
InPending(t) == Has(pending[t.from], t.nonce)

\* What priced.Discard may return when `slots` transactions must go: fewer
\* than `slots` when a heap holds a transaction twice, none only by force.
Discards(slots, force) ==
    {D \in SUBSET remotes : /\ Cardinality(D) <= slots
                            /\ D = {} => force /\ remotes = {}}

\* add, up to the removals: either nothing more happens (known, invalid,
\* underpriced, throttled, overflown, or a future transaction that would
\* push out a pending one) ...
AddRefused(r) ==
    /\ stage = "free"
    /\ LET t == r.tx
           isLocal == r.local \/ t.from \in locals
       IN  \/ t \in all
           \/ ~ValidState(t)
           \/ /\ Full
              /\ \/ ~isLocal
                 \/ changes > GlobalSlots \div 4
    /\ inflight' = inflight \ {r}
    /\ launch' = TRUE                  \* requestPromoteExecutables({})
    /\ UNCHANGED <<chainVars, listVars, runVars, dirty, resetReq, events, adds, job, locals, changes,
                   fallback, gasTip, stage, victims>>

\* ... or the transactions in the way are chosen, and it goes on.
AddAccepted(r) ==
    LET t == r.tx
        isLocal == r.local \/ t.from \in locals
    IN  /\ stage = "free"
        /\ t \notin all
        /\ ValidState(t)
        /\ IF Full
           THEN /\ changes <= GlobalSlots \div 4
                /\ \E D \in Discards(Cardinality(all) + 1 - GlobalSlots - GlobalQueue, isLocal) :
                      /\ ~isLocal /\ isGapped(t) => \A d \in D : ~InPending(d)
                      /\ victims' = D
           ELSE victims' = {}
        /\ job' = [tx |-> t, local |-> r.local, isLocal |-> isLocal]
        /\ stage' = "insert"
        /\ inflight' = inflight \ {r}
        /\ UNCHANGED <<chainVars, listVars, runVars, reqVars, adds, locals, changes, fallback, gasTip>>

\* enqueueTx: the account of the transactions txs gets a heartbeat.
Beat(a, txs) == IF txs = {} THEN beats ELSE beats \cup {a}

\* removeTx of a transaction that is in the pool.
removeTx(t) ==
    LET a == t.from
        later == {u \in pending[a] : u.nonce > t.nonce}
    IN  IF InPending(t)
        THEN /\ pending' = [pending EXCEPT ![a] = {u \in @ : u.nonce < t.nonce}]
             /\ queue' = [queue EXCEPT ![a] = PutAll(@, later)]
             /\ remotes' = (remotes \ {t}) \ ReplacedOf(queue[a], later)
             /\ localTxs' = (localTxs \ {t}) \ ReplacedOf(queue[a], later)
             /\ pnonce' = [pnonce EXCEPT ![a] = Lower(@, t.nonce)]
             /\ beats' = Beat(a, later)
        ELSE /\ queue' = [queue EXCEPT ![a] = @ \ Old(@, t)]
             /\ remotes' = remotes \ {t}
             /\ localTxs' = localTxs \ {t}
             /\ beats' = IF queue[a] # {} /\ queue'[a] = {} THEN beats \ {a} ELSE beats
             /\ UNCHANGED <<pending, pnonce>>

\* One iteration of a loop of removeTx calls.  Only add counts what it drops
\* from pending.
RemoveVictim(t) ==
    /\ t \in victims
    /\ victims' = victims \ {t}
    /\ IF t \in all THEN removeTx(t) ELSE UNCHANGED listVars
    /\ changes' = IF stage = "insert" /\ t \in all /\ InPending(t)
                  THEN changes + Cardinality({u \in pending[t.from] : u.nonce >= t.nonce})
                  ELSE changes
    /\ UNCHANGED <<chainVars, runVars, reqVars, adds, inflight, job, locals, fallback, gasTip, stage>>

\* Mutant: the replaced transaction stays in the lookup.
AddToLookupOnly(t, isLocal, gone, migrated) ==
    /\ remotes' = (remotes \ migrated) \cup (IF isLocal THEN {} ELSE {t})
    /\ localTxs' = localTxs \cup migrated \cup (IF isLocal THEN {t} ELSE {})

\* pool.all: `gone` is removed, t is added, `migrated` goes from the remote
\* to the local transactions.
AddToLookup(t, isLocal, gone, migrated) ==
    /\ remotes' = ((remotes \ gone) \ migrated) \cup (IF isLocal THEN {} ELSE {t})
    /\ localTxs' = (localTxs \ gone) \cup migrated \cup (IF isLocal THEN {t} ELSE {})

\* Mutant: a second event for an account is lost.
PutFirstEvents(evs, txs) == IF evs = {} THEN txs ELSE evs

\* sortedMap.Put on the events of the sender.
PutEvents(evs, txs) ==
    {e \in evs : \A t \in txs : <<e.from, e.nonce>> # <<t.from, t.nonce>>} \cup txs

\* add, after the removals: replace a pending transaction ...
ReplacePending ==
    LET t == job.tx
        a == t.from
    IN  /\ stage = "insert" /\ victims = {}
        /\ InPending(t)
        /\ IF Rejects(pending[a], t)
           THEN UNCHANGED <<listVars, events>>
           ELSE /\ AddToLookup(t, job.isLocal, Old(pending[a], t), {})
                /\ pending' = [pending EXCEPT ![a] = Put(@, t)]
                /\ beats' = beats \cup {a}
                /\ events' = PutEvents(events, {t})      \* queueTxEvent
                /\ UNCHANGED <<queue, pnonce>>
        /\ launch' = TRUE
        /\ stage' = "free" /\ job' = NoJob
        /\ UNCHANGED <<chainVars, runVars, dirty, resetReq, adds, inflight, locals, changes, fallback, gasTip, victims>>

\* ... or enqueue it, and mark its sender local, whose remote transactions
\* become local.  The promotion request that follows names the sender unless
\* a queued transaction was replaced.
Enqueue ==
    LET t == job.tx
        a == t.from
        gone == Old(queue[a], t)
        newLocal == job.local /\ a \notin locals
        migrated == {u \in remotes \ gone : newLocal /\ u.from \in locals \cup {a}}
    IN  /\ stage = "insert" /\ victims = {}
        /\ ~InPending(t)
        /\ IF Rejects(queue[a], t)
           THEN UNCHANGED <<listVars, locals, dirty>>
           ELSE /\ queue' = [queue EXCEPT ![a] = Put(@, t)]
                /\ AddToLookup(t, job.isLocal, gone, migrated)
                /\ beats' = Beat(a, {t})
                /\ locals' = IF newLocal THEN locals \cup {a} ELSE locals
                /\ dirty' = IF gone = {} THEN dirty \cup {a} ELSE dirty
                /\ UNCHANGED <<pending, pnonce>>
        /\ launch' = TRUE
        /\ stage' = "free" /\ job' = NoJob
        /\ UNCHANGED <<chainVars, runVars, resetReq, events, adds, inflight, changes, fallback, gasTip, victims>>

-----------------------------------------------------------------------------
(* The other holders of the mutex: eviction tick and SetGasTip. *)

\* The queues of some non-local accounts are too old; an account without a
\* heartbeat reads as the zero time, which always is.
Evict(old) ==
    /\ stage = "free"
    /\ old # {}
    /\ NonEmpty(queue) \ (locals \cup beats) \subseteq old
    /\ victims' = UNION {queue[a] : a \in old}
    /\ stage' = "purge"
    /\ UNCHANGED <<chainVars, listVars, runVars, reqVars, addVars, fallback, gasTip>>

SetGasTip(tip) ==
    /\ stage = "free"
    /\ gasTip' = tip
    /\ victims' = IF tip > gasTip THEN {t \in remotes : t.fee < tip} ELSE {}
    /\ stage' = "purge"
    /\ UNCHANGED <<chainVars, listVars, runVars, reqVars, addVars, fallback>>

PurgeDone ==
    /\ stage = "purge" /\ victims = {}
    /\ stage' = "free"
    /\ UNCHANGED <<chainVars, listVars, runVars, reqVars, addVars, fallback, gasTip, victims>>

-----------------------------------------------------------------------------
(* scheduleReorgLoop and runReorg. *)

\* The scheduler hands what was requested to a new run, one run at a time.
Launch ==
    /\ launch /\ run = "idle"
    /\ run' = "launched"
    /\ isReset' = resetReq
    /\ todo' = dirty
    /\ runEvents' = events
    /\ launch' = FALSE /\ resetReq' = FALSE /\ dirty' = {} /\ events' = {}
    /\ UNCHANGED <<chainVars, listVars, addVars, offenders, drop, announced, fallback, gasTip, stage, victims>>

\* runReorg takes the mutex.  A reset copies the state's nonces and drops the
\* events below them.  (reset reinjects no transaction: the chain only grows,
\* so the old head is an ancestor of the new one.)
RunLock ==
    /\ run = "launched" /\ stage = "free"
    /\ run' = "locked"
    /\ stage' = "promote"
    /\ IF isReset
       THEN /\ fallback' = stNonce
            /\ pnonce' = stNonce
            /\ runEvents' = {t \in runEvents : t.nonce >= stNonce[t.from]}
            /\ todo' = NonEmpty(queue)
       ELSE UNCHANGED <<fallback, pnonce, runEvents, todo>>
    /\ UNCHANGED <<chainVars, pending, queue, remotes, localTxs, beats, offenders, drop, isReset, announced,
                   reqVars, addVars, gasTip, victims>>

\* promoteExecutables, one account.
promoteExecutables(a) ==
    LET q    == queue[a] \ Forward(queue[a], stNonce[a])
        paid == q \ Unpayable(q, stBal[a])
        readies == Ready(paid, pnonce[a])
        promoted == readies \ RejectedOf(pending[a], readies)
        rest == paid \ readies
        caps == IF a \in locals THEN {} ELSE Excess(rest, AccountQueue)
        kept == (rest \ caps) \cup promoted
        gone == (queue[a] \ kept) \cup ReplacedOf(pending[a], readies)
    IN  /\ stage = "promote" /\ a \in todo
        /\ todo' = todo \ {a}
        /\ queue' = [queue EXCEPT ![a] = rest \ caps]
        /\ pending' = [pending EXCEPT ![a] = PutAll(@, readies)]
        /\ remotes' = remotes \ gone
        /\ localTxs' = localTxs \ gone
        /\ pnonce' = [pnonce EXCEPT ![a] = IF promoted = {} THEN @
                                           ELSE 1 + LastNonce(promoted)]
        /\ beats' = IF queue[a] # {} /\ queue'[a] = {} THEN beats \ {a}
                    ELSE IF promoted # {} THEN beats \cup {a} ELSE beats
        /\ runEvents' = PutEvents(runEvents, promoted)
        /\ UNCHANGED <<chainVars, offenders, drop, isReset, run, announced, reqVars, addVars,
                       fallback, gasTip, stage, victims>>

\* Mutant: accounts one above the allowance are spared.
SpammersAbove ==
    {a \in Addr \ locals : /\ Total(pending) > GlobalSlots
                           /\ Cardinality(pending[a]) > AccountSlots + 1}

\* Mutant: local accounts are penalized too.
SpammersLocal ==
    {a \in Addr : Total(pending) > GlobalSlots /\ Cardinality(pending[a]) > AccountSlots}

\* truncatePending: the accounts to penalize, if there are too many pending
\* transactions.
Spammers ==
    {a \in Addr \ locals : /\ Total(pending) > GlobalSlots
                           /\ Cardinality(pending[a]) > AccountSlots}

Promoted ==
    /\ stage = "promote" /\ todo = {}
    /\ IF isReset THEN stage' = "demote" /\ todo' = NonEmpty(pending)
                  ELSE stage' = "truncatePending" /\ todo' = Spammers
    /\ UNCHANGED <<chainVars, listVars, offenders, drop, isReset, run, runEvents, announced, reqVars, addVars,
                   fallback, gasTip, victims>>

\* demoteUnexecutables, one account.
demoteUnexecutables(a) ==
    LET p    == pending[a] \ Forward(pending[a], stNonce[a])
        drops == Unpayable(p, stBal[a])
        invalids == Invalids(p, drops)
        paid == (p \ drops) \ invalids
        gapped == IF Has(paid, stNonce[a]) THEN {} ELSE paid
        back == invalids \cup gapped
        gone == ((pending[a] \ paid) \ invalids) \cup ReplacedOf(queue[a], back)
    IN  /\ stage = "demote" /\ a \in todo
        /\ todo' = todo \ {a}
        /\ pending' = [pending EXCEPT ![a] = paid \ gapped]
        /\ queue' = [queue EXCEPT ![a] = PutAll(@, back)]
        /\ remotes' = remotes \ gone
        /\ localTxs' = localTxs \ gone
        /\ beats' = Beat(a, back)
        /\ UNCHANGED <<chainVars, pnonce, offenders, drop, isReset, run, runEvents, announced, reqVars, addVars,
                       fallback, gasTip, stage, victims>>

\* After demoteUnexecutables, pendingNonces.setAll: one past the last pending
\* nonce, or the state's nonce as copied by the reset.
setAll ==
    /\ stage = "demote" /\ todo = {}
    /\ pnonce' = [a \in Addr |-> IF pending[a] = {} THEN fallback[a]
                                 ELSE 1 + LastNonce(pending[a])]
    /\ stage' = "truncatePending" /\ todo' = Spammers
    /\ UNCHANGED <<chainVars, pending, queue, remotes, localTxs, beats, offenders, drop, isReset, run, runEvents,
                   announced, reqVars, addVars, fallback, gasTip, victims>>

-----------------------------------------------------------------------------
(* truncatePending and truncateQueue. *)

\* Every account of S loses its last pending transaction.
CapOne(S) ==
    LET gone == UNION {Last(pending[a]) : a \in S}
    IN  /\ pending' = [a \in Addr |-> pending[a] \ gone]
        /\ remotes' = remotes \ gone
        /\ localTxs' = localTxs \ gone
        /\ pnonce' = [a \in Addr |-> IF a \in S /\ pending[a] # {}
                                     THEN Lower(pnonce[a], LastNonce(pending[a])) ELSE pnonce[a]]
        /\ UNCHANGED <<chainVars, queue, beats, todo, offenders, drop, isReset, run, runEvents, announced,
                       reqVars, addVars, fallback, gasTip, stage, victims>>

TooManyPending == Total(pending) > GlobalSlots
Size(i) == Cardinality(pending[offenders[i]])
OffenderSet(n) == {offenders[i] : i \in 1 .. n}

\* The offenders but the last are cut down to the size of the last.
Equalizing ==
    /\ Len(offenders) > 1
    /\ TooManyPending
    /\ Size(Len(offenders) - 1) > Size(Len(offenders))

Equalize ==
    /\ stage = "truncatePending" /\ Equalizing
    /\ CapOne(OffenderSet(Len(offenders) - 1))

\* The largest of the remaining spammers becomes an offender.
PopSpammer(a) ==
    /\ stage = "truncatePending" /\ ~Equalizing /\ TooManyPending
    /\ a \in todo
    /\ \A b \in todo : Cardinality(pending[b]) <= Cardinality(pending[a])
    /\ todo' = todo \ {a}
    /\ offenders' = Append(offenders, a)
    /\ UNCHANGED <<chainVars, listVars, drop, isReset, run, runEvents, announced, reqVars, addVars,
                   fallback, gasTip, stage, victims>>

\* All of them are equal: cut them all down to the minimum allowance.
Reducing ==
    /\ ~Equalizing /\ todo = {} /\ TooManyPending
    /\ offenders # <<>>
    /\ Size(Len(offenders)) > AccountSlots

Reduce ==
    /\ stage = "truncatePending" /\ Reducing
    /\ CapOne(OffenderSet(Len(offenders)))

\* On to truncateQueue, which drops the excess over GlobalQueue.
PendingTruncated ==
    /\ stage = "truncatePending" /\ ~Equalizing /\ ~Reducing
    /\ ~(TooManyPending /\ todo # {})
    /\ stage' = "truncateQueue"
    /\ offenders' = <<>>
    /\ drop' = IF Total(queue) > GlobalQueue THEN Total(queue) - GlobalQueue ELSE 0
    /\ todo' = NonEmpty(queue) \ locals
    /\ UNCHANGED <<chainVars, listVars, isReset, run, runEvents, announced, reqVars, addVars,
                   fallback, gasTip, victims>>

\* The queue of the account with the oldest heartbeat, any account here,
\* is dropped, or as much of its end as needed.
truncateQueue(a) ==
    /\ stage = "truncateQueue" /\ victims = {}
    /\ drop > 0 /\ a \in todo
    /\ todo' = todo \ {a}
    /\ LET size == Cardinality(queue[a])
       IN  IF size <= drop THEN victims' = queue[a] /\ drop' = drop - size
                           ELSE victims' = Excess(queue[a], size - drop) /\ drop' = 0
    /\ UNCHANGED <<chainVars, listVars, offenders, isReset, run, runEvents, announced, reqVars, addVars,
                   fallback, gasTip, stage>>

QueueTruncated ==
    /\ stage = "truncateQueue" /\ victims = {}
    /\ drop = 0 \/ todo = {}
    /\ stage' = "finish"
    /\ drop' = 0 /\ todo' = {}
    /\ UNCHANGED <<chainVars, listVars, offenders, isReset, run, runEvents, announced, reqVars, addVars,
                   fallback, gasTip, victims>>

\* The mutex is released ...
RunUnlock ==
    /\ stage = "finish"
    /\ stage' = "free"
    /\ changes' = 0
    /\ run' = "sending"
    /\ UNCHANGED <<chainVars, listVars, todo, offenders, drop, isReset, runEvents, announced, reqVars,
                   adds, inflight, job, locals, fallback, gasTip, victims>>

\* ... and the new pending transactions are announced.
Announce ==
    /\ run = "sending"
    /\ run' = "idle"
    /\ announced' = announced \cup runEvents
    /\ runEvents' = {} /\ isReset' = FALSE
    /\ UNCHANGED <<chainVars, listVars, todo, offenders, drop, reqVars, addVars, fallback, gasTip, stage, victims>>

-----------------------------------------------------------------------------
Chain == (\E a \in Addr : StateWrite(a) \/ Transfer(a) \/ Rollback(a)) \/ RequestReset

Adding ==
    \/ \E t \in Tx, local \in Source : AddBegin(t, local)
    \/ \E r \in inflight : AddRefused(r) \/ AddAccepted(r)
    \/ \E t \in victims : RemoveVictim(t)
    \/ ReplacePending \/ Enqueue

Purging ==
    \/ \E old \in SUBSET (NonEmpty(queue) \ locals) : Evict(old)
    \/ \E tip \in Tip : SetGasTip(tip)
    \/ PurgeDone

runReorg ==
    \/ Launch \/ RunLock \/ Promoted \/ setAll
    \/ \E a \in Addr : promoteExecutables(a) \/ demoteUnexecutables(a)
    \/ \E a \in Addr : PopSpammer(a) \/ truncateQueue(a)
    \/ Equalize \/ Reduce \/ PendingTruncated \/ QueueTruncated
    \/ RunUnlock \/ Announce

Next == Chain \/ Adding \/ Purging \/ runReorg

Spec == Init /\ [][Next]_vars

-----------------------------------------------------------------------------
(* Properties *)

Stages == {"free", "insert", "purge", "promote", "demote", "truncatePending", "truncateQueue", "finish"}

\* Every variable has its type; the mutex has one holder, which is the current
\* run exactly when the run is in its critical section; victims are only
\* marked by a holder that removes them.  (drop is a difference of sums.)
TypeOK ==
    /\ stNonce \in [Addr -> Nat] /\ stBal \in [Addr -> Nat] /\ rollbacks \in Nat /\ heads \in Nat /\ adds \in Nat
    /\ pending \in [Addr -> SUBSET Tx] /\ queue \in [Addr -> SUBSET Tx]
    /\ remotes \subseteq Tx /\ localTxs \subseteq Tx
    /\ locals \subseteq Addr /\ beats \subseteq Addr
    /\ pnonce \in [Addr -> Nat] /\ fallback \in [Addr -> Nat]
    /\ gasTip \in Nat /\ changes \in Nat
    /\ inflight \subseteq [tx : Tx, local : BOOLEAN]
    /\ launch \in BOOLEAN /\ dirty \subseteq Addr /\ resetReq \in BOOLEAN /\ events \subseteq Tx
    /\ stage \in Stages
    /\ job \in [tx : Tx, local : BOOLEAN, isLocal : BOOLEAN]
    /\ todo \subseteq Addr /\ victims \subseteq Tx /\ offenders \in Seq(Addr)
    /\ isReset \in BOOLEAN /\ runEvents \subseteq Tx
    /\ run \in {"idle", "launched", "locked", "sending"}
    /\ announced \subseteq Tx
    /\ (run = "locked") = (stage \notin {"free", "insert", "purge"})
    /\ stage \notin {"insert", "purge", "truncateQueue"} => victims = {}

\* The lookup holds exactly the transactions of the lists: nothing leaks when
\* transactions move between pending and queue, are replaced or dropped.
LookupExact == all = UNION {pending[a] \cup queue[a] : a \in Addr}

\* An account's pending and queued transactions have distinct nonces, so that
\* a move between the lists never finds an older transaction in its place.
OneTxPerNonce == \A a \in Addr : Unique(pending[a] \cup queue[a]) /\ pending[a] \cap queue[a] = {}

\* An account with queued transactions has a heartbeat; without one the
\* eviction tick would take the zero time for it and drop the queue at once.
QueuedHasHeartbeat == NonEmpty(queue) \subseteq beats

\* The lists, the lookup and the heartbeats agree after every step.
ListsAgree == TypeOK /\ LookupExact /\ OneTxPerNonce /\ QueuedHasHeartbeat

\* The pending transactions of an account have consecutive nonces whenever
\* the mutex is free, and those not executed yet at every moment, although
\* the executor moves the state nonce while the pool works; a rollback of
\* the shared state may break this.
PendingContiguous ==
    rollbacks = 0 => \A a \in Addr : \A s, t \in pending[a] :
        stage = "free" \/ s.nonce >= stNonce[a] => \A n \in s.nonce .. t.nonce : Has(pending[a], n)

\* When the mutex is free the virtual nonce of an account with pending
\* transactions is one past the last of them, unless the state was rolled back.
VirtualNonce ==
    stage = "free" /\ rollbacks = 0 => \A a \in NonEmpty(pending) : pnonce[a] = 1 + LastNonce(pending[a])

\* Every pending transaction that is not executed yet was announced to the
\* subscribers (the executor hears of transactions in no other way), or its
\* announcement is on the way.  (A reset drops the event of a transaction
\* that was executed in the meantime; when the execution is rolled back the
\* transaction is pending and unannounced.)
PendingAnnounced ==
    rollbacks = 0 => \A a \in Addr :
        pending[a] \ Forward(pending[a], stNonce[a]) \subseteq announced \cup runEvents \cup events

\* When a run is over the pool is within its limits, but for the allowance of
\* each account and for local accounts.
WithinLimits ==
    stage = "finish" =>
        /\ TooManyPending => \A a \in Addr \ locals : Cardinality(pending[a]) <= AccountSlots
        /\ Total(queue) > GlobalQueue => NonEmpty(queue) \subseteq locals

\* truncatePending takes from the largest accounts: it never cuts one below
\* its allowance, nor below an account it has not penalized yet.
LargestFirst ==
    stage = "truncatePending" =>
        \A i \in 1 .. Len(offenders) :
            /\ Size(i) >= AccountSlots
            /\ \A a \in todo : Size(i) >= Cardinality(pending[a])

\* truncatePending and truncateQueue end within the configured limits, and
\* cut the larger accounts before they touch a smaller one.
Truncation == WithinLimits /\ LargestFirst

\* Stale, not payable, or replaced by a better transaction.
LeavesRightly(t) ==
    \/ t.nonce < stNonce[t.from]
    \/ Cost(t) > stBal[t.from]
    \/ \E u \in all' : u.from = t.from /\ u.nonce = t.nonce /\ u.fee > t.fee

\* A transaction of a local account leaves the pool only because it is stale,
\* cannot be paid for, or is replaced by a better one: no limit, price or
\* lifetime applies to it.
LocalsKept == [][\A t \in all \ all' : t.from \in locals => LeavesRightly(t)]_vars
=============================================================================
