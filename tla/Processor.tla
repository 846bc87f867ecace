----------------------------- MODULE Processor -----------------------------
(***************************************************************************)
(* Execution of a block (core/process.go, core/transition.go): one thread  *)
(* per class of transactions, all over one StateDB, then one thread for    *)
(* the transactions that turned out not to be executable in parallel.      *)
(* Threads interleave between any two calls of the StateDB.                *)
(***************************************************************************)
EXTENDS AccessListOps, SequencesExt, TLC

CONSTANTS Blocks,     \* the sequences of transactions a block may hold
          Accounts,   \* 0 is the coinbase
          Funds,      \* Funds[a]: balance of a before the block
          Nonces,     \* Nonces[a]: nonce of a before the block
          MaxNonce,   \* the largest nonce, math.MaxUint64 in the code
          Coded,      \* the accounts with code
          BaseGas,    \* IntrinsicGas of a transaction without data and access list
          SelfdestructRefundGas

VARIABLES st,      \* StateDB: balances, nonces, refund counter, journal, revisions
          fee,     \* header.BaseFee, one big.Int for all threads
          usedGas, \* *UsedGas
          th,      \* the threads; 0 is the serial one
          phase,
          out,     \* what Process returns: receipts and errors
          block    \* the transactions of the block

vars == <<st, fee, usedGas, th, phase, out, block>>

-----------------------------------------------------------------------------
(***************************************************************************)
(* The classes of transactions that are executed side by side              *)
(* (core/txclassfy.go) and the order of the serial queue                   *)
(* (core/process_types.go).  A transaction is a record with its sender,    *)
(* nonce, price, hash and access list.                                     *)
(***************************************************************************)

(***************************************************************************)
(* MergeAccessList (core/txclassfy.go): the resources that decide whether  *)
(* two transactions conflict.  Position 0 is taken for 'no slots'.         *)
(***************************************************************************)
MergeAccessList(al) ==
    UNION {IF al.addresses[a] > 0 THEN {<<a, s>> : s \in al.slots[al.addresses[a] + 1]}
                                  ELSE {<<a>>} : a \in DOMAIN al.addresses}

-----------------------------------------------------------------------------

\* NewTxClassList: every transaction starts as a class of its own.
NewTxClassList(txs) == [id  |-> [i \in DOMAIN txs |-> i],
                        res |-> [i \in DOMAIN txs |-> MergeAccessList(txs[i].list)]]

IsConflict(set1, set2) == set1 \cap set2 # {}

\* One iteration of the inner loop of ClassifyTx.
join(cl, i, j) ==
    LET both == cl.res[i] \cup cl.res[j]
    IN IF IsConflict(cl.res[i], cl.res[j])
       THEN [id |-> [cl.id EXCEPT ![j] = cl.id[i]], res |-> [cl.res EXCEPT ![i] = both, ![j] = both]]
       ELSE cl

\* The two loops, over the pairs of positions in their order.
pairs(n) == SetToSortSeq({p \in (1 .. n) \X (1 .. n) : p[1] < p[2]},
                         LAMBDA p, q : p[1] < q[1] \/ (p[1] = q[1] /\ p[2] < q[2]))

scan(cl) == FoldLeft(LAMBDA c, p : join(c, p[1], p[2]), cl, pairs(Len(cl.id)))

members(txs, ids, c) == LET is == {i \in DOMAIN txs : ids[i] = c}
                        IN SelectSeq([i \in DOMAIN txs |-> [tx |-> txs[i], i |-> i]],
                                     LAMBDA e : e.i \in is)

\* Mutant: nonces do not count.
bySenderOnly(x, y) == x.tx.from < y.tx.from

\* The order within a class.
bySender(x, y) == x.tx.from < y.tx.from \/ (x.tx.from = y.tx.from /\ x.tx.nonce < y.tx.nonce)

(***************************************************************************)
(* ClassifyTx; the classes come in the order of a map.                     *)
(***************************************************************************)
ClassifyTx(txs) ==
    LET ids    == scan(NewTxClassList(txs)).id
        sorted(c) == SortSeq(members(txs, ids, c), bySender)
    IN {[k \in DOMAIN sorted(c) |-> sorted(c)[k].tx] : c \in {ids[i] : i \in DOMAIN txs}}

\* SortSerialTX
serialBefore(x, y) ==
    \/ x.nonce < y.nonce
    \/ x.nonce = y.nonce /\ x.price > y.price
    \/ x.nonce = y.nonce /\ x.price = y.price /\ x.hash < y.hash

SortSerialTX(txs) == SortSeq(txs, serialBefore)

-----------------------------------------------------------------------------
(***************************************************************************)
(* The transactions connected to those of is by conflicts: the smallest    *)
(* set around them that no conflict leaves.                                *)
(***************************************************************************)
reach(txs, is) ==
    LET closed == {c \in SUBSET DOMAIN txs : \A i \in c, j \in DOMAIN txs \ c :
                      ~IsConflict(MergeAccessList(txs[i].list), MergeAccessList(txs[j].list))}
    IN {j \in DOMAIN txs : \A c \in closed : is \subseteq c => j \in c}

(***************************************************************************)
(* ClassifyTx loses and duplicates no transaction, never joins two that    *)
(* are not connected by conflicts, and orders each class so that the       *)
(* transactions of a sender are adjacent and in the order of their nonces. *)
(***************************************************************************)
IsClassified(txs) ==
    LET classes == ClassifyTx(txs)
        at(t)   == CHOOSE i \in DOMAIN txs : txs[i] = t
    IN /\ \A i \in DOMAIN txs : Cardinality({c \in classes : \E k \in DOMAIN c : c[k] = txs[i]}) = 1
       /\ MapThenSumSet(Len, classes) = Len(txs)
       /\ \A c \in classes : \A k, l \in DOMAIN c :
             /\ at(c[l]) \in reach(txs, {at(c[k])})
             /\ k < l => c[k].from <= c[l].from
             /\ (k < l /\ c[k].from = c[l].from) => c[k].nonce <= c[l].nonce

-----------------------------------------------------------------------------
Coinbase == 0
NoMsg == [price |-> 0, alias |-> FALSE, snap |-> 0, inner |-> 0, can |-> TRUE, seen |-> 0]

newThread(txs) == [pc |-> "next", txs |-> txs, msg |-> NoMsg,
                   receipts |-> <<>>, serial |-> <<>>, errors |-> <<>>]

Nothing == [receipts |-> <<>>, errors |-> <<>>]

\* initHeader (executor/executor_server.go)
HeaderFee == 0

Clean == [bal |-> Funds, nonce |-> Nonces, refund |-> 0, journal |-> <<>>, revs |-> <<>>, id |-> 1]

Init == \E txs \in Blocks :
    /\ st = Clean
    /\ block = txs /\ fee = HeaderFee /\ usedGas = 0 /\ phase = "parallel"
    /\ out = Nothing
    /\ LET groups == SetToSeq(ClassifyTx(txs))
       IN th = [t \in 0 .. Len(groups) |-> newThread(IF t = 0 THEN <<>> ELSE groups[t])]

-----------------------------------------------------------------------------
(***************************************************************************)
(* The calls of StateDB the threads make (modelled in full in StateDB).    *)
(***************************************************************************)
SetBalance(s, a, v) == [s EXCEPT !.bal[a] = v, !.journal = Append(@, <<"bal", a, s.bal[a]>>)]
SetNonce(s, a, v)   == [s EXCEPT !.nonce[a] = v, !.journal = Append(@, <<"nonce", a, s.nonce[a]>>)]
AddRefund(s, gas)   == [s EXCEPT !.refund = @ + gas, !.journal = Append(@, <<"refund", 0, s.refund>>)]
AddBalance(s, a, v) == SetBalance(s, a, s.bal[a] + v)
SubBalance(s, a, v) == SetBalance(s, a, s.bal[a] - v)
Snapshot(s)  == [s EXCEPT !.revs = Append(@, [id |-> s.id, at |-> Len(s.journal)]), !.id = @ + 1]
Known(s, id) == \E i \in DOMAIN s.revs : s.revs[i].id = id

RECURSIVE undo(_, _)
undo(s, n) ==
    IF Len(s.journal) = n THEN s
    ELSE LET e == s.journal[Len(s.journal)]
             r == [s EXCEPT !.journal = SubSeq(@, 1, Len(@) - 1)]
         IN undo(CASE e[1] = "bal"   -> [r EXCEPT !.bal[e[2]] = e[3]]
                   [] e[1] = "nonce" -> [r EXCEPT !.nonce[e[2]] = e[3]]
                   [] OTHER          -> [r EXCEPT !.refund = e[3]], n)

RevertToSnapshot(s, id) ==
    LET i == CHOOSE k \in DOMAIN s.revs : s.revs[k].id = id
    IN [undo(s, s.revs[i].at) EXCEPT !.revs = SubSeq(@, 1, i - 1)]

\* The refund counter is reset here, not from one transaction to the next.
Finalise(s) == [s EXCEPT !.journal = <<>>, !.revs = <<>>, !.refund = IF s.journal = <<>> THEN @ ELSE 0]

-----------------------------------------------------------------------------
Parallel(t) == t # 0
tx(t)    == Head(th[t].txs)
msg(t)   == th[t].msg
price(t) == IF msg(t).alias THEN fee ELSE msg(t).price
limit(t) == tx(t).limit
used(t)  == BaseGas + tx(t).gas

goto(t, pc) == th' = [th EXCEPT ![t].pc = pc]
Step(t, pc) == /\ phase = IF Parallel(t) THEN "parallel" ELSE "serial"
               /\ th[t].pc = pc /\ th[t].txs # <<>>

\* A panic in one goroutine ends the process; nothing of the block remains.
Panic == /\ phase' = "panic"
         /\ st' = Clean /\ fee' = HeaderFee /\ usedGas' = 0 /\ th' = <<>> /\ out' = Nothing

Fail(t, why) == th' = [th EXCEPT ![t].pc = "next", ![t].txs = Tail(@),
                                 ![t].errors = Append(@, [tx |-> tx(t), why |-> why])]

(***************************************************************************)
(* TransactionToMessage: the tip is added to the shared base fee twice,    *)
(* and the message's price is that very big.Int unless the cap is lower.   *)
(* The fee is raised even when the sender cannot be recovered.             *)
(***************************************************************************)
TransactionToMessage(t) ==
    /\ Step(t, "next")
    /\ fee' = fee + 2 * tx(t).tip
    /\ IF ~tx(t).signed THEN Fail(t, "sender")
       ELSE th' = [th EXCEPT ![t].pc = "apply",
                             ![t].msg = [NoMsg EXCEPT !.price = tx(t).cap, !.alias = fee' <= tx(t).cap]]
    /\ UNCHANGED <<st, usedGas, phase, out>>

\* ApplyTransaction begins.
TakeSnapshot(t) ==
    /\ Step(t, "apply")
    /\ st' = Snapshot(st)
    /\ th' = [th EXCEPT ![t].pc = "check", ![t].msg.snap = st.id]
    /\ UNCHANGED <<fee, usedGas, phase, out>>

cost(t) == limit(t) * price(t) + tx(t).value

\* The base fee the cap is compared with is the header's before any conversion.
refused(t) == \/ st.nonce[tx(t).from] = MaxNonce
              \/ tx(t).from \in Coded
              \/ tx(t).cap < tx(t).tip
              \/ tx(t).cap < HeaderFee

PreCheck(t) ==
    /\ Step(t, "check")
    /\ IF st.nonce[tx(t).from] # tx(t).nonce THEN Fail(t, "nonce")
       ELSE IF refused(t) THEN Fail(t, "refused")
       ELSE IF st.bal[tx(t).from] < cost(t) THEN Fail(t, "funds")
       ELSE goto(t, "buy")
    /\ UNCHANGED <<st, fee, usedGas, phase, out>>

BuyGas(t) ==
    /\ Step(t, "buy")
    /\ st' = SubBalance(st, tx(t).from, cost(t))
    /\ goto(t, "gas")
    /\ UNCHANGED <<fee, usedGas, phase, out>>

\* These errors return without giving anything back.
CheckGas(t) ==
    /\ Step(t, "gas")
    /\ IF limit(t) < BaseGas \/ (tx(t).value > 0 /\ st.bal[tx(t).from] < tx(t).value)
       THEN Fail(t, "bought") ELSE goto(t, "nonce")
    /\ UNCHANGED <<st, fee, usedGas, phase, out>>

IncreaseNonce(t) ==
    /\ Step(t, "nonce")
    /\ st' = SetNonce(st, tx(t).from, st.nonce[tx(t).from] + 1)
    /\ goto(t, "call")
    /\ UNCHANGED <<fee, usedGas, phase, out>>

(***************************************************************************)
(* EVM.Call: a revision, the transfer, and the code of the callee.  A call *)
(* without value of an account that does not exist is an error.            *)
(***************************************************************************)
Call(t) ==
    /\ Step(t, "call")
    /\ IF tx(t).value # 0 /\ st.bal[tx(t).from] < tx(t).value
       THEN goto(t, "keep") /\ UNCHANGED st
       ELSE /\ st' = Snapshot(st)
            /\ th' = [th EXCEPT ![t].pc = IF tx(t).kind = "missing" /\ tx(t).value = 0
                                          THEN "keep" ELSE "transfer",
                                ![t].msg.inner = st.id]
    /\ UNCHANGED <<fee, usedGas, phase, out>>

Transfer(t) ==
    /\ Step(t, "transfer")
    /\ st' = AddBalance(SubBalance(st, tx(t).from, tx(t).value), tx(t).to, tx(t).value)
    /\ goto(t, "run")
    /\ UNCHANGED <<fee, usedGas, phase, out>>

(***************************************************************************)
(* Interpreter and precompiles by what the processor sees of them: plain   *)
(* code runs through, a precompile leaves CanParallel false, code that     *)
(* touches an account leaves it false in a parallel thread and adds to a   *)
(* nil TrueAccessList in the serial one, failing code is reverted.  Code   *)
(* that destroys itself in favour of an account the state's access list    *)
(* has earns a refund in a parallel thread; in the serial one it touches.  *)
(***************************************************************************)
Run(t) ==
    /\ Step(t, "run")
    /\ LET kind == tx(t).kind
           kept == UNCHANGED <<fee, usedGas, phase, out>>
       IN CASE kind \in {"plain", "missing"} -> goto(t, "refund") /\ UNCHANGED st /\ kept
            [] kind = "refunds" /\ Parallel(t) ->
                 st' = AddRefund(st, SelfdestructRefundGas) /\ goto(t, "refund") /\ kept
            [] kind = "precompile" \/ (kind = "touch" /\ Parallel(t)) ->
                 goto(t, IF Parallel(t) THEN "demote" ELSE "refund") /\ UNCHANGED st /\ kept
            [] kind = "fails" /\ Known(st, msg(t).inner) ->
                 st' = RevertToSnapshot(st, msg(t).inner) /\ goto(t, "keep") /\ kept
            [] OTHER -> Panic

\* Mutant: only the transaction itself is moved.
sameSenderOne(txs) == SubSeq(txs, 1, 1)

\* The transactions of tx's sender that follow it directly.
sameSender(txs) == LET n == CHOOSE k \in DOMAIN txs :
                              /\ \A i \in 1 .. k : txs[i].from = txs[1].from
                              /\ k = Len(txs) \/ txs[k + 1].from # txs[1].from
                   IN SubSeq(txs, 1, n)

(***************************************************************************)
(* A transaction that cannot run in parallel is undone and queued for the  *)
(* serial thread, with the sender's next ones (TxThread).                  *)
(***************************************************************************)
Demote(t) ==
    /\ Step(t, "demote")
    /\ IF Known(st, msg(t).snap)
       THEN LET moved == sameSender(th[t].txs)
            IN /\ st' = RevertToSnapshot(st, msg(t).snap)
               /\ th' = [th EXCEPT ![t].pc = "next",
                                   ![t].txs = SubSeq(@, Len(moved) + 1, Len(@)),
                                   ![t].serial = @ \o moved,
                                   ![t].errors = Append(@, [tx |-> tx(t), why |-> "parallel"])]
               /\ UNCHANGED <<fee, usedGas, phase, out>>
       ELSE Panic

\* The refund counter, capped by the quotient, is returned with the rest.
RefundGas(t) ==
    /\ Step(t, "refund")
    /\ LET half   == used(t) \div 2
           refund == IF half > st.refund THEN st.refund ELSE half
       IN st' = AddBalance(st, tx(t).from, (limit(t) - used(t) + refund) * price(t))
    /\ goto(t, "coinbase")
    /\ UNCHANGED <<fee, usedGas, phase, out>>

CoinbaseFee(t) ==
    /\ Step(t, "coinbase")
    /\ st' = AddBalance(st, Coinbase, used(t) * tx(t).tip)
    /\ goto(t, "load")
    /\ UNCHANGED <<fee, usedGas, phase, out>>

\* A failed transaction: the coinbase gets its whole limit.
KeepGas(t) ==
    /\ Step(t, "keep")
    /\ st' = AddBalance(st, Coinbase, limit(t) * tx(t).tip)
    /\ Fail(t, "execution")
    /\ UNCHANGED <<fee, usedGas, phase, out>>

\* *usedGas += executionResult.UsedGas, without a lock.
LoadUsed(t) ==
    /\ Step(t, "load")
    /\ th' = [th EXCEPT ![t].pc = "store", ![t].msg.seen = usedGas]
    /\ UNCHANGED <<st, fee, usedGas, phase, out>>

ExecuteTx(t) ==
    /\ Step(t, "store")
    /\ usedGas' = msg(t).seen + used(t)
    /\ th' = [th EXCEPT ![t].pc = "next", ![t].txs = Tail(@),
                        ![t].receipts = Append(@, [tx |-> tx(t), cumulative |-> usedGas'])]
    /\ UNCHANGED <<st, fee, phase, out>>

Threads == DOMAIN th

TxThread(t) ==
    \/ TransactionToMessage(t) \/ TakeSnapshot(t) \/ PreCheck(t) \/ BuyGas(t) \/ CheckGas(t)
    \/ IncreaseNonce(t) \/ Call(t) \/ Transfer(t) \/ Run(t) \/ Demote(t) \/ RefundGas(t)
    \/ CoinbaseFee(t) \/ KeepGas(t) \/ LoadUsed(t) \/ ExecuteTx(t)

-----------------------------------------------------------------------------
collect(field, ts) == FlattenSeq([i \in 1 .. Len(ts) |-> th[ts[i]][field]])

(***************************************************************************)
(* wg1.Wait, Finalise, and the results in the order of the channel; the    *)
(* serial queue is sorted.  A block without transactions has no thread and *)
(* ends in an error; the serial thread always has a result.                *)
(***************************************************************************)
NothingReturned ==
    /\ phase = "parallel" /\ Threads = {0}
    /\ phase' = "error"
    /\ UNCHANGED <<st, fee, usedGas, th, out>>

ParallelDone ==
    /\ phase = "parallel" /\ Threads # {0} /\ \A t \in Threads \ {0} : th[t].txs = <<>>
    /\ \E order \in SetToSeqs(Threads \ {0}) :
          /\ out' = [receipts |-> collect("receipts", order), errors |-> collect("errors", order)]
          /\ th' = [th EXCEPT ![0].txs = SortSerialTX(collect("serial", order))]
    /\ st' = Finalise(st)
    /\ phase' = "serial"
    /\ UNCHANGED <<fee, usedGas>>

\* The commit of the state to its database may fail; the results are lost then.
Commit ==
    /\ phase = "serial" /\ th[0].txs = <<>>
    /\ st' = Finalise(st)
    /\ \/ /\ out' = [receipts |-> out.receipts \o th[0].receipts, errors |-> out.errors \o th[0].errors]
          /\ phase' = "returned"
       \/ out' = Nothing /\ phase' = "error"
    /\ UNCHANGED <<fee, usedGas, th>>

\* Nothing happens after Process returned or panicked; a wait for a thread
\* that never ends would be a deadlock.
Over == phase \in {"returned", "error", "panic"} /\ UNCHANGED vars

\* Two threads write the maps of one StateDB: the runtime may abort the process.
MapFault == /\ phase = "parallel" /\ Cardinality({t \in Threads : th[t].txs # <<>>}) > 1
            /\ Panic

Next == \/ \E t \in Threads : TxThread(t) /\ UNCHANGED block
        \/ (NothingReturned \/ ParallelDone \/ Commit \/ MapFault) /\ UNCHANGED block
        \/ Over

Spec == Init /\ [][Next]_vars

-----------------------------------------------------------------------------
Occurs(seq, x) == Cardinality({i \in DOMAIN seq : seq[i].tx = x})
Final(errors)  == SelectSeq(errors, LAMBDA e : e.why # "parallel")

(***************************************************************************)
(* When Process returns, every transaction of the block has exactly one    *)
(* outcome, a receipt or an error: moving a transaction and its sender's   *)
(* next ones to the serial queue loses none and executes none twice,       *)
(* whatever the threads do in between.                                     *)
(***************************************************************************)
OneOutcomeEach ==
    phase = "returned" =>
        /\ \A i \in DOMAIN block :
              Occurs(out.receipts, block[i]) + Occurs(Final(out.errors), block[i]) = 1
        /\ Len(out.receipts) + Len(Final(out.errors)) = Len(block)

(***************************************************************************)
(* In a block of one class, a transaction that is sent to the serial queue *)
(* leaves no trace in the state and breaks no nonce order: a transaction   *)
(* fails on its nonce only after an earlier one of its sender failed.      *)
(***************************************************************************)
Alone == Threads = {0, 1}

NonceOrderKept ==
    Alone => \A t \in Threads : \A i \in DOMAIN th[t].errors :
        th[t].errors[i].why = "nonce" =>
            \E u \in Threads : \E k \in DOMAIN th[u].errors :
                /\ th[u].errors[k].tx.from = th[t].errors[i].tx.from
                /\ th[u].errors[k].tx.nonce < th[t].errors[i].tx.nonce
                /\ th[u].errors[k].why # "parallel"

(***************************************************************************)
(* Updates of the gas counter may get lost, but it never counts gas twice: *)
(* what Process returns is at most the gas of the receipts.  In a block of *)
(* one class it is exact, and so is the cumulative gas of every receipt.   *)
(***************************************************************************)
gasOf(receipts, n) == FoldLeft(LAMBDA sum, r : sum + BaseGas + r.tx.gas, 0, SubSeq(receipts, 1, n))

GasAccounted ==
    phase = "returned" =>
        /\ usedGas <= gasOf(out.receipts, Len(out.receipts))
        /\ Alone => /\ usedGas = gasOf(out.receipts, Len(out.receipts))
                    /\ \A i \in DOMAIN out.receipts : out.receipts[i].cumulative = gasOf(out.receipts, i)

(***************************************************************************)
(* In a block of one class no balance falls below zero and no step creates *)
(* money, although the value is deducted with the gas and transferred once *)
(* more, errors keep what was bought, every transaction raises the base    *)
(* fee the next ones pay, and a refund reaches the transactions after the  *)
(* one that earned it.  The exception: the coinbase is paid the tip for    *)
(* refunded gas too, and a transaction whose cap is less than twice its    *)
(* tip may have paid less than that.                                       *)
(***************************************************************************)
worth(bal) == FoldFunction(LAMBDA x, sum : x + sum, 0, bal)

\* What the coinbase may get for gas that was refunded at less than the tip.
subsidy(x) == LET gas  == BaseGas + x.gas
                  lack == gas * x.tip - (gas - gas \div 2) * x.cap
              IN IF lack > 0 THEN lack ELSE 0
subsidies == FoldLeft(LAMBDA sum, x : sum + subsidy(x), 0, block)

NoMoneyCreated == Alone => /\ worth(st.bal) <= worth(Funds) + subsidies
                           /\ \A a \in Accounts : st.bal[a] >= 0
=============================================================================
