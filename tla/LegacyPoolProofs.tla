-------------------------- MODULE LegacyPoolProofs --------------------------
(***************************************************************************)
(* The proof that the other steps of a background run keep the inductive   *)
(* invariant of the transaction pool, and the theorems that follow: the    *)
(* lists agree with the lookup, and local transactions are kept.  Then the *)
(* limits: a run ends with no more transactions than it may hold, and      *)
(* takes from no account below its allowance.                              *)
(***************************************************************************)
EXTENDS LegacyPoolAddProofs

\* Promotion moves transactions of one account from queue to pending, and
\* drops some of its queued ones.
LEMMA PromoteStep == ASSUME IInv, NEW a \in Addr, promoteExecutables(a) PROVE IInv' /\ Keeps
<1> USE DEF chainVars, listVars, runVars, reqVars, addVars
<1> DEFINE P == pending[a]
           Q == queue[a]
           q == Q \ Forward(Q, stNonce[a])
           paid == q \ Unpayable(q, stBal[a])
           readies == Ready(paid, pnonce[a])
           promoted == readies \ RejectedOf(P, readies)
           rest == paid \ readies
           caps == IF a \in locals THEN {} ELSE Excess(rest, AccountQueue)
           Q2 == rest \ caps
           kept == Q2 \cup promoted
           gone == (Q \ kept) \cup ReplacedOf(P, readies)
<1>1. /\ stage = "promote" /\ todo' = todo \ {a}
      /\ queue' = [queue EXCEPT ![a] = Q2]
      /\ pending' = [pending EXCEPT ![a] = PutAll(@, readies)]
      /\ remotes' = remotes \ gone /\ localTxs' = localTxs \ gone
      /\ pnonce' = [pnonce EXCEPT ![a] = IF promoted = {} THEN @ ELSE 1 + LastNonce(promoted)]
      /\ beats' = IF Q # {} /\ queue'[a] = {} THEN beats \ {a}
                  ELSE IF promoted # {} THEN beats \cup {a} ELSE beats
      /\ runEvents' = PutEvents(runEvents, promoted)
      /\ UNCHANGED <<chainVars, offenders, drop, isReset, run, announced, reqVars, addVars,
                     fallback, gasTip, stage, victims>>
  BY ZenonT(60) DEF promoteExecutables
<1>2. TypeOK /\ ListsOK(pending, queue, all) /\ QueuedHasHeartbeat /\ Remotely /\ AccountOK(a, P, Q)
  BY Zenon DEF IInv, ListsOK
<1>3. readies \subseteq Q /\ Q2 \subseteq Q /\ Q2 \cap readies = {}
  BY ZenonT(60) DEF Ready
<1>4. RejectedOf(P, readies) = {} /\ ReplacedOf(P, readies) = {} /\ PutAll(P, readies) = P \cup readies
  <2>1. /\ Q \in SUBSET Tx /\ P \in SUBSET Tx /\ Unique(Q \cup P) /\ Q \cap P = {}
        /\ readies \in SUBSET Q
    BY <1>2, <1>3, ZenonT(60) DEF AccountOK, Unique
  <2> HIDE DEF P, Q, readies
  <2>2. RejectedOf(P, readies) = {}
    BY <2>1, MoveIsUnion, ZenonT(60)
  <2>3. ReplacedOf(P, readies) = {}
    BY <2>1, MoveIsUnion, ZenonT(60)
  <2>4. PutAll(P, readies) = P \cup readies
    BY <2>2, <2>3, Zenon DEF PutAll
  <2> QED
    BY <2>2, <2>3, <2>4, Zenon
<1>5. promoted = readies /\ gone = Q \ (Q2 \cup readies)
  <2> HIDE DEF readies, Q2, P, Q
  <2> QED
    BY <1>4, Zenon
<1>14. \A t \in gone : t.from = a /\ (a \in locals => t.nonce < stNonce[a] \/ Cost(t) > stBal[a])
  <2>1. \A t \in gone : t \in Q /\ t \notin Q2 /\ t \notin readies
    <3> HIDE DEF readies, Q2, gone
    <3> QED
      BY <1>5, Zenon
  <2>2. \A t \in gone : t.from = a
    <3> HIDE DEF readies, Q2, gone
    <3> QED
      BY <1>2, <2>1, Zenon DEF AccountOK
  <2>3. a \in locals => Q2 = rest
    BY ZenonT(60)
  <2>4. a \in locals => \A t \in gone : t \notin paid
    <3> HIDE DEF readies, Q2, gone, paid
    <3> QED
      BY <2>1, <2>3, Zenon
  <2>5. \A t \in Q : t \notin paid => t \in Forward(Q, stNonce[a]) \/ t \in Unpayable(q, stBal[a])
    BY Zenon
  <2>6. \A t \in Q : t \notin paid => t.nonce < stNonce[a] \/ Cost(t) > stBal[a]
    BY <2>5, Zenon DEF Forward, Unpayable
  <2> HIDE DEF gone, paid
  <2> QED
    BY <2>1, <2>2, <2>4, <2>6, Zenon
<1> HIDE DEF readies, Q2, promoted, gone
<1>6. pending' = [pending EXCEPT ![a] = P \cup readies]
  BY <1>1, <1>4, Zenon
<1>7. AccountOK(a, P \cup readies, Q2)
  BY <1>2, <1>3, Zenon DEF AccountOK, Unique
<1>8. all' = (all \ (P \cup Q)) \cup (P \cup readies) \cup Q2
  <2>1. all' = all \ gone
    BY <1>1, Zenon DEF all
  <2>2. P \cup Q \subseteq all /\ P \cap Q = {}
    BY <1>2 DEF ListsOK, AccountOK
  <2> HIDE DEF P, Q
  <2> QED
    BY <1>3, <1>5, <2>1, <2>2, Zenon
<1>9. ListsOK(pending', queue', all')
  <2> DEFINE P2 == P \cup readies
  <2>1. AccountOK(a, P2, Q2) /\ all' = (all \ (pending[a] \cup queue[a])) \cup P2 \cup Q2
    BY <1>7, <1>8, Zenon
  <2>2. queue' = [queue EXCEPT ![a] = Q2] /\ pending' = [pending EXCEPT ![a] = P2]
    BY <1>1, <1>6, ZenonT(60)
  <2> HIDE DEF P2, P, Q
  <2> QED
    BY <1>2, <2>1, <2>2, UpdateOne, ZenonT(60)
<1>10. pnonce' \in [Addr -> Nat]
  <2>1. ASSUME promoted # {} PROVE LastNonce(promoted) \in Nat
    <3>1. promoted \in SUBSET Tx
      BY <1>2, <1>3, <1>5, Zenon DEF AccountOK
    <3>2. (CHOOSE t \in Last(promoted) : TRUE) \in Tx
      BY <2>1, <3>1, LastExists
    <3> QED
      BY <3>2, NonceListAssumption DEF LastNonce, Tx, Nonce
  <2>2. pnonce \in [Addr -> Nat]
    BY <1>2, Zenon DEF TypeOK
  <2>3. (IF promoted = {} THEN pnonce[a] ELSE 1 + LastNonce(promoted)) \in Nat
    BY <2>1, <2>2
  <2> QED
    BY <1>1, <2>2, <2>3, Zenon
<1>11. QueuedHasHeartbeat' /\ beats' \subseteq Addr
  <2>1. \A b \in Addr : queue'[b] # {} => b \in beats'
    <3> TAKE b \in Addr
    <3>1. CASE b = a
      BY <3>1, <1>1, <1>2, <1>3, SMTT(30) DEF TypeOK, QueuedHasHeartbeat, NonEmpty
    <3>2. CASE b # a
      BY <3>2, <1>1, <1>2, Zenon DEF TypeOK, QueuedHasHeartbeat, NonEmpty
    <3> QED
      BY <3>1, <3>2, Zenon
  <2>2. beats' \subseteq Addr
    BY <1>1, <1>2, SMTT(60) DEF TypeOK
  <2> QED
    BY <2>1, <2>2, Zenon DEF QueuedHasHeartbeat, NonEmpty
<1>12. TypeOK'
  <2>1. pending' \in [Addr -> SUBSET Tx] /\ queue' \in [Addr -> SUBSET Tx]
    BY <1>9, Zenon DEF ListsOK
  <2>2. runEvents' \subseteq Tx
    BY <1>1, <1>2, <1>3, <1>5, Zenon DEF PutEvents, TypeOK, AccountOK
  <2> QED
    BY <1>1, <1>2, <1>10, <1>11, <2>1, <2>2, SMTT(60) DEF TypeOK
<1>13. Remotely'
  BY <1>1, <1>2, SMTT(60) DEF Remotely
<1>15. Keeps
  <2>1. all \ all' \subseteq gone
    BY <1>1, Zenon DEF all
  <2> QED
    BY <1>14, <2>1, Zenon DEF Keeps, LeavesRightly
<1> QED
  BY <1>1, <1>9, <1>11, <1>12, <1>13, <1>15, Zenon DEF IInv

\* Demotion moves transactions of one account from pending to queue, and
\* drops some of its pending ones.
LEMMA DemoteStep == ASSUME IInv, NEW a \in Addr, demoteUnexecutables(a) PROVE IInv' /\ Keeps
<1> USE DEF chainVars, listVars, runVars, reqVars, addVars
<1> DEFINE P == pending[a]
           Q == queue[a]
           p == P \ Forward(P, stNonce[a])
           drops == Unpayable(p, stBal[a])
           invalids == Invalids(p, drops)
           paid == (p \ drops) \ invalids
           gapped == IF Has(paid, stNonce[a]) THEN {} ELSE paid
           back == invalids \cup gapped
           P2 == paid \ gapped
           gone == ((P \ paid) \ invalids) \cup ReplacedOf(Q, back)
<1>1. /\ stage = "demote" /\ todo' = todo \ {a}
      /\ pending' = [pending EXCEPT ![a] = P2]
      /\ queue' = [queue EXCEPT ![a] = PutAll(@, back)]
      /\ remotes' = remotes \ gone /\ localTxs' = localTxs \ gone
      /\ beats' = IF back = {} THEN beats ELSE beats \cup {a}
      /\ UNCHANGED <<chainVars, pnonce, offenders, drop, isReset, run, runEvents, announced, reqVars, addVars,
                     fallback, gasTip, stage, victims>>
  BY ZenonT(60) DEF demoteUnexecutables, Beat
<1>2. TypeOK /\ ListsOK(pending, queue, all) /\ QueuedHasHeartbeat /\ Remotely /\ AccountOK(a, P, Q)
  BY Zenon DEF IInv, ListsOK
<1>3. /\ back \subseteq P /\ P2 \subseteq P /\ P2 \cap back = {}
      /\ (P \ paid) \ invalids = P \ (P2 \cup back)
  <2>1. invalids \subseteq p /\ p \subseteq P /\ paid \subseteq P /\ gapped \subseteq paid
    BY ZenonT(60) DEF Invalids
  <2>2. paid \cap invalids = {}
    BY Zenon
  <2>3. back = invalids \cup gapped /\ P2 = paid \ gapped
    BY ZenonT(60)
  <2> HIDE DEF invalids, p, paid, gapped, back, P2, P
  <2> QED
    BY <2>1, <2>2, <2>3, Zenon
<1>4. ReplacedOf(Q, back) = {} /\ PutAll(Q, back) = Q \cup back
  <2>1. /\ Q \in SUBSET Tx /\ P \in SUBSET Tx /\ Unique(P \cup Q) /\ P \cap Q = {}
        /\ back \in SUBSET P
    BY <1>2, <1>3, ZenonT(60) DEF AccountOK
  <2> HIDE DEF P, Q, back
  <2>2. ReplacedOf(Q, back) = {}
    BY <2>1, MoveIsUnion, ZenonT(60)
  <2>4. RejectedOf(Q, back) = {}
    BY <2>1, MoveIsUnion, ZenonT(60)
  <2>3. PutAll(Q, back) = Q \cup back
    BY <2>2, <2>4, Zenon DEF PutAll
  <2> QED
    BY <2>2, <2>3, Zenon
<1>5. gone = P \ (P2 \cup back)
  <2> HIDE DEF paid, invalids, P2, back, P, Q
  <2> QED
    BY <1>3, <1>4, Zenon
<1>13. \A t \in gone : t.from = a /\ (t.nonce < stNonce[a] \/ Cost(t) > stBal[a])
  <2>1. \A t \in gone : t \in P /\ t \notin paid /\ t \notin invalids
    <3> HIDE DEF paid, invalids, P2, back, P, Q
    <3> QED
      BY <1>4, Zenon
  <2>2. \A t \in P : t \notin paid /\ t \notin invalids => t \in Forward(P, stNonce[a]) \/ t \in drops
    BY ZenonT(60)
  <2>3. \A t \in P : t \notin paid /\ t \notin invalids => t.nonce < stNonce[a] \/ Cost(t) > stBal[a]
    BY <2>2, ZenonT(60) DEF Forward, Unpayable
  <2> HIDE DEF gone, paid, invalids
  <2> QED
    BY <1>2, <2>1, <2>3, Zenon DEF AccountOK
<1> HIDE DEF back, P2, gone
<1>6. queue' = [queue EXCEPT ![a] = Q \cup back]
  BY <1>1, <1>4, ZenonT(60)
<1>7. AccountOK(a, P2, Q \cup back)
  BY <1>2, <1>3, ZenonT(60) DEF AccountOK, Unique
<1>8. all' = (all \ (P \cup Q)) \cup P2 \cup (Q \cup back)
  <2>1. all' = all \ gone
    BY <1>1, Zenon DEF all
  <2>2. P \cup Q \subseteq all /\ P \cap Q = {}
    BY <1>2 DEF ListsOK, AccountOK
  <2> HIDE DEF P, Q
  <2> QED
    BY <1>3, <1>5, <2>1, <2>2, Zenon
<1>9. ListsOK(pending', queue', all')
  <2> DEFINE Q2 == Q \cup back
  <2>1. AccountOK(a, P2, Q2) /\ all' = (all \ (pending[a] \cup queue[a])) \cup P2 \cup Q2
    BY <1>7, <1>8, Zenon
  <2>2. queue' = [queue EXCEPT ![a] = Q2] /\ pending' = [pending EXCEPT ![a] = P2]
    BY <1>1, <1>6, ZenonT(60)
  <2> HIDE DEF Q2, P, Q
  <2> QED
    BY <1>2, <2>1, <2>2, UpdateOne, ZenonT(60)
<1>10. QueuedHasHeartbeat' /\ beats' \subseteq Addr
  <2>1. \A b \in Addr : queue'[b] # {} => b \in beats'
    <3> TAKE b \in Addr
    <3>1. CASE b = a
      BY <3>1, <1>1, <1>2, <1>6, ZenonT(60) DEF TypeOK, QueuedHasHeartbeat, NonEmpty
    <3>2. CASE b # a
      BY <3>2, <1>1, <1>2, <1>6, SMTT(30) DEF TypeOK, QueuedHasHeartbeat, NonEmpty
    <3> QED
      BY <3>1, <3>2, Zenon
  <2>2. beats' \subseteq Addr
    BY <1>1, <1>2, SMTT(30) DEF TypeOK
  <2> QED
    BY <2>1, <2>2, Zenon DEF QueuedHasHeartbeat, NonEmpty
<1>11. TypeOK'
  <2>1. pending' \in [Addr -> SUBSET Tx] /\ queue' \in [Addr -> SUBSET Tx]
    BY <1>9, Zenon DEF ListsOK
  <2> QED
    BY <1>1, <1>2, <1>10, <2>1, Zenon DEF TypeOK
<1>12. Remotely'
  BY <1>1, <1>2, ZenonT(60) DEF Remotely
<1>14. Keeps
  <2>1. all \ all' \subseteq gone
    BY <1>1, Zenon DEF all
  <2> QED
    BY <1>13, <2>1, Zenon DEF Keeps, LeavesRightly
<1> QED
  BY <1>1, <1>9, <1>10, <1>11, <1>12, <1>14, Zenon DEF IInv

-----------------------------------------------------------------------------
(***************************************************************************)
(* Theorems about the transaction pool, for any number of accounts, nonces,*)
(* prices, limits and calls, and any interleaving with the executor.       *)
(***************************************************************************)

\* Every step of the pool keeps the invariant, and loses no transaction of a
\* local account without a reason.
LEMMA NextIInv == ASSUME IInv, [Next]_vars PROVE IInv' /\ Keeps
<1>1. CASE Chain
  <2>1. all' = all
    BY <1>1, Zenon DEF Chain, StateWrite, Transfer, Rollback, RequestReset, listVars, all
  <2> QED
    BY <1>1, <2>1, ChainStep, Zenon DEF Keeps
<1>2. CASE Adding
  <2>1. CASE \/ \E t \in Tx, local \in Source : AddBegin(t, local)
             \/ \E r \in inflight : AddRefused(r) \/ AddAccepted(r)
    <3>1. all' = all
      BY <2>1, Zenon DEF AddBegin, AddRefused, AddAccepted, listVars, all
    <3> QED
      BY <2>1, <3>1, AddStep, Zenon DEF Keeps
  <2>2. CASE \E t \in victims : RemoveVictim(t)
    BY <2>2, RemoveVictimStep, Zenon
  <2>3. CASE ReplacePending
    BY <2>3, ReplacePendingStep, Zenon
  <2>4. CASE Enqueue
    BY <2>4, EnqueueStep, SMTT(30)
  <2> QED
    BY <1>2, <2>1, <2>2, <2>3, <2>4, Zenon DEF Adding
<1>3. CASE Purging
  <2>1. all' = all
    BY <1>3, Zenon DEF Purging, Evict, SetGasTip, PurgeDone, listVars, all
  <2> QED
    BY <1>3, <2>1, PurgeStep, Zenon DEF Keeps
<1>4. CASE runReorg
  <2>1. CASE \/ Launch \/ RunLock \/ Promoted \/ PendingTruncated \/ QueueTruncated
             \/ RunUnlock \/ Announce \/ \E a \in Addr : PopSpammer(a)
    <3>1. all' = all
      BY <2>1, Zenon DEF Launch, RunLock, Promoted, PendingTruncated, QueueTruncated, RunUnlock, Announce,
                  PopSpammer, listVars, all
    <3> QED
      BY <2>1, <3>1, RunStep, SMTT(30) DEF Keeps
  <2>2. CASE setAll
    <3>1. all' = all
      BY <2>2, Zenon DEF setAll, all
    <3> QED
      BY <2>2, <3>1, SetAllStep, Zenon DEF Keeps
  <2>3. ASSUME NEW a \in Addr, truncateQueue(a) PROVE IInv' /\ Keeps
    <3>1. all' = all
      BY <2>3, Zenon DEF truncateQueue, listVars, all
    <3> QED
      BY <2>3, <3>1, TruncateQueueStep, Zenon DEF Keeps
  <2>4. ASSUME NEW a \in Addr, promoteExecutables(a) PROVE IInv' /\ Keeps
    BY <2>4, PromoteStep, Zenon
  <2>5. ASSUME NEW a \in Addr, demoteUnexecutables(a) PROVE IInv' /\ Keeps
    BY <2>5, DemoteStep, Zenon
  <2>6. ASSUME Equalize \/ Reduce PROVE IInv' /\ Keeps
    <3>1. stage = "truncatePending"
      BY <2>6, Zenon DEF Equalize, Reduce
    <3>2. offenders \in Seq(Addr) /\ \A i \in 1 .. Len(offenders) : offenders[i] \in Addr \ locals
      BY <3>1, SMTT(60) DEF IInv, TypeOK, Remotely
    <3>3. \A n \in Int : n <= Len(offenders) =>
            OffenderSet(n) \in SUBSET Addr /\ OffenderSet(n) \cap locals = {}
      BY <3>2 DEF OffenderSet
    <3>4. \E n \in Int : n <= Len(offenders) /\ CapOne(OffenderSet(n))
      BY <2>6, <3>2, SMTT(30) DEF Equalize, Reduce
    <3> QED
      BY <3>1, <3>3, <3>4, CapStep, Zenon
  <2> QED
    BY <1>4, <2>1, <2>2, <2>3, <2>4, <2>5, <2>6 DEF runReorg
<1>5. CASE UNCHANGED vars
  <2> USE DEF vars, chainVars, listVars, runVars, reqVars, addVars
  <2>1. TypeOK'
    BY <1>5, SMTT(30) DEF IInv, TypeOK
  <2>2. Remotely'
    BY <1>5, Zenon DEF IInv, Remotely
  <2>3. all' = all /\ UNCHANGED <<pending, queue, beats, stage, job>>
    BY <1>5, Zenon DEF all
  <2> QED
    BY <2>1, <2>2, <2>3, SMTT(30) DEF IInv, QueuedHasHeartbeat, NonEmpty, Keeps
<1> QED
  BY <1>1, <1>2, <1>3, <1>4, <1>5, Zenon DEF Next

\* The invariant holds throughout.
LEMMA SpecIInv == Spec => []IInv
<1>1. IInv /\ [Next]_vars => IInv'
  BY NextIInv, Zenon
<1> QED
  BY InitIInv, <1>1, PTL DEF Spec

\* Type correctness of the pool (TypeOK).
THEOREM PoolTypes == Spec => []TypeOK
<1>1. IInv => TypeOK
  BY Zenon DEF IInv
<1> QED
  BY SpecIInv, <1>1, PTL

\* add, removeTx, promotion, demotion and truncation keep the lookup and the
\* lists of the accounts in agreement (LookupExact), whatever the executor
\* writes to the state in between.
THEOREM PoolLookupExact == Spec => []LookupExact
<1>1. IInv => LookupExact
  BY Zenon DEF IInv, ListsOK, LookupExact
<1> QED
  BY SpecIInv, <1>1, PTL

\* No account ever has two transactions of one nonce (OneTxPerNonce), so
\* enqueueTx and promoteTx never refuse an internal move.
THEOREM PoolOneTxPerNonce == Spec => []OneTxPerNonce
<1>1. IInv => OneTxPerNonce
  BY Zenon DEF IInv, ListsOK, AccountOK, OneTxPerNonce
<1> QED
  BY SpecIInv, <1>1, PTL

\* Every account with queued transactions has a heartbeat (QueuedHasHeartbeat).
THEOREM PoolQueuedHasHeartbeat == Spec => []QueuedHasHeartbeat
<1>1. IInv => QueuedHasHeartbeat
  BY Zenon DEF IInv
<1> QED
  BY SpecIInv, <1>1, PTL

\* Lists, lookup and heartbeats agree after every step of every interleaving
\* of adds, removals, evictions and runs (ListsAgree).
THEOREM PoolListsAgree == Spec => []ListsAgree
  BY PoolTypes, PoolLookupExact, PoolOneTxPerNonce, PoolQueuedHasHeartbeat, PTL DEF ListsAgree

\* No limit, price or lifetime drops a transaction of a local account
\* (LocalsKept).
THEOREM PoolLocalsKept == Spec => LocalsKept
<1>1. IInv /\ [Next]_vars => [\A t \in all \ all' : t.from \in locals => LeavesRightly(t)]_vars
  BY NextIInv, Zenon DEF Keeps
<1> QED
  BY SpecIInv, <1>1, PTL DEF Spec, LocalsKept

-----------------------------------------------------------------------------
(* Facts that the other proofs about the pool share. *)

\* What list.LastElement returns.
LEMMA LastNonceIs ==
    ASSUME NEW L \in SUBSET Tx, L # {}
    PROVE  /\ LastNonce(L) \in Nat
           /\ Has(L, LastNonce(L))
           /\ \A t \in L : t.nonce <= LastNonce(L)
<1> DEFINE l == CHOOSE t \in Last(L) : TRUE
<1>1. Last(L) # {} /\ Last(L) \subseteq L
  BY LastExists, Zenon
<1>2. l \in Last(L)
  BY <1>1, Zenon
<1>3. LastNonce(L) = l.nonce
  BY Zenon DEF LastNonce
<1> HIDE DEF l
<1>4. l \in L /\ \A u \in L : u.nonce <= l.nonce
  BY <1>2, Zenon DEF Last
<1>5. l.nonce \in Nat
  BY <1>4, TxFields
<1> QED
  BY <1>3, <1>4, <1>5, Zenon DEF Has

\* The types that the nonce arguments need.
LEMMA NonceTypes ==
    ASSUME IInv, NEW a \in Addr
    PROVE  /\ pending[a] \in SUBSET Tx /\ stNonce[a] \in Nat /\ pnonce[a] \in Nat /\ fallback[a] \in Nat
           /\ rollbacks \in Nat
           /\ AccountOK(a, pending[a], queue[a])
BY SMTT(30) DEF IInv, TypeOK, ListsOK

\* What list.Cap(list.Len() - 1) of the accounts in S does to the lists.
LEMMA CapLists ==
    ASSUME IInv, NEW S \in SUBSET Addr, CapOne(S), NEW a \in Addr
    PROVE  /\ a \in S /\ pending[a] # {} =>
                 /\ pending'[a] = {t \in pending[a] : t.nonce < LastNonce(pending[a])}
                 /\ pnonce'[a] = Lower(pnonce[a], LastNonce(pending[a]))
           /\ ~(a \in S /\ pending[a] # {}) => pending'[a] = pending[a] /\ pnonce'[a] = pnonce[a]
<1> DEFINE gone == UNION {Last(pending[b]) : b \in S}
<1>1. /\ pending' = [b \in Addr |-> pending[b] \ gone]
      /\ pnonce' = [b \in Addr |-> IF b \in S /\ pending[b] # {}
                                   THEN Lower(pnonce[b], LastNonce(pending[b])) ELSE pnonce[b]]
  BY ZenonT(40) DEF CapOne
<1>2. \A b \in Addr : pending[b] \in SUBSET Tx /\ \A t \in pending[b] : t.from = b
  BY NonceTypes, Zenon DEF AccountOK
<1>3. ASSUME NEW t \in pending[a] PROVE t \in gone <=> a \in S /\ t \in Last(pending[a])
  <2>1. ASSUME NEW b \in S, t \in Last(pending[b]) PROVE b = a
    <3>1. t \in pending[b]
      BY <2>1, Zenon DEF Last
    <3> QED
      BY <1>2, <3>1, Zenon
  <2> QED
    BY <2>1, Zenon
<1> HIDE DEF gone
<1>4. pending'[a] = pending[a] \ gone
  BY <1>1, Zenon
<1>5. CASE a \in S /\ pending[a] # {}
  <2>1. /\ LastNonce(pending[a]) \in Nat
        /\ Has(pending[a], LastNonce(pending[a]))
        /\ \A t \in pending[a] : t.nonce <= LastNonce(pending[a]) /\ t.nonce \in Nat
    BY <1>2, <1>5, LastNonceIs, TxFields, Zenon
  <2>2. \A t \in pending[a] : t \in Last(pending[a]) <=> ~(t.nonce < LastNonce(pending[a]))
    BY <2>1 DEF Last, Has
  <2>3. pending'[a] = {t \in pending[a] : t.nonce < LastNonce(pending[a])}
    BY <1>3, <1>4, <1>5, <2>2, Zenon
  <2> QED
    BY <1>1, <1>5, <2>3, Zenon
<1>6. CASE pending[a] = {}
  BY <1>1, <1>4, <1>6, Zenon
<1>7. CASE a \notin S
  <2>1. pending'[a] = pending[a]
    BY <1>3, <1>4, <1>7, Zenon
  <2> QED
    BY <1>1, <1>7, <2>1, SMTT(30)
<1> QED
  BY <1>5, <1>6, <1>7, SMTT(30)

-----------------------------------------------------------------------------
(* Truncation ends within the limits and takes from the largest accounts. *)

\* The sizes of the pending lists.
PendingSizes == [a \in Addr |-> Cardinality(pending[a])]

\* Of the offenders O and the spammers T that are left, in sizes S: the
\* offenders are distinct, those but the last are of one size, and none is
\* smaller than the last, nor than the allowance or a spammer that is left.
Ranked(S, O, T) ==
    /\ \A i, j \in 1 .. Len(O) : O[i] = O[j] => i = j
    /\ \A i \in 1 .. Len(O) : O[i] \notin T
    /\ \A i, j \in 1 .. Len(O) - 1 : S[O[i]] = S[O[j]]
    /\ \A i \in 1 .. Len(O) : S[O[i]] >= AccountSlots /\ S[O[i]] >= S[O[Len(O)]]
    /\ \A a \in T : S[a] > AccountSlots
    /\ \A i \in 1 .. Len(O), a \in T : S[O[i]] >= S[a]

\* Whoever of the accounts A is above the allowance is an offender or left.
Accused(S, O, T, A) ==
    \A a \in A : a \in T \/ (\E i \in 1 .. Len(O) : O[i] = a) \/ S[a] <= AccountSlots

\* While truncatePending runs.
Penalized ==
    stage = "truncatePending" =>
        /\ Ranked(PendingSizes, offenders, todo)
        /\ TooManyPending => Accused(PendingSizes, offenders, todo, Addr \ locals)

\* What truncatePending leaves.
PendingWithin ==
    stage \in {"truncateQueue", "finish"} /\ TooManyPending =>
        \A a \in Addr \ locals : Cardinality(pending[a]) <= AccountSlots

Queued == UNION {queue[a] : a \in Addr}

\* While truncateQueue runs: what is still to be dropped, and marked already,
\* makes up for the excess; and no queue but those of local accounts and of the
\* accounts left to visit survives, until enough is dropped.
Dropping ==
    stage = "truncateQueue" =>
        /\ victims \subseteq Queued
        /\ drop \in Nat
        /\ Total(queue) <= GlobalQueue + drop + Cardinality(victims)
        /\ drop > 0 => \A a \in Addr \ locals : a \in todo \/ queue[a] \subseteq victims

QueueWithin == stage = "finish" => (Total(queue) > GlobalQueue => NonEmpty(queue) \subseteq locals)

\* The inductive invariant behind Truncation.
LimitInv == Penalized /\ PendingWithin /\ Dropping /\ QueueWithin

\* The sizes of lists and of their unions.
LEMMA Sizes ==
    ASSUME IInv
    PROVE  /\ \A a \in Addr : Cardinality(pending[a]) \in Nat /\ IsFiniteSet(pending[a])
           /\ \A a \in Addr : Cardinality(queue[a]) \in Nat /\ IsFiniteSet(queue[a])
           /\ Total(pending) \in Nat /\ Total(queue) \in Nat
           /\ Cardinality(victims) \in Nat /\ IsFiniteSet(victims)
           /\ IsFiniteSet(Queued) /\ Queued \in SUBSET Tx
<1>1. pending \in [Addr -> SUBSET Tx] /\ queue \in [Addr -> SUBSET Tx] /\ victims \in SUBSET Tx
  BY Zenon DEF IInv, TypeOK
<1>2. \A a \in Addr : pending[a] \in SUBSET Tx /\ queue[a] \in SUBSET Tx
  BY <1>1, Zenon
<1>3. UNION {pending[a] : a \in Addr} \in SUBSET Tx /\ Queued \in SUBSET Tx
  BY <1>2, Zenon DEF Queued
<1> QED
  BY <1>1, <1>2, <1>3, ListSize, Zenon DEF Total, Queued

\* Lists that shrink have no larger total.
LEMMA TotalShrinks ==
    ASSUME NEW f \in [Addr -> SUBSET Tx], NEW g, \A a \in Addr : g[a] \subseteq f[a]
    PROVE  Total(g) <= Total(f) /\ Total(g) \in Nat /\ Total(f) \in Nat
<1>1. UNION {f[a] : a \in Addr} \in SUBSET Tx
  BY Zenon
<1>2. UNION {g[a] : a \in Addr} \subseteq UNION {f[a] : a \in Addr}
  BY Zenon
<1>3. IsFiniteSet(UNION {f[a] : a \in Addr})
  BY <1>1, ListSize, Zenon
<1>4. \A S, T : IsFiniteSet(T) /\ S \subseteq T =>
         Cardinality(S) \in Nat /\ Cardinality(T) \in Nat /\ Cardinality(S) <= Cardinality(T)
  BY FS_Subset, FS_CardinalityType, Zenon
<1> QED
  BY <1>2, <1>3, <1>4, Zenon DEF Total

\* Cap(Len() - 1) removes one transaction.
LEMMA CapSize ==
    ASSUME NEW L \in SUBSET Tx, L # {}, Unique(L), NEW K, K = {t \in L : t.nonce < LastNonce(L)}
    PROVE  Cardinality(K) = Cardinality(L) - 1
<1>1. LastNonce(L) \in Nat /\ Has(L, LastNonce(L)) /\ \A t \in L : t.nonce <= LastNonce(L) /\ t.nonce \in Nat
  BY LastNonceIs, TxFields, Zenon
<1>2. PICK l \in L : l.nonce = LastNonce(L)
  BY <1>1, Zenon DEF Has
<1>3. K = L \ {l}
  BY <1>1, <1>2 DEF Unique
<1> QED
  BY <1>2, <1>3, ListSize, FS_RemoveElement, Zenon

\* list.Cap(k) leaves at most k transactions.
LEMMA ExcessSize ==
    ASSUME NEW L \in SUBSET Tx, NEW k \in Nat
    PROVE  Cardinality(Excess(L, k)) >= Cardinality(L) - k /\ Excess(L, k) \in SUBSET L
<1> DEFINE rank(t) == {u \in L : u.nonce <= t.nonce}
           E == Excess(L, k)
           K == L \ E
<1>1. E \in SUBSET L /\ \A t \in K : ~(Cardinality(rank(t)) > k)
  BY Zenon DEF Excess
<1>2. IsFiniteSet(L) /\ \A S \in SUBSET L : IsFiniteSet(S) /\ Cardinality(S) \in Nat
  BY ListSize, Zenon
<1>3. Cardinality(K) <= k
  <2>1. CASE K = {}
    BY <2>1, FS_EmptySet
  <2>2. CASE K # {}
    <3>1. K \in SUBSET Tx
      BY Zenon
    <3>2. /\ LastNonce(K) \in Nat /\ Has(K, LastNonce(K))
          /\ \A t \in K : t.nonce <= LastNonce(K)
      BY <2>2, <3>1, LastNonceIs, Zenon
    <3>3. PICK l \in K : l.nonce = LastNonce(K)
      BY <3>2, Zenon DEF Has
    <3>4. K \in SUBSET rank(l) /\ rank(l) \in SUBSET L
      BY <3>2, <3>3, Zenon
    <3>5. Cardinality(K) <= Cardinality(rank(l)) /\ Cardinality(rank(l)) \in Nat /\ Cardinality(K) \in Nat
      <4> HIDE DEF rank, K
      <4> QED
        BY <1>2, <3>4, FS_Subset, Zenon
    <3>7. ~(Cardinality(rank(l)) > k)
      BY <1>1, <3>3, ZenonT(30)
    <3> HIDE DEF rank, K
    <3>6. Cardinality(rank(l)) <= k
      BY <3>5, <3>7
    <3> QED
      BY <3>5, <3>6
  <2> QED
    BY <2>1, <2>2, Zenon
<1> HIDE DEF E
<1>4. L = E \cup K /\ E \cap K = {} /\ K \in SUBSET L
  BY <1>1, Zenon
<1> HIDE DEF K
<1>5. Cardinality(L) = Cardinality(E) + Cardinality(K)
  <2>1. IsFiniteSet(E) /\ IsFiniteSet(K) /\ Cardinality(E) \in Nat /\ Cardinality(K) \in Nat
    BY <1>1, <1>2, <1>4, Zenon
  <2>2. Cardinality(E \cup K) = Cardinality(E) + Cardinality(K) - Cardinality(E \cap K)
    BY <2>1, FS_Union, Zenon
  <2>3. Cardinality(E \cap K) = 0
    BY <1>4, FS_EmptySet, Zenon
  <2> QED
    BY <1>4, <2>1, <2>2, <2>3
<1>6. Cardinality(E) \in Nat /\ Cardinality(K) \in Nat /\ Cardinality(L) \in Nat
  BY <1>1, <1>2, <1>4, Zenon
<1> QED
  BY <1>1, <1>3, <1>5, <1>6 DEF E

\* Outside of truncation there is nothing to show, and what leaves the lists
\* and loops alone changes nothing.
LEMMA QuietLimits ==
    ASSUME LimitInv,
           \/ stage' \notin {"truncatePending", "truncateQueue", "finish"}
           \/ UNCHANGED <<pending, queue, locals, todo, offenders, drop, victims, stage>>
    PROVE  LimitInv'
<1>1. CASE stage' \notin {"truncatePending", "truncateQueue", "finish"}
  BY <1>1, Zenon DEF LimitInv, Penalized, PendingWithin, Dropping, QueueWithin
<1>2. CASE UNCHANGED <<pending, queue, locals, todo, offenders, drop, victims, stage>>
  <2>1. PendingSizes' = PendingSizes
    BY <1>2, Zenon DEF PendingSizes
  <2>2. /\ TooManyPending' = TooManyPending /\ Total(queue)' = Total(queue) /\ Queued' = Queued
        /\ NonEmpty(queue)' = NonEmpty(queue)
    BY <1>2, Zenon DEF TooManyPending, Queued
  <2>3. Penalized'
    BY <1>2, <2>1, <2>2, Zenon DEF LimitInv, Penalized
  <2>4. PendingWithin'
    BY <1>2, <2>2, Zenon DEF LimitInv, PendingWithin
  <2>5. Dropping'
    BY <1>2, <2>2, Zenon DEF LimitInv, Dropping
  <2>6. QueueWithin'
    BY <1>2, <2>2, Zenon DEF LimitInv, QueueWithin
  <2> QED
    BY <2>3, <2>4, <2>5, <2>6, Zenon DEF LimitInv
<1> QED
  BY <1>1, <1>2, Zenon

\* Most steps of the pool.
LEMMA OtherLimits ==
    ASSUME IInv, LimitInv,
           \/ Chain \/ (\E t \in Tx, local \in Source : AddBegin(t, local))
           \/ \E r \in inflight : AddRefused(r) \/ AddAccepted(r)
           \/ ReplacePending \/ Enqueue \/ Purging \/ Launch \/ RunLock \/ RunUnlock \/ Announce
           \/ \E a \in Addr : promoteExecutables(a) \/ demoteUnexecutables(a)
    PROVE  LimitInv'
<1> USE DEF chainVars, listVars, runVars, reqVars, addVars
<1>1. CASE Chain
  <2>1. UNCHANGED <<pending, queue, locals, todo, offenders, drop, victims, stage>>
    BY <1>1, Zenon DEF Chain, StateWrite, Transfer, Rollback, RequestReset
  <2> QED
    BY <2>1, QuietLimits, SMTT(30)
<1>2. ASSUME NEW t \in Tx, NEW local \in Source, AddBegin(t, local) PROVE LimitInv'
  BY <1>2, QuietLimits, Zenon DEF AddBegin
<1>3. ASSUME NEW r \in inflight, AddRefused(r) \/ AddAccepted(r) PROVE LimitInv'
  <2>1. stage' \in {"free", "insert"}
    BY <1>3, Zenon DEF AddRefused, AddAccepted
  <2> QED
    BY <2>1, QuietLimits, SMTT(30)
<1>4. CASE ReplacePending \/ Enqueue \/ Purging \/ RunLock \/ RunUnlock
  <2>1. stage' \in {"free", "purge", "promote"}
    BY <1>4, Zenon DEF ReplacePending, Enqueue, Purging, Evict, SetGasTip, PurgeDone, RunLock, RunUnlock
  <2> QED
    BY <2>1, QuietLimits, SMTT(30)
<1>5. CASE Launch \/ Announce
  <2>1. run \in {"idle", "sending"} /\ stage' = stage
    BY <1>5, Zenon DEF Launch, Announce
  <2>2. stage \in {"free", "insert", "purge"}
    BY <2>1 DEF IInv, TypeOK
  <2> QED
    BY <2>1, <2>2, QuietLimits, Zenon
<1>6. ASSUME NEW a \in Addr, promoteExecutables(a) \/ demoteUnexecutables(a) PROVE LimitInv'
  <2>1. stage' \in {"promote", "demote"}
    BY <1>6, ZenonT(60) DEF promoteExecutables, demoteUnexecutables
  <2> QED
    BY <2>1, QuietLimits, Zenon
<1> QED
  BY <1>1, <1>2, <1>3, <1>4, <1>5, <1>6

\* truncatePending starts with the accounts above the allowance.
LEMMA SpammersLimits == ASSUME IInv, LimitInv, Promoted \/ setAll PROVE LimitInv'
<1> USE DEF chainVars, listVars, runVars, reqVars, addVars
<1>1. /\ UNCHANGED <<pending, queue, locals, offenders>>
      /\ stage \in {"promote", "demote"}
      /\ stage' = "demote" \/ (stage' = "truncatePending" /\ todo' = Spammers)
  BY Zenon DEF Promoted, setAll
<1>2. CASE stage' = "demote"
  BY <1>2, QuietLimits, Zenon
<1>3. CASE stage' = "truncatePending" /\ todo' = Spammers
  <2>1. offenders' = <<>> /\ Len(<<>>) = 0
    BY <1>1, Zenon DEF IInv, Remotely
  <2>2. PendingSizes' = PendingSizes /\ PendingSizes \in [Addr -> Nat] /\ AccountSlots \in Nat
    BY <1>1, Sizes, LegacyPoolAssumption, Zenon DEF PendingSizes
  <2>3. \A a \in Addr : PendingSizes[a] = Cardinality(pending[a])
    BY Zenon DEF PendingSizes
  <2>4. \A a \in todo' : PendingSizes[a] > AccountSlots
    BY <1>3, <2>3, Zenon DEF Spammers
  <2>5. TooManyPending => \A a \in Addr \ locals : a \in todo' \/ ~(PendingSizes[a] > AccountSlots)
    BY <1>3, <2>3, Zenon DEF Spammers, TooManyPending
  <2>6. Ranked(PendingSizes, <<>>, todo')
    BY <2>1, <2>4 DEF Ranked
  <2>7. TooManyPending => Accused(PendingSizes, <<>>, todo', Addr \ locals)
    BY <2>2, <2>5 DEF Accused
  <2>8. TooManyPending' = TooManyPending
    BY <1>1, Zenon DEF TooManyPending
  <2>9. Penalized'
    BY <1>1, <2>1, <2>2, <2>6, <2>7, <2>8, Zenon DEF Penalized
  <2> QED
    BY <1>3, <2>9, Zenon DEF LimitInv, PendingWithin, Dropping, QueueWithin
<1> QED
  BY <1>1, <1>2, <1>3, Zenon

\* When nothing is left to equalize, the offenders are of one size.
LEMMA OffendersEqual ==
    ASSUME NEW S \in [Addr -> Nat], NEW O \in Seq(Addr), NEW T, Ranked(S, O, T),
           ~(Len(O) > 1 /\ S[O[Len(O) - 1]] > S[O[Len(O)]])
    PROVE  \A i \in 1 .. Len(O) : S[O[i]] = S[O[Len(O)]]
<1> DEFINE m == Len(O)
<1>1. m \in Nat /\ \A i \in 1 .. m : O[i] \in Addr /\ S[O[i]] \in Nat
  OBVIOUS
<1>2. /\ \A i, j \in 1 .. m - 1 : S[O[i]] = S[O[j]]
      /\ \A i \in 1 .. m : S[O[i]] >= S[O[m]]
  BY Zenon DEF Ranked
<1>3. m > 1 => ~(S[O[m - 1]] > S[O[m]])
  BY Zenon
<1> HIDE DEF m
<1>4. ASSUME NEW i \in 1 .. m PROVE S[O[i]] = S[O[m]]
  <2>1. CASE i = m
    BY <2>1, Zenon
  <2>2. CASE i # m
    <3>1. i \in 1 .. m - 1 /\ m - 1 \in 1 .. m - 1 /\ m > 1 /\ m - 1 \in 1 .. m /\ m \in 1 .. m
      BY <1>1, <2>2
    <3>2. S[O[i]] = S[O[m - 1]] /\ S[O[i]] >= S[O[m]] /\ ~(S[O[m - 1]] > S[O[m]])
      BY <1>2, <1>3, <3>1, Zenon
    <3> QED
      BY <1>1, <3>1, <3>2
  <2> QED
    BY <2>1, <2>2, Zenon
<1> QED
  BY <1>4, Zenon DEF m

\* The largest spammer that is left becomes an offender, the last of them.
LEMMA PopRanked ==
    ASSUME NEW S \in [Addr -> Nat], NEW O \in Seq(Addr), NEW T \in SUBSET Addr, Ranked(S, O, T),
           \A i \in 1 .. Len(O) : S[O[i]] = S[O[Len(O)]],
           NEW a \in T, \A b \in T : S[b] <= S[a]
    PROVE  /\ Ranked(S, Append(O, a), T \ {a})
           /\ \A A : Accused(S, O, T, A) => Accused(S, Append(O, a), T \ {a}, A)
<1> DEFINE m == Len(O)
           Q == Append(O, a)
<1>1. m \in Nat /\ Len(Q) = m + 1 /\ Q[m + 1] = a /\ \A i \in 1 .. m : Q[i] = O[i] /\ O[i] \in Addr
  OBVIOUS
<1>2. \A i \in 1 .. m + 1 : i \in 1 .. m \/ i = m + 1
  BY <1>1
<1>3. /\ \A i, j \in 1 .. m : O[i] = O[j] => i = j
      /\ \A i \in 1 .. m : O[i] \notin T
      /\ \A i \in 1 .. m : S[O[i]] >= AccountSlots
      /\ \A b \in T : S[b] > AccountSlots
      /\ \A i \in 1 .. m, b \in T : S[O[i]] >= S[b]
  BY Zenon DEF Ranked
<1>4. /\ \A b \in Addr : S[b] \in Nat
      /\ AccountSlots \in Nat /\ a \in Addr
      /\ \A i \in 1 .. m : S[O[i]] = S[O[m]]
  BY LegacyPoolAssumption, Zenon
<1> HIDE DEF m, Q
<1>5. \A i, j \in 1 .. m + 1 : Q[i] = Q[j] => i = j
  <2> SUFFICES ASSUME NEW i \in 1 .. m + 1, NEW j \in 1 .. m + 1, Q[i] = Q[j] PROVE i = j
    BY Zenon
  <2> QED
    BY <1>1, <1>2, <1>3
<1>6. \A i \in 1 .. m + 1 : Q[i] \notin T \ {a}
  BY <1>1, <1>2, <1>3, SMTT(30)
<1>7. \A i, j \in 1 .. (m + 1) - 1 : S[Q[i]] = S[Q[j]]
  <2>1. (m + 1) - 1 = m
    BY <1>1
  <2>2. \A i \in 1 .. m : S[Q[i]] = S[O[m]]
    BY <1>1, <1>4, Zenon
  <2> QED
    BY <2>1, <2>2, Zenon
<1>8. \A i \in 1 .. m + 1 : S[Q[i]] >= AccountSlots /\ S[Q[i]] >= S[Q[m + 1]]
  <2> TAKE i \in 1 .. m + 1
  <2>1. CASE i \in 1 .. m
    BY <1>1, <1>3, <2>1, Zenon
  <2>2. CASE i = m + 1
    BY <1>1, <1>3, <1>4, <2>2
  <2> QED
    BY <1>2, <2>1, <2>2, Zenon
<1>9. \A i \in 1 .. m + 1, b \in T \ {a} : S[Q[i]] >= S[b]
  <2> TAKE i \in 1 .. m + 1, b \in T \ {a}
  <2>1. CASE i \in 1 .. m
    BY <1>1, <1>3, <2>1, Zenon
  <2>2. CASE i = m + 1
    BY <1>1, <1>4, <2>2, Zenon
  <2> QED
    BY <1>2, <2>1, <2>2, Zenon
<1>10. Ranked(S, Q, T \ {a})
  BY <1>1, <1>3, <1>5, <1>6, <1>7, <1>8, <1>9, Zenon DEF Ranked
<1>11. ASSUME NEW A, Accused(S, O, T, A) PROVE Accused(S, Q, T \ {a}, A)
  <2> SUFFICES ASSUME NEW b \in A
               PROVE  b \in T \ {a} \/ (\E i \in 1 .. Len(Q) : Q[i] = b) \/ S[b] <= AccountSlots
    BY Zenon DEF Accused
  <2>1. b \in T \/ (\E i \in 1 .. m : O[i] = b) \/ S[b] <= AccountSlots
    BY <1>11, Zenon DEF Accused, m
  <2>2. m + 1 \in 1 .. m + 1 /\ \A i \in 1 .. m : i \in 1 .. m + 1
    BY <1>1
  <2> QED
    BY <1>1, <2>1, <2>2, Zenon
<1> QED
  BY <1>10, <1>11, Zenon DEF Q

\* A step of PopSpammer.
LEMMA PopLimits == ASSUME IInv, LimitInv, NEW a \in Addr, PopSpammer(a) PROVE LimitInv'
<1> USE DEF chainVars, listVars, runVars, reqVars, addVars
<1>1. /\ stage = "truncatePending" /\ ~Equalizing /\ TooManyPending /\ a \in todo
      /\ \A b \in todo : Cardinality(pending[b]) <= Cardinality(pending[a])
      /\ todo' = todo \ {a} /\ offenders' = Append(offenders, a)
      /\ UNCHANGED <<pending, queue, locals, stage>>
  BY Zenon DEF PopSpammer
<1>2. /\ PendingSizes \in [Addr -> Nat] /\ PendingSizes' = PendingSizes
      /\ \A b \in Addr : PendingSizes[b] = Cardinality(pending[b])
  BY <1>1, Sizes, Zenon DEF PendingSizes
<1>3. offenders \in Seq(Addr) /\ todo \in SUBSET Addr
  BY Zenon DEF IInv, TypeOK
<1>4. Ranked(PendingSizes, offenders, todo) /\ Accused(PendingSizes, offenders, todo, Addr \ locals)
  BY <1>1, Zenon DEF LimitInv, Penalized
<1>5. \A i \in 1 .. Len(offenders) : PendingSizes[offenders[i]] = Size(i)
  BY <1>2, <1>3 DEF Size
<1>6. ~(Len(offenders) > 1 /\ PendingSizes[offenders[Len(offenders) - 1]] > PendingSizes[offenders[Len(offenders)]])
  BY <1>1, <1>3, <1>5 DEF Equalizing
<1>7. \A i \in 1 .. Len(offenders) : PendingSizes[offenders[i]] = PendingSizes[offenders[Len(offenders)]]
  BY <1>2, <1>3, <1>4, <1>6, OffendersEqual, SMTT(30)
<1>8. \A b \in todo : PendingSizes[b] <= PendingSizes[a]
  BY <1>1, <1>2, <1>3, Zenon
<1>9. /\ Ranked(PendingSizes, Append(offenders, a), todo \ {a})
      /\ Accused(PendingSizes, Append(offenders, a), todo \ {a}, Addr \ locals)
  BY <1>1, <1>2, <1>3, <1>4, <1>7, <1>8, PopRanked, Zenon
<1>10. Penalized'
  BY <1>1, <1>2, <1>9, Zenon DEF Penalized
<1> QED
  BY <1>1, <1>10, Zenon DEF LimitInv, PendingWithin, Dropping, QueueWithin

\* Sizes z of which all but the last come one down to y, being larger than
\* the last ...
LEMMA EqualizeSizes ==
    ASSUME NEW m \in Nat, m > 1, NEW z \in [1 .. m -> Nat], NEW y \in [1 .. m -> Nat], NEW c \in Nat,
           \A i, j \in 1 .. m - 1 : z[i] = z[j],
           \A i \in 1 .. m : z[i] >= c /\ z[i] >= z[m],
           z[m - 1] > z[m],
           \A i \in 1 .. m - 1 : y[i] = z[i] - 1,
           y[m] = z[m]
    PROVE  /\ \A i, j \in 1 .. m - 1 : y[i] = y[j]
           /\ \A i \in 1 .. m : y[i] >= c /\ y[i] >= y[m]
<1>1. \A i \in 1 .. m - 1 : z[i] > z[m]
  OBVIOUS
<1>2. \A i \in 1 .. m : i = m \/ i \in 1 .. m - 1
  OBVIOUS
<1>3. \A i \in 1 .. m : z[i] \in Nat /\ y[i] \in Nat
  BY Zenon
<1> QED
  BY <1>1, <1>2, <1>3, SMTT(30)

\* ... or all come one down, being of one size above the allowance.
LEMMA ReduceSizes ==
    ASSUME NEW m \in Nat, m > 0, NEW z \in [1 .. m -> Nat], NEW y \in [1 .. m -> Nat], NEW c \in Nat,
           \A i \in 1 .. m : z[i] = z[m] /\ z[i] > c,
           \A i \in 1 .. m : y[i] = z[i] - 1
    PROVE  /\ \A i, j \in 1 .. m - 1 : y[i] = y[j]
           /\ \A i \in 1 .. m : y[i] >= c /\ y[i] >= y[m]
OBVIOUS

\* Smaller sizes R of the offenders that are still in order.
LEMMA CapRanked ==
    ASSUME NEW S \in [Addr -> Nat], NEW R \in [Addr -> Nat], NEW O \in Seq(Addr), NEW T \in SUBSET Addr,
           Ranked(S, O, T), O # <<>>,
           \A i, j \in 1 .. Len(O) - 1 : R[O[i]] = R[O[j]],
           \A i \in 1 .. Len(O) : R[O[i]] >= AccountSlots /\ R[O[i]] >= R[O[Len(O)]],
           T # {} => R[O[Len(O)]] = S[O[Len(O)]],
           \A b \in T : R[b] = S[b],
           \A b \in Addr : R[b] <= S[b]
    PROVE  /\ Ranked(R, O, T)
           /\ \A A : Accused(S, O, T, A) /\ A \subseteq Addr => Accused(R, O, T, A)
<1>1. Len(O) \in 1 .. Len(O) /\ \A i \in 1 .. Len(O) : O[i] \in Addr
  OBVIOUS
<1>2. ASSUME NEW i \in 1 .. Len(O), NEW a \in T PROVE R[O[i]] >= R[a]
  <2>1. R[O[i]] >= R[O[Len(O)]] /\ R[O[Len(O)]] >= S[a] /\ R[a] = S[a]
    BY <1>1, SMTT(30) DEF Ranked
  <2>2. R[O[i]] \in Nat /\ R[O[Len(O)]] \in Nat /\ S[a] \in Nat
    BY <1>1, Zenon
  <2> QED
    BY <2>1, <2>2
<1>3. Ranked(R, O, T)
  <2>1. /\ \A i, j \in 1 .. Len(O) : O[i] = O[j] => i = j
        /\ \A i \in 1 .. Len(O) : O[i] \notin T
        /\ \A a \in T : R[a] > AccountSlots
    BY Zenon DEF Ranked
  <2> QED
    BY <1>2, <2>1, Zenon DEF Ranked
<1>4. ASSUME NEW A, Accused(S, O, T, A), A \subseteq Addr PROVE Accused(R, O, T, A)
  <2>1. \A b \in A : S[b] <= AccountSlots => R[b] <= AccountSlots
    BY <1>4, LegacyPoolAssumption
  <2> QED
    BY <1>4, <2>1, Zenon DEF Accused
<1> QED
  BY <1>3, <1>4, Zenon

\* Steps of Equalize and Reduce.
LEMMA CapLimits == ASSUME IInv, LimitInv, Equalize \/ Reduce PROVE LimitInv'
<1> USE DEF chainVars, listVars, runVars, reqVars, addVars
<1> DEFINE m == Len(offenders)
           S == PendingSizes
<1>0. offenders \in Seq(Addr) /\ todo \in SUBSET Addr
  BY Zenon DEF IInv, TypeOK
<1>1. /\ stage = "truncatePending" /\ TooManyPending /\ m \in Nat
      /\ \A i \in 1 .. m : offenders[i] \in Addr
  BY <1>0 DEF Equalize, Reduce, Equalizing, Reducing
<1>2. /\ S \in [Addr -> Nat] /\ AccountSlots \in Nat \ {0}
      /\ \A b \in Addr : S[b] = Cardinality(pending[b])
  BY Sizes, LegacyPoolAssumption, Zenon DEF PendingSizes
<1>3. \A i \in 1 .. m : Size(i) = S[offenders[i]]
  BY <1>1, <1>2, Zenon DEF Size
<1>4. Ranked(S, offenders, todo) /\ Accused(S, offenders, todo, Addr \ locals)
  BY <1>1, Zenon DEF LimitInv, Penalized
<1> DEFINE Down(n) ==
       /\ \A i \in 1 .. n : PendingSizes'[offenders[i]] = S[offenders[i]] - 1
       /\ \A b \in Addr : (\A i \in 1 .. n : offenders[i] # b) => PendingSizes'[b] = S[b]
       /\ PendingSizes' \in [Addr -> Nat] /\ \A b \in Addr : PendingSizes'[b] <= S[b]
       /\ UNCHANGED <<stage, todo, offenders, locals>>
<1>5. ASSUME NEW n \in Nat, n <= m, CapOne(OffenderSet(n)) PROVE Down(n)
  <2>1. UNCHANGED <<stage, todo, offenders, locals>>
    BY <1>5, Zenon DEF CapOne
  <2>2. OffenderSet(n) \in SUBSET Addr /\ \A b \in Addr : b \in OffenderSet(n) <=> \E i \in 1 .. n : offenders[i] = b
    BY <1>1, <1>5 DEF OffenderSet
  <2>3. \A b \in Addr : pending[b] \in SUBSET Tx /\ Unique(pending[b])
    BY NonceTypes, Zenon DEF AccountOK, Unique
  <2>4. ASSUME NEW b \in Addr
        PROVE  /\ pending'[b] \subseteq pending[b]
               /\ b \in OffenderSet(n) /\ pending[b] # {} => Cardinality(pending'[b]) = Cardinality(pending[b]) - 1
               /\ b \notin OffenderSet(n) => pending'[b] = pending[b]
    <3>1. CASE b \in OffenderSet(n) /\ pending[b] # {}
      BY <1>5, <2>2, <2>3, <3>1, CapLists, CapSize, Zenon
    <3>2. CASE ~(b \in OffenderSet(n) /\ pending[b] # {})
      BY <1>5, <2>2, <3>2, CapLists
    <3> QED
      BY <3>1, <3>2, SMTT(30)
  <2>5. \A b \in Addr : Cardinality(pending'[b]) \in Nat /\ Cardinality(pending'[b]) <= Cardinality(pending[b])
    <3> TAKE b \in Addr
    <3>1. IsFiniteSet(pending[b]) /\ pending'[b] \in SUBSET pending[b] /\ pending'[b] \in SUBSET Tx
      BY <2>3, <2>4, ListSize, Zenon
    <3> QED
      BY <3>1, ListSize, FS_Subset, Zenon
  <2>6. PendingSizes' = [b \in Addr |-> Cardinality(pending'[b])]
    BY DEF PendingSizes
  <2>7. ASSUME NEW i \in 1 .. n PROVE PendingSizes'[offenders[i]] = S[offenders[i]] - 1
    <3>1. i \in 1 .. m /\ offenders[i] \in Addr /\ offenders[i] \in OffenderSet(n)
      BY <1>1, <1>5, <2>2
    <3>2. S[offenders[i]] >= AccountSlots
      BY <1>4, <3>1, Zenon DEF Ranked
    <3>3. pending[offenders[i]] # {}
      <4>1. Cardinality(pending[offenders[i]]) # 0
        BY <1>2, <3>1, <3>2
      <4> QED
        BY <4>1, FS_EmptySet, Zenon
    <3> QED
      BY <1>2, <2>4, <2>6, <3>1, <3>3, Zenon
  <2>8. \A b \in Addr : (\A i \in 1 .. n : offenders[i] # b) => PendingSizes'[b] = S[b]
    BY <1>2, <2>2, <2>4, <2>6, SMTT(30)
  <2> QED
    BY <1>2, <2>1, <2>5, <2>6, <2>7, <2>8, SMTT(30)
<1> DEFINE z == [i \in 1 .. m |-> S[offenders[i]]]
           y == [i \in 1 .. m |-> PendingSizes'[offenders[i]]]
           Low == /\ \A i, j \in 1 .. m - 1 : y[i] = y[j]
                  /\ \A i \in 1 .. m : y[i] >= AccountSlots /\ y[i] >= y[m]
<1>6. \A n \in Nat : Down(n) => z \in [1 .. m -> Nat] /\ y \in [1 .. m -> Nat]
  BY <1>1, <1>2, Zenon
<1> DEFINE Capped == m > 0 /\ Low /\ (todo # {} => y[m] = z[m]) /\ \E n \in 0 .. m : Down(n)
<1>7. ASSUME Equalize PROVE Capped
  <2>1. m > 1 /\ Size(m - 1) > Size(m) /\ CapOne(OffenderSet(m - 1)) /\ m - 1 \in Nat
    BY <1>1, <1>7 DEF Equalize, Equalizing
  <2>2. Down(m - 1)
    <3> HIDE DEF Down, m
    <3> QED
      BY <1>1, <1>5, <2>1
  <2>3. z[m - 1] > z[m] /\ \A i \in 1 .. m : z[i] = S[offenders[i]] /\ y[i] = PendingSizes'[offenders[i]]
    BY <1>1, <1>3, <2>1, SMTT(30)
  <2>4. /\ \A i, j \in 1 .. m - 1 : z[i] = z[j]
        /\ \A i \in 1 .. m : z[i] >= AccountSlots /\ z[i] >= z[m]
    BY <1>1, <1>4, <2>1 DEF Ranked
  <2>5. \A i \in 1 .. m - 1 : offenders[m] # offenders[i]
    BY <1>1, <1>4, <2>1 DEF Ranked
  <2>6. y[m] = z[m]
    BY <1>1, <2>1, <2>2, <2>3, <2>5
  <2>7. \A i \in 1 .. m - 1 : y[i] = z[i] - 1
    BY <1>1, <2>1, <2>2, <2>3
  <2>8. z \in [1 .. m -> Nat] /\ y \in [1 .. m -> Nat]
    BY <1>6, <2>1, <2>2, Zenon
  <2> HIDE DEF z, y, m, Down
  <2>9. Low
    BY <1>1, <1>2, <2>1, <2>3, <2>4, <2>6, <2>7, <2>8, EqualizeSizes, ZenonT(40)
  <2> QED
    BY <1>1, <2>1, <2>2, <2>6, <2>9
<1>8. ASSUME Reduce PROVE Capped
  <2>1. m > 0 /\ Size(m) > AccountSlots /\ CapOne(OffenderSet(m)) /\ todo = {} /\ ~Equalizing
    BY <1>0, <1>1, <1>8 DEF Reduce, Reducing
  <2>2. Down(m)
    <3> HIDE DEF Down, m
    <3> QED
      BY <1>1, <1>5, <2>1
  <2>3. \A i \in 1 .. m : z[i] = S[offenders[i]] /\ y[i] = PendingSizes'[offenders[i]]
    BY Zenon
  <2>4. \A i \in 1 .. m : z[i] = z[m] /\ z[i] > AccountSlots
    <3>1. ~(m > 1 /\ S[offenders[m - 1]] > S[offenders[m]])
      BY <1>1, <1>3, <2>1 DEF Equalizing
    <3>2. \A i \in 1 .. m : S[offenders[i]] = S[offenders[m]]
      <4> HIDE DEF S
      <4> QED
        BY <1>0, <1>2, <1>4, <3>1, OffendersEqual, Zenon
    <3>3. S[offenders[m]] > AccountSlots /\ m \in 1 .. m
      BY <1>1, <1>3, <2>1
    <3> HIDE DEF m, z, y
    <3> QED
      BY <2>3, <3>2, <3>3
  <2>5. \A i \in 1 .. m : y[i] = z[i] - 1
    BY <2>2, <2>3, Zenon
  <2>6. z \in [1 .. m -> Nat] /\ y \in [1 .. m -> Nat]
    BY <1>1, <1>6, <2>2, Zenon
  <2> HIDE DEF z, y, m, Down
  <2>7. Low
    BY <1>1, <1>2, <2>1, <2>4, <2>5, <2>6, ReduceSizes, SMTT(30)
  <2> QED
    BY <1>1, <2>1, <2>2, <2>7
<1>9. Capped
  BY <1>7, <1>8, Zenon
<1>10. UNCHANGED <<stage, todo, offenders, locals>> /\ PendingSizes' \in [Addr -> Nat]
       /\ \A b \in Addr : PendingSizes'[b] <= S[b]
  BY <1>9
<1>11. /\ \A i, j \in 1 .. m - 1 : PendingSizes'[offenders[i]] = PendingSizes'[offenders[j]]
       /\ \A i \in 1 .. m : /\ PendingSizes'[offenders[i]] >= AccountSlots
                            /\ PendingSizes'[offenders[i]] >= PendingSizes'[offenders[m]]
       /\ todo # {} => PendingSizes'[offenders[m]] = S[offenders[m]]
       /\ offenders # <<>>
  <2>1. \A i \in 1 .. m : z[i] = S[offenders[i]] /\ y[i] = PendingSizes'[offenders[i]]
    BY Zenon
  <2>2. m > 0 /\ Low /\ (todo # {} => y[m] = z[m]) /\ m \in 1 .. m /\ \A i \in 1 .. m - 1 : i \in 1 .. m
    <3> HIDE DEF m, z, y, Down
    <3> QED
      BY <1>1, <1>9
  <2>3. offenders # <<>>
    BY <2>2
  <2> HIDE DEF z, y, m
  <2> QED
    BY <2>1, <2>2, <2>3, SMTT(30)
<1>12. \A b \in todo : PendingSizes'[b] = S[b]
  <2>1. \A b \in todo, i \in 1 .. m : offenders[i] # b
    BY <1>4, Zenon DEF Ranked
  <2>2. PICK n \in 0 .. m : Down(n)
    BY <1>9
  <2>3. \A b \in todo, i \in 1 .. n : offenders[i] # b
    BY <1>1, <2>1
  <2> QED
    BY <1>0, <2>2, <2>3, Zenon
<1>13. Ranked(PendingSizes', offenders, todo) /\ Accused(PendingSizes', offenders, todo, Addr \ locals)
  <2> HIDE DEF S
  <2> QED
    BY <1>0, <1>2, <1>4, <1>10, <1>11, <1>12, CapRanked, Zenon
<1>18. Penalized'
  BY <1>10, <1>13, Zenon DEF Penalized
<1> QED
  BY <1>1, <1>9, <1>18, Zenon DEF LimitInv, PendingWithin, Dropping, QueueWithin
\* The end of truncatePending: if there are still too many transactions, the
\* offenders are all at the allowance, and nobody else is above it.
LEMMA PendingTruncatedLimits == ASSUME IInv, LimitInv, PendingTruncated PROVE LimitInv'
<1> USE DEF chainVars, listVars, runVars, reqVars, addVars
<1> DEFINE m == Len(offenders)
           S == PendingSizes
<1>0. offenders \in Seq(Addr) /\ todo \in SUBSET Addr /\ (stage = "truncatePending" => victims = {})
  BY Zenon DEF IInv, TypeOK
<1>1. /\ stage = "truncatePending" /\ ~Equalizing /\ ~Reducing /\ ~(TooManyPending /\ todo # {})
      /\ stage' = "truncateQueue" /\ todo' = NonEmpty(queue) \ locals
      /\ drop' = IF Total(queue) > GlobalQueue THEN Total(queue) - GlobalQueue ELSE 0
      /\ UNCHANGED <<pending, queue, locals, victims>>
  BY Zenon DEF PendingTruncated
<1>2. /\ S \in [Addr -> Nat] /\ AccountSlots \in Nat /\ GlobalQueue \in Nat /\ Total(queue) \in Nat
      /\ \A b \in Addr : S[b] = Cardinality(pending[b])
  BY Sizes, LegacyPoolAssumption, Zenon DEF PendingSizes
<1>3. Ranked(S, offenders, todo) /\ (TooManyPending => Accused(S, offenders, todo, Addr \ locals))
  BY <1>1, Zenon DEF LimitInv, Penalized
<1>4. m \in Nat /\ \A i \in 1 .. m : offenders[i] \in Addr /\ Size(i) = S[offenders[i]]
  BY <1>0, <1>2 DEF Size
<1>5. ASSUME TooManyPending PROVE \A a \in Addr \ locals : Cardinality(pending[a]) <= AccountSlots
  <2>1. \A i \in 1 .. m : S[offenders[i]] <= AccountSlots
    <3>1. ~(m > 1 /\ S[offenders[m - 1]] > S[offenders[m]])
      BY <1>1, <1>4, <1>5 DEF Equalizing
    <3>2. \A i \in 1 .. m : S[offenders[i]] = S[offenders[m]]
      <4> HIDE DEF S
      <4> QED
        BY <1>0, <1>2, <1>3, <3>1, OffendersEqual, Zenon
    <3>3. m > 0 => ~(S[offenders[m]] > AccountSlots) /\ S[offenders[m]] \in Nat
      BY <1>0, <1>1, <1>2, <1>4, <1>5 DEF Reducing
    <3> HIDE DEF m, S
    <3> QED
      BY <1>2, <1>4, <3>2, <3>3, SMTT(30)
  <2>2. todo = {}
    BY <1>1, <1>5, Zenon
  <2> QED
    BY <1>2, <1>3, <1>5, <2>1, <2>2, Zenon DEF Accused
<1>6. PendingWithin'
  BY <1>1, <1>5, Zenon DEF PendingWithin, TooManyPending, Total
<1>7. Dropping'
  <2>1. victims' = {} /\ Cardinality(victims') = 0
    BY <1>0, <1>1, FS_EmptySet, Zenon
  <2>2. drop' \in Nat /\ Total(queue) <= GlobalQueue + drop' + Cardinality(victims')
    <3> DEFINE t == Total(queue)
               v == Cardinality(victims')
    <3>1. t \in Nat /\ GlobalQueue \in Nat /\ v = 0
      BY <1>2, <2>1, Zenon
    <3>2. drop' = IF t > GlobalQueue THEN t - GlobalQueue ELSE 0
      BY <1>1, Zenon
    <3> HIDE DEF t, v
    <3>3. drop' \in Nat /\ t <= GlobalQueue + drop' + v
      BY <3>1, <3>2
    <3> QED
      BY <3>3, Zenon DEF t, v
  <2>3. \A a \in Addr \ locals : a \in todo' \/ queue[a] = {}
    BY <1>1, Zenon DEF NonEmpty
  <2>4. Total(queue') = Total(queue)
    BY <1>1, Zenon
  <2> QED
    BY <1>1, <2>1, <2>2, <2>3, <2>4, Zenon DEF Dropping, Total
<1> QED
  BY <1>1, <1>6, <1>7, Zenon DEF LimitInv, Penalized, QueueWithin

\* When v more are marked and e remain of the d to drop, what is above the
\* limit g is still covered.
LEMMA StillCovered ==
  ASSUME NEW t \in Nat, NEW g \in Nat, NEW d \in Nat, NEW u \in Nat, NEW e \in Nat, NEW v \in Nat,
         t <= g + d + u, u = 0, e + v >= d
  PROVE  t <= g + e + v
  OBVIOUS

\* truncateQueue marks the queue of one account, or the end of it.
LEMMA TruncateQueueLimits == ASSUME IInv, LimitInv, NEW a \in Addr, truncateQueue(a) PROVE LimitInv'
<1> USE DEF chainVars, listVars, runVars, reqVars, addVars
<1> DEFINE size == Cardinality(queue[a])
<1>1. /\ stage = "truncateQueue" /\ victims = {} /\ drop > 0 /\ a \in todo
      /\ todo' = todo \ {a} /\ UNCHANGED <<pending, queue, locals, stage>>
      /\ IF size <= drop THEN victims' = queue[a] /\ drop' = drop - size
                         ELSE victims' = Excess(queue[a], size - drop) /\ drop' = 0
  BY Zenon DEF truncateQueue
<1>2. size \in Nat /\ GlobalQueue \in Nat /\ Total(queue) \in Nat /\ queue[a] \in SUBSET Tx
  BY Sizes, LegacyPoolAssumption, NonceTypes, Zenon DEF AccountOK
<1>3. /\ drop \in Nat /\ Total(queue) <= GlobalQueue + drop + Cardinality(victims)
      /\ \A b \in Addr \ locals : b \in todo \/ queue[b] \subseteq victims
  BY <1>1, Zenon DEF LimitInv, Dropping
<1>4. Cardinality(victims) = 0
  BY <1>1, FS_EmptySet, Zenon
<1>5. /\ victims' \subseteq queue[a] /\ Cardinality(victims') \in Nat
      /\ drop' \in Nat /\ drop' + Cardinality(victims') >= drop
      /\ drop' > 0 => victims' = queue[a]
  <2>1. CASE size <= drop
    <3>1. victims' = queue[a] /\ drop' = drop - size /\ Cardinality(victims') = size
      BY <1>1, <2>1, Zenon
    <3>2. size \in Nat /\ drop \in Nat
      BY <1>2, <1>3, Zenon
    <3> HIDE DEF size
    <3>3. drop' \in Nat /\ drop' + size >= drop
      BY <2>1, <3>1, <3>2
    <3> QED
      BY <3>1, <3>2, <3>3, Zenon
  <2>2. CASE ~(size <= drop)
    <3>1. size - drop \in Nat /\ victims' = Excess(queue[a], size - drop) /\ drop' = 0
      BY <1>1, <1>2, <1>3, <2>2
    <3>2. Cardinality(victims') >= size - (size - drop) /\ victims' \in SUBSET queue[a]
      BY <1>2, <3>1, ExcessSize, Zenon
    <3>3. Cardinality(victims') \in Nat
      BY <1>2, <3>2, ListSize
    <3> DEFINE v == Cardinality(victims')
    <3>4. v \in Nat /\ v >= size - (size - drop)
      BY <3>2, <3>3, Zenon
    <3>5. size \in Nat /\ drop \in Nat
      BY <1>2, <1>3, Zenon
    <3> HIDE DEF size, v
    <3>6. drop' \in Nat /\ drop' + v >= drop /\ ~(drop' > 0)
      BY <3>1, <3>4, <3>5
    <3> QED
      BY <3>2, <3>3, <3>6, Zenon DEF v
  <2> QED
    BY <2>1, <2>2
<1>6. Dropping'
  <2>1. Total(queue) <= GlobalQueue + drop' + Cardinality(victims')
    <3> DEFINE t == Total(queue)
               u == Cardinality(victims)
               v == Cardinality(victims')
    <3>1. /\ t \in Nat /\ GlobalQueue \in Nat /\ drop \in Nat
          /\ t <= GlobalQueue + drop + u /\ u = 0
      BY <1>2, <1>3, <1>4, Zenon
    <3>2. drop' \in Nat /\ v \in Nat /\ drop' + v >= drop
      BY <1>5, Zenon
    <3> HIDE DEF t, u, v
    <3>3. u \in Nat
      BY <3>1
    <3>4. t <= GlobalQueue + drop' + v
      BY <3>1, <3>2, <3>3, StillCovered, Zenon
    <3> QED
      BY <3>4, Zenon DEF t, v
  <2>2. drop' > 0 => \A b \in Addr \ locals : b \in todo' \/ queue[b] \subseteq victims'
    BY <1>1, <1>3, <1>5, SMTT(30)
  <2>3. Total(queue)' = Total(queue) /\ Queued' = Queued /\ victims' \subseteq Queued
    BY <1>1, <1>5, Zenon DEF Total, Queued
  <2> QED
    BY <1>1, <1>5, <2>1, <2>2, <2>3, SMTT(30) DEF Dropping
<1>7. PendingWithin'
  BY <1>1, Zenon DEF LimitInv, PendingWithin, TooManyPending, Total
<1> QED
  BY <1>1, <1>6, <1>7, Zenon DEF LimitInv, Penalized, QueueWithin

\* A marked transaction is dropped from the queue: the queues and the marks
\* lose one transaction each.
LEMMA RemoveVictimLimits == ASSUME IInv, LimitInv, NEW t \in victims, RemoveVictim(t) PROVE LimitInv'
<1> USE DEF chainVars, listVars, runVars, reqVars, addVars
<1>1. stage' = stage /\ stage \in {"insert", "purge", "truncateQueue"} /\ UNCHANGED <<todo, drop, locals>>
  BY Zenon DEF RemoveVictim, IInv, TypeOK
<1>2. CASE stage # "truncateQueue"
  BY <1>1, <1>2, QuietLimits, Zenon
<1>3. CASE stage = "truncateQueue"
  <2> DEFINE a == t.from
  <2>1. victims \subseteq Queued /\ drop \in Nat
        /\ Total(queue) <= GlobalQueue + drop + Cardinality(victims)
        /\ (drop > 0 => \A b \in Addr \ locals : b \in todo \/ queue[b] \subseteq victims)
    BY <1>3, Zenon DEF LimitInv, Dropping
  <2>2. \A b \in Addr : AccountOK(b, pending[b], queue[b])
    BY NonceTypes, Zenon
  <2>3. a \in Addr /\ t \in queue[a] /\ \A b \in Addr : t \in queue[b] => b = a
    <3>1. PICK b \in Addr : t \in queue[b]
      BY <2>1, Zenon DEF Queued
    <3>2. \A c \in Addr : t \in queue[c] => t.from = c
      BY <2>2, Zenon DEF AccountOK
    <3> QED
      BY <3>1, <3>2, Zenon
  <2>4. t \in all
    BY <2>3 DEF IInv, ListsOK
  <2>5. ~InPending(t) /\ Old(queue[a], t) = {t}
    <3>1. AccountOK(a, pending[a], queue[a])
      BY <2>2, <2>3, Zenon
    <3>2. ~\E u \in pending[a] : u.nonce = t.nonce
      BY <2>3, <3>1, Zenon DEF AccountOK, Unique
    <3>3. \A u \in queue[a] : u.nonce = t.nonce => u = t
      BY <2>3, <3>1, ZenonT(40) DEF AccountOK, Unique
    <3> HIDE DEF a
    <3> QED
      BY <2>3, <3>2, <3>3, Zenon DEF InPending, Has, Old, a
  <2>6. victims' = victims \ {t} /\ removeTx(t)
    BY <2>4, Zenon DEF RemoveVictim
  <2>7. queue' = [queue EXCEPT ![a] = queue[a] \ {t}] /\ pending' = pending
    BY <2>5, <2>6, Zenon DEF removeTx
  <2>8. queue \in [Addr -> SUBSET Tx]
    BY Zenon DEF IInv, TypeOK
  <2>9. \A b \in Addr : queue'[b] = queue[b] \ {t}
    BY <2>3, <2>7, <2>8, Zenon
  <2>10. Queued' = Queued \ {t}
    BY <2>9 DEF Queued
  <2>11. Total(queue) = Cardinality(Queued) /\ Total(queue)' = Cardinality(Queued')
    BY Zenon DEF Total, Queued
  <2>12. t \in Queued
    BY <2>3, Zenon DEF Queued
  <2>13. /\ Cardinality(Queued \ {t}) = Cardinality(Queued) - 1
         /\ Cardinality(victims \ {t}) = Cardinality(victims) - 1
         /\ Total(queue) \in Nat /\ Cardinality(victims) \in Nat /\ GlobalQueue \in Nat
    BY <2>12, Sizes, FS_RemoveElement, LegacyPoolAssumption, Zenon
  <2>14. Total(queue)' <= GlobalQueue + drop' + Cardinality(victims')
    <3>1. Total(queue)' = Total(queue) - 1 /\ Cardinality(victims') = Cardinality(victims) - 1 /\ drop' = drop
      BY <1>1, <2>6, <2>10, <2>11, <2>13, ZenonT(40)
    <3> QED
      BY <2>1, <2>13, <3>1
  <2>15. drop' > 0 => \A b \in Addr \ locals' : b \in todo' \/ queue'[b] \subseteq victims'
    BY <1>1, <2>1, <2>6, <2>9, SMTT(30)
  <2>16. Dropping'
    BY <1>1, <2>1, <2>6, <2>10, <2>14, <2>15, SMTT(30) DEF Dropping
  <2>17. PendingWithin'
    BY <1>1, <1>3, <2>7, SMTT(30) DEF LimitInv, PendingWithin, TooManyPending, Total
  <2> QED
    BY <1>1, <1>3, <2>16, <2>17 DEF LimitInv, Penalized, QueueWithin
<1> QED
  BY <1>2, <1>3, Zenon

\* The end of truncateQueue: enough is dropped, or nothing is left to drop.
LEMMA QueueTruncatedLimits == ASSUME IInv, LimitInv, QueueTruncated PROVE LimitInv'
<1> USE DEF chainVars, listVars, runVars, reqVars, addVars
<1>1. /\ stage = "truncateQueue" /\ victims = {} /\ (drop = 0 \/ todo = {})
      /\ stage' = "finish" /\ UNCHANGED <<pending, queue, locals>>
  BY Zenon DEF QueueTruncated
<1>2. /\ drop \in Nat /\ Total(queue) <= GlobalQueue + drop + Cardinality(victims)
      /\ drop > 0 => \A b \in Addr \ locals : b \in todo \/ queue[b] \subseteq victims
  BY <1>1, Zenon DEF LimitInv, Dropping
<1>3. Cardinality(victims) = 0 /\ GlobalQueue \in Nat /\ Total(queue) \in Nat
  BY <1>1, FS_EmptySet, Sizes, LegacyPoolAssumption
<1>4. Total(queue) > GlobalQueue => NonEmpty(queue) \subseteq locals
  <2>1. Total(queue) > GlobalQueue => drop > 0
    BY <1>2, <1>3
  <2>2. drop > 0 => \A b \in Addr \ locals : queue[b] = {}
    BY <1>1, <1>2
  <2> QED
    BY <2>1, <2>2, Zenon DEF NonEmpty
<1>5. QueueWithin'
  BY <1>1, <1>4, Zenon DEF QueueWithin, Total, NonEmpty
<1>6. PendingWithin'
  BY <1>1, Zenon DEF LimitInv, PendingWithin, TooManyPending, Total
<1> QED
  BY <1>1, <1>5, <1>6, Zenon DEF LimitInv, Penalized, Dropping

LEMMA NextLimitInv == ASSUME IInv, LimitInv, [Next]_vars PROVE LimitInv'
<1>1. CASE Chain
  BY <1>1, OtherLimits, Zenon
<1>2. CASE Adding
  BY <1>2, OtherLimits, RemoveVictimLimits, Zenon DEF Adding
<1>3. CASE Purging
  BY <1>3, OtherLimits, Zenon
<1>4. CASE runReorg
  BY SMTT(30), <1>4, OtherLimits, SpammersLimits, PopLimits, CapLimits, PendingTruncatedLimits, TruncateQueueLimits,
     QueueTruncatedLimits DEF runReorg
<1>5. CASE UNCHANGED vars
  BY <1>5, QuietLimits, Zenon DEF vars, chainVars, listVars, runVars, reqVars, addVars
<1> QED
  BY <1>1, <1>2, <1>3, <1>4, <1>5, Zenon DEF Next

LEMMA InitLimitInv == Init => LimitInv
BY Zenon DEF Init, LimitInv, Penalized, PendingWithin, Dropping, QueueWithin

\* Whatever the accounts, the limits and the order in which the accounts were
\* promoted: truncatePending ends with every remote account at its allowance
\* or the pool within GlobalSlots, truncateQueue with no remote queue or the
\* queues within GlobalQueue, and on the way no account is cut below its
\* allowance or below an account that was not penalized yet (Truncation).
THEOREM PoolTruncation == Spec => []Truncation
<1>1. IInv /\ LimitInv /\ [Next]_vars => LimitInv'
  BY NextLimitInv, Zenon
<1>2. IInv /\ LimitInv => Truncation
  <2> SUFFICES ASSUME IInv, LimitInv PROVE Truncation
    BY Zenon
  <2>1. WithinLimits
    BY Zenon DEF LimitInv, PendingWithin, QueueWithin, WithinLimits
  <2>2. ASSUME stage = "truncatePending", NEW i \in 1 .. Len(offenders)
        PROVE  Size(i) >= AccountSlots /\ \A a \in todo : Size(i) >= Cardinality(pending[a])
    <3>1. offenders \in Seq(Addr) /\ todo \in SUBSET Addr
      BY Zenon DEF IInv, TypeOK
    <3>2. Ranked(PendingSizes, offenders, todo)
      BY <2>2, Zenon DEF LimitInv, Penalized
    <3>3. /\ PendingSizes[offenders[i]] >= AccountSlots
          /\ \A a \in todo : PendingSizes[offenders[i]] >= PendingSizes[a]
      BY <3>2, Zenon DEF Ranked
    <3>4. PendingSizes[offenders[i]] = Size(i) /\ \A a \in todo : PendingSizes[a] = Cardinality(pending[a])
      BY <3>1 DEF PendingSizes, Size
    <3> QED
      BY <3>3, <3>4, Zenon
  <2> QED
    BY <2>1, <2>2, Zenon DEF Truncation, LargestFirst
<1> QED
  BY InitLimitInv, SpecIInv, <1>1, <1>2, PTL DEF Spec
=============================================================================
