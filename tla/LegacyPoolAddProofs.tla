------------------------ MODULE LegacyPoolAddProofs ------------------------
(***************************************************************************)
(* The inductive invariant of the transaction pool, the facts about its    *)
(* lists that the proofs rest on, and the proof that the steps of an add,  *)
(* of a removal and of the chain keep it, as do those steps of a run that  *)
(* move nothing from one list to the other.                                *)
(*                                                                         *)
(* The inductive invariant adds to the properties of the lists: whose      *)
(* transactions a list holds, that the transaction being added is unknown, *)
(* and which transactions a loop may have marked for removal.              *)
(***************************************************************************)
EXTENDS LegacyPool, FiniteSetTheorems, TLAPS

\* The lists of account a hold transactions of a, with distinct nonces.
AccountOK(a, P, Q) ==
    /\ P \subseteq Tx /\ Q \subseteq Tx
    /\ \A t \in P \cup Q : t.from = a
    /\ Unique(P \cup Q)
    /\ P \cap Q = {}

\* The lists p and q of all accounts are well formed, and A is the lookup.
ListsOK(p, q, A) ==
    /\ p \in [Addr -> SUBSET Tx] /\ q \in [Addr -> SUBSET Tx]
    /\ \A a \in Addr : AccountOK(a, p[a], q[a])
    /\ A = UNION {p[a] \cup q[a] : a \in Addr}

\* Remote transactions, and those about to be removed, are not of local
\* accounts; nor are the accounts that truncation works on.
Remotely ==
    /\ \A t \in remotes \cup victims : t.from \notin locals
    /\ stage = "truncatePending" =>
          /\ todo \cap locals = {}
          /\ \A i \in 1 .. Len(offenders) : offenders[i] \notin locals
    /\ stage # "truncatePending" => offenders = <<>>
    /\ stage = "truncateQueue" => todo \cap locals = {}
    /\ stage = "insert" => (job.isLocal <=> (job.local \/ job.tx.from \in locals))

IInv ==
    /\ TypeOK
    /\ ListsOK(pending, queue, all)
    /\ stage = "insert" => job.tx \notin all
    /\ QueuedHasHeartbeat
    /\ Remotely

\* What LocalsKept says of a step.
Keeps == \A t \in all \ all' : t.from \in locals => LeavesRightly(t)

-----------------------------------------------------------------------------
(* The lists of one account. *)

\* A non-empty bounded set of naturals has a largest element.
LEMMA LargestNatural ==
    ASSUME NEW S \in SUBSET Nat, S # {}, NEW m \in Nat, \A s \in S : s <= m
    PROVE  \E x \in S : \A y \in S : y <= x
<1> DEFINE T == {m - s : s \in S}
           R == OpToRel(<, Nat)
<1>1. T \subseteq Nat /\ T # {}
  <2>1. PICK s \in S : TRUE
    BY ZenonT(60)
  <2>2. m - s \in T
    BY Zenon
  <2>3. \A r \in S : m - r \in Nat
    OBVIOUS
  <2> QED
    BY <2>2, <2>3, Zenon
<1>2. IsWellFoundedOn(R, Nat)
  BY NatLessThanWellFounded, Zenon
<1>3. PICK t \in T : \A u \in T : <<u, t>> \notin R
  <2> HIDE DEF T, R
  <2> QED
    BY <1>1, <1>2, WFMin, ZenonT(60)
<1>4. \A u \in T : ~(u < t)
  BY <1>1, <1>3, ZenonT(60) DEF OpToRel
<1>5. PICK x \in S : t = m - x
  BY <1>3, Zenon
<1>6. ASSUME NEW y \in S PROVE y <= x
  <2>1. m - y \in T
    BY Zenon
  <2>2. ~(m - y < m - x)
    BY <1>4, <1>5, <2>1, ZenonT(60)
  <2> QED
    BY <2>2
<1> QED
  BY <1>6, Zenon

\* The fields of a transaction.
LEMMA TxFields == \A t \in Tx : t.from \in Addr /\ t.nonce \in Nat /\ t.fee \in Nat
<1> SUFFICES ASSUME NEW t \in Tx PROVE t.from \in Addr /\ t.nonce \in Nat /\ t.fee \in Nat
  BY Zenon
<1>1. t.from \in Addr /\ t.nonce \in Nonce /\ t.fee \in Fee
  BY Zenon DEF Tx
<1>2. Nonce \subseteq Nat /\ Fee \subseteq Nat
  BY NonceListAssumption DEF Nonce
<1> QED
  BY <1>1, <1>2, ZenonT(60)

\* list.LastElement: a non-empty list has a transaction of highest nonce.
LEMMA LastExists ==
    ASSUME NEW L \in SUBSET Tx, L # {}
    PROVE  Last(L) # {} /\ Last(L) \subseteq L
<1> DEFINE S == {t.nonce : t \in L}
<1>1. MaxNonce \in Nat
  BY NonceListAssumption, Zenon
<1>2. S \in SUBSET Nat /\ S # {} /\ \A s \in S : s <= MaxNonce
  BY <1>1 DEF Tx, Nonce
<1>3. PICK x \in S : \A y \in S : y <= x
  <2> HIDE DEF S
  <2> QED
    BY <1>1, <1>2, LargestNatural, ZenonT(60)
<1>4. PICK t \in L : x = t.nonce
  BY <1>3, Zenon
<1>5. t \in Last(L)
  BY <1>3, <1>4, Zenon DEF Last
<1> QED
  BY <1>5, Zenon DEF Last

\* There are finitely many transactions.
LEMMA TxFinite == IsFiniteSet(Tx)
<1> DEFINE P == Addr \X Nonce
           Q == P \X Fee
           f == [q \in Q |-> [from |-> q[1][1], nonce |-> q[1][2], fee |-> q[2]]]
<1>1. IsFiniteSet(Nonce)
  BY NonceListAssumption, FS_Interval DEF Nonce
<1>2. IsFiniteSet(P)
  BY <1>1, FS_Product, NonceListAssumption, Zenon
<1>3. IsFiniteSet(Q)
  <2> HIDE DEF P
  <2> QED
    BY <1>2, FS_Product, NonceListAssumption, Zenon
<1>4. f \in Surjection(Q, Tx)
  <2>1. f \in [Q -> Tx]
    BY Zenon DEF Tx
  <2>2. ASSUME NEW t \in Tx PROVE \E q \in Q : f[q] = t
    <3>1. <<<<t.from, t.nonce>>, t.fee>> \in Q
      BY Zenon DEF Tx
    <3>2. f[<<<<t.from, t.nonce>>, t.fee>>] = t
      BY <3>1, Zenon DEF Tx
    <3> QED
      BY <3>1, <3>2, Zenon
  <2> QED
    BY <2>1, <2>2, Zenon DEF Surjection
<1> QED
  <2> HIDE DEF Q, f
  <2> QED
    BY <1>3, <1>4, FS_Surjection, Zenon

\* The size of a list is a natural number.
LEMMA ListSize ==
    ASSUME NEW L \in SUBSET Tx
    PROVE  IsFiniteSet(L) /\ Cardinality(L) \in Nat
BY TxFinite, FS_Subset, FS_CardinalityType, Zenon

\* Moving transactions of one list of an account to the other neither refuses
\* nor replaces any, because the two lists have distinct nonces.
LEMMA MoveIsUnion ==
    ASSUME NEW P \in SUBSET Tx, NEW Q \in SUBSET Tx, Unique(P \cup Q), P \cap Q = {},
           NEW X \in SUBSET P
    PROVE  /\ RejectedOf(Q, X) = {}
           /\ ReplacedOf(Q, X) = {}
           /\ PutAll(Q, X) = Q \cup X
<1>1. RejectedOf(Q, X) = {}
  BY Zenon DEF RejectedOf, Rejects, Unique
<1>2. ReplacedOf(Q, X) = {}
  BY Zenon DEF ReplacedOf, Unique
<1> QED
  BY <1>1, <1>2, Zenon DEF PutAll

-----------------------------------------------------------------------------
(* The lists of all accounts. *)

\* Changing the lists of one account, and the lookup with them.
LEMMA UpdateOne ==
    ASSUME NEW p, NEW q, NEW A, ListsOK(p, q, A),
           NEW a \in Addr, NEW P, NEW Q, AccountOK(a, P, Q),
           NEW B, B = (A \ (p[a] \cup q[a])) \cup P \cup Q
    PROVE  ListsOK([p EXCEPT ![a] = P], [q EXCEPT ![a] = Q], B)
<1> DEFINE pp == [p EXCEPT ![a] = P]
           qq == [q EXCEPT ![a] = Q]
<1>1. pp \in [Addr -> SUBSET Tx] /\ qq \in [Addr -> SUBSET Tx]
  BY Zenon DEF ListsOK, AccountOK
<1>2. ASSUME NEW b \in Addr PROVE AccountOK(b, pp[b], qq[b])
  <2>1. CASE b = a
    BY <2>1, Zenon DEF ListsOK
  <2>2. CASE b # a
    BY <2>2, Zenon DEF ListsOK
  <2> QED
    BY <2>1, <2>2, Zenon
<1>3. ASSUME NEW t PROVE t \in B <=> t \in UNION {pp[b] \cup qq[b] : b \in Addr}
  <2>1. ASSUME t \in B PROVE \E b \in Addr : t \in pp[b] \cup qq[b]
    <3>1. CASE t \in P \cup Q
      BY <3>1, Zenon DEF ListsOK
    <3>2. CASE t \in A /\ t \notin p[a] \cup q[a]
      <4>1. PICK b \in Addr : t \in p[b] \cup q[b]
        BY <3>2, Zenon DEF ListsOK
      <4>2. b # a
        BY <3>2, <4>1, Zenon
      <4> QED
        BY <4>1, <4>2, Zenon DEF ListsOK
    <3> QED
      BY <2>1, <3>1, <3>2, Zenon
  <2>2. ASSUME NEW b \in Addr, t \in pp[b] \cup qq[b] PROVE t \in B
    <3>1. CASE b = a
      BY <2>2, <3>1, Zenon DEF ListsOK
    <3>2. CASE b # a
      <4>1. t \in p[b] \cup q[b]
        BY <2>2, <3>2, Zenon DEF ListsOK
      <4>2. t \in A
        BY <4>1, Zenon DEF ListsOK
      <4>4. t.from = b
        BY <4>1, ZenonT(60) DEF ListsOK, AccountOK
      <4>3. t \notin p[a] \cup q[a]
        BY <4>4, <3>2, ZenonT(60) DEF ListsOK, AccountOK
      <4> QED
        BY <4>2, <4>3, Zenon
    <3> QED
      BY <3>1, <3>2, Zenon
  <2> QED
    BY <2>1, <2>2, Zenon
<1>4. B = UNION {pp[b] \cup qq[b] : b \in Addr}
  <2> HIDE DEF pp, qq
  <2> QED
    BY <1>3, Zenon
<1> QED
  BY <1>1, <1>2, <1>4, Zenon DEF ListsOK

\* Where a known transaction is.
LEMMA KnownIsListed ==
    ASSUME NEW p, NEW q, NEW A, ListsOK(p, q, A), NEW t \in A
    PROVE  /\ t \in Tx /\ t.from \in Addr
           /\ t \in p[t.from] \cup q[t.from]
           /\ Has(p[t.from], t.nonce) <=> t \in p[t.from]
<1>1. PICK a \in Addr : t \in p[a] \cup q[a]
  BY Zenon DEF ListsOK
<1>2. t.from = a /\ t \in Tx
  BY <1>1, ZenonT(60) DEF ListsOK, AccountOK
<1>3. AccountOK(a, p[a], q[a])
  BY Zenon DEF ListsOK
<1>4. ASSUME Has(p[a], t.nonce) PROVE t \in p[a]
  <2>1. PICK u \in p[a] : u.nonce = t.nonce
    BY <1>4, Zenon DEF Has
  <2>2. u = t
    BY <1>1, <1>3, <2>1, Zenon DEF AccountOK, Unique
  <2> QED
    BY <2>1, <2>2, Zenon
<1>5. t \in p[a] => Has(p[a], t.nonce)
  BY Zenon DEF Has
<1> QED
  BY <1>1, <1>2, <1>4, <1>5, Zenon

\* NoJob is a job.
LEMMA NoJobType == NoJob \in [tx : Tx, local : BOOLEAN, isLocal : BOOLEAN]
<1>1. PICK a \in Addr, f \in Fee : TRUE
  BY NonceListAssumption, ZenonT(60)
<1>2. [from |-> a, nonce |-> 0, fee |-> f] \in Tx
  BY NonceListAssumption DEF Tx, Nonce
<1> QED
  BY <1>2, Zenon DEF NoJob

\* A transaction that replaces one of its nonce in the list L, or is added to
\* it, leaves distinct nonces.
LEMMA PutOK ==
    ASSUME NEW a, NEW L, NEW M, AccountOK(a, L, M), NEW t \in Tx, t.from = a,
           t \notin L \cup M, ~Has(M, t.nonce)
    PROVE  /\ AccountOK(a, Put(L, t), M)
           /\ AccountOK(a, M, Put(L, t))
<1>1. \A u \in (L \ Old(L, t)) \cup M : u.nonce # t.nonce
  BY Zenon DEF Old, Has
<1>2. Unique(Put(L, t) \cup M) /\ Unique(M \cup Put(L, t))
  BY <1>1, Zenon DEF Put, AccountOK, Unique
<1>3. Put(L, t) \subseteq Tx /\ \A u \in Put(L, t) \cup M : u.from = a
  BY DEF Put, AccountOK
<1>4. Put(L, t) \cap M = {}
  BY Zenon DEF Put, AccountOK
<1> QED
  BY <1>2, <1>3, <1>4 DEF AccountOK

\* The lookup after t has taken the place of the transactions in `gone`.
LEMMA LookupAfterPut ==
    ASSUME NEW t, NEW loc \in BOOLEAN, NEW gone, NEW migrated, migrated \subseteq remotes \ gone,
           t \notin gone, AddToLookup(t, loc, gone, migrated)
    PROVE  all' = (all \ gone) \cup {t}
<1>1. remotes' \cup localTxs' =
        ((remotes \ gone) \ migrated) \cup (localTxs \ gone) \cup migrated \cup {t}
  <2>1. CASE loc
    BY <2>1, Zenon DEF AddToLookup
  <2>2. CASE ~loc
    BY <2>2, Zenon DEF AddToLookup
  <2> QED
    BY <2>1, <2>2, Zenon
<1> QED
  BY <1>1, Zenon DEF all

\* An empty pool satisfies the invariant.
LEMMA InitIInv == Init => IInv
<1> SUFFICES ASSUME Init PROVE IInv
  BY Zenon
<1>1. TypeOK
  <2>1. stNonce \in [Addr -> Nat] /\ stBal \in [Addr -> Nat]
    BY LegacyPoolAssumption, ZenonT(60) DEF Init
  <2>2. /\ pending \in [Addr -> SUBSET Tx] /\ queue \in [Addr -> SUBSET Tx]
        /\ pnonce \in [Addr -> Nat] /\ fallback \in [Addr -> Nat]
    BY Zenon DEF Init
  <2>3. job \in [tx : Tx, local : BOOLEAN, isLocal : BOOLEAN]
    BY NoJobType, Zenon DEF Init
  <2>4. stage \in Stages /\ offenders \in Seq(Addr) /\ run \in {"idle", "launched", "locked", "sending"}
    BY DEF Init, Stages
  <2>5. run # "locked" /\ stage = "free"
    BY Zenon DEF Init
  <2> QED
    BY <2>1, <2>2, <2>3, <2>4, <2>5, ZenonT(60) DEF Init, TypeOK
<1>2. ListsOK(pending, queue, all)
  BY Zenon DEF Init, ListsOK, AccountOK, Unique, all
<1>3. QueuedHasHeartbeat /\ Remotely
  BY Zenon DEF Init, QueuedHasHeartbeat, NonEmpty, Remotely
<1> QED
  BY <1>1, <1>2, <1>3, Zenon DEF IInv, Init

-----------------------------------------------------------------------------
(***************************************************************************)
(* The steps of add, of the two loops that remove transactions, and of the *)
(* executor keep the inductive invariant.                                  *)
(***************************************************************************)

\* Steps of the executor, and requests, touch none of the pool's lists.
LEMMA ChainStep == ASSUME IInv, Chain PROVE IInv'
<1> USE DEF chainVars, listVars, runVars, reqVars, addVars
<1>1. UNCHANGED <<listVars, runVars, dirty, events, addVars, stage, victims, fallback, gasTip>>
  BY Zenon DEF Chain, StateWrite, Transfer, Rollback, RequestReset
<1>2. TypeOK'
  <2>1. /\ stNonce' \in [Addr -> Nat] /\ stBal' \in [Addr -> Nat]
        /\ rollbacks' \in Nat /\ heads' \in Nat
        /\ launch' \in BOOLEAN /\ resetReq' \in BOOLEAN
    <3>1. ASSUME NEW a \in Addr, StateWrite(a) \/ Transfer(a) \/ Rollback(a)
          PROVE  /\ stNonce' \in [Addr -> Nat] /\ stBal' \in [Addr -> Nat]
                 /\ rollbacks' \in Nat /\ heads' = heads /\ launch' = launch /\ resetReq' = resetReq
      <4>1. stNonce' \in [Addr -> Nat]
        <5>1. CASE StateWrite(a)
          BY <5>1 DEF IInv, TypeOK, StateWrite
        <5>2. CASE Transfer(a)
          BY <5>2, Zenon DEF IInv, TypeOK, Transfer
        <5>3. CASE Rollback(a)
          <6>1. stNonce[a] - 1 \in Nat
            BY <5>3 DEF IInv, TypeOK, Rollback
          <6> QED
            BY <5>3, <6>1, Zenon DEF IInv, TypeOK, Rollback
        <5> QED
          BY <3>1, <5>1, <5>2, <5>3, Zenon
      <4>2. \E b \in Nat : stBal' = [stBal EXCEPT ![a] = b]
        BY <3>1, LegacyPoolAssumption, Zenon DEF StateWrite, Transfer, Rollback
      <4>3. stBal' \in [Addr -> Nat]
        BY <4>2, Zenon DEF IInv, TypeOK
      <4> QED
        <5>1. rollbacks' \in Nat
          BY <3>1, SMTT(60) DEF IInv, TypeOK, StateWrite, Transfer, Rollback
        <5>2. heads' = heads /\ launch' = launch /\ resetReq' = resetReq
          BY <3>1, Zenon DEF StateWrite, Transfer, Rollback
        <5> QED
          BY <4>1, <4>3, <5>1, <5>2
    <3>2. CASE RequestReset
      BY <3>2, SMTT(30) DEF IInv, TypeOK, RequestReset
    <3> QED
      BY <3>1, <3>2, Zenon DEF IInv, TypeOK, Chain
  <2> QED
    BY <1>1, <2>1, Zenon DEF IInv, TypeOK
<1>3. all' = all /\ QueuedHasHeartbeat' /\ Remotely'
  BY <1>1, Zenon DEF IInv, all, QueuedHasHeartbeat, NonEmpty, Remotely
<1> QED
  BY <1>1, <1>2, <1>3, Zenon DEF IInv, ListsOK

\* What add does before it changes the lists: the victims are remote.
LEMMA AddStep ==
    ASSUME IInv,
           \/ \E t \in Tx, local \in Source : AddBegin(t, local)
           \/ \E r \in inflight : AddRefused(r) \/ AddAccepted(r)
    PROVE  IInv'
<1> USE DEF chainVars, listVars, runVars, reqVars, addVars
<1>1. CASE \E t \in Tx, local \in Source : AddBegin(t, local)
  <2>1. PICK t \in Tx, local \in Source : AddBegin(t, local)
    BY <1>1, Zenon
  <2>2. TypeOK'
    BY <2>1, LegacyPoolAssumption DEF IInv, TypeOK, AddBegin
  <2>3. UNCHANGED <<all, listVars, stage, job, victims, todo, offenders, locals>>
    BY <2>1, Zenon DEF AddBegin, all
  <2> QED
    BY <2>2, <2>3, Zenon DEF IInv, QueuedHasHeartbeat, NonEmpty, Remotely, ListsOK
<1>2. ASSUME NEW r \in inflight, AddRefused(r) PROVE IInv'
  <2>1. TypeOK'
    BY <1>2, Zenon DEF IInv, TypeOK, AddRefused
  <2>2. UNCHANGED <<all, listVars, stage, job, victims, todo, offenders, locals>>
    BY <1>2, Zenon DEF AddRefused, all
  <2> QED
    BY <2>1, <2>2, Zenon DEF IInv, QueuedHasHeartbeat, NonEmpty, Remotely, ListsOK
<1>3. ASSUME NEW r \in inflight, AddAccepted(r) PROVE IInv'
  <2>1. victims' \subseteq remotes
    BY <1>3, SMTT(30) DEF AddAccepted, Discards
  <2>2. /\ stage = "free" /\ stage' = "insert" /\ r.tx \notin all
        /\ job' = [tx |-> r.tx, local |-> r.local, isLocal |-> r.local \/ r.tx.from \in locals]
        /\ inflight' = inflight \ {r}
        /\ UNCHANGED <<chainVars, listVars, runVars, reqVars, adds, locals, changes, fallback, gasTip>>
    BY <1>3, Zenon DEF AddAccepted
  <2>3. r \in [tx : Tx, local : BOOLEAN]
    BY Zenon DEF IInv, TypeOK
  <2>4. job' \in [tx : Tx, local : BOOLEAN, isLocal : BOOLEAN]
    <3>1. r.tx \in Tx /\ r.local \in BOOLEAN
      BY <2>3, Zenon
    <3>2. (r.local \/ r.tx.from \in locals) \in BOOLEAN
      BY SMTT(30)
    <3> QED
      BY <2>2, <3>1, <3>2, Zenon
  <2>5. TypeOK'
    BY <2>1, <2>2, <2>4, Zenon DEF IInv, TypeOK, Stages
  <2>6. all' = all /\ job'.tx \notin all
    BY <2>2, Zenon DEF all
  <2>7. Remotely'
    <3>1. \A t \in remotes' \cup victims' : t.from \notin locals'
      BY <2>1, <2>2, Zenon DEF IInv, Remotely
    <3>2. job'.isLocal <=> (job'.local \/ job'.tx.from \in locals')
      BY <2>2, ZenonT(60)
    <3> QED
      BY <2>2, <3>1, <3>2, Zenon DEF IInv, Remotely
  <2> QED
    BY <2>2, <2>5, <2>6, <2>7, SMTT(30) DEF IInv, QueuedHasHeartbeat, NonEmpty, ListsOK
<1> QED
  BY <1>1, <1>2, <1>3, Zenon

\* removeTx takes t, and nothing else, out of the pool.
LEMMA RemoveOne ==
    ASSUME IInv, NEW t \in all, removeTx(t)
    PROVE  /\ ListsOK(pending', queue', all')
           /\ all' = all \ {t}
           /\ remotes' \subseteq remotes /\ localTxs' \subseteq localTxs
           /\ QueuedHasHeartbeat' /\ beats' \subseteq Addr
           /\ pnonce' \in [Addr -> Nat]
<1> DEFINE a == t.from
           P == pending[a]
           Q == queue[a]
           later == {u \in P : u.nonce > t.nonce}
<1>1. ListsOK(pending, queue, all) /\ TypeOK /\ QueuedHasHeartbeat
  BY Zenon DEF IInv
<1>2. t \in Tx /\ a \in Addr /\ t \in P \cup Q /\ (InPending(t) <=> t \in P)
  BY <1>1, KnownIsListed, Zenon DEF InPending
<1>3. AccountOK(a, P, Q)
  BY <1>1, <1>2, Zenon DEF ListsOK
<1>n. \A u \in P \cup Q : u.nonce \in Int
  BY <1>3 DEF AccountOK, Tx, Nonce
<1>4. CASE InPending(t)
  <2> DEFINE P2 == {u \in P : u.nonce < t.nonce}
             Q2 == Q \cup later
  <2>1. ReplacedOf(Q, later) = {} /\ PutAll(Q, later) = Q2
    <3>1. /\ P \in SUBSET Tx /\ Q \in SUBSET Tx /\ Unique(P \cup Q) /\ P \cap Q = {}
          /\ later \in SUBSET P
      BY <1>3, Zenon DEF AccountOK
    <3> HIDE DEF P, Q, later
    <3>2. ReplacedOf(Q, later) = {}
      BY <3>1, MoveIsUnion, ZenonT(60)
    <3>3. PutAll(Q, later) = Q \cup later
      BY <3>1, MoveIsUnion
    <3> QED
      BY <3>2, <3>3, Zenon
  <2>2. /\ pending' = [pending EXCEPT ![a] = P2]
        /\ queue' = [queue EXCEPT ![a] = Q2]
        /\ remotes' = remotes \ {t} /\ localTxs' = localTxs \ {t}
    <3>1. /\ pending' = [pending EXCEPT ![a] = {u \in @ : u.nonce < t.nonce}]
          /\ queue' = [queue EXCEPT ![a] = PutAll(@, later)]
          /\ remotes' = (remotes \ {t}) \ ReplacedOf(Q, later)
          /\ localTxs' = (localTxs \ {t}) \ ReplacedOf(Q, later)
      BY <1>4, Zenon DEF removeTx, Beat
    <3>2. queue' = [queue EXCEPT ![a] = Q2]
      BY <3>1, <2>1, ZenonT(60)
    <3>3. remotes' = remotes \ {t} /\ localTxs' = localTxs \ {t}
      BY <3>1, <2>1, Zenon
    <3> QED
      BY <3>1, <3>2, <3>3, ZenonT(60)
  <2>3. AccountOK(a, P2, Q2)
    <3>1. P2 \cup Q2 \subseteq P \cup Q
      BY Zenon
    <3>2. P2 \cap Q2 = {}
      <4>1. P \cap Q = {}
        BY <1>3, Zenon DEF AccountOK
      <4>2. \A u \in P \cup Q : t.nonce \in Int /\ u.nonce \in Int
        BY <1>n, <1>2, Zenon
      <4> HIDE DEF P, Q
      <4> QED
        BY <4>1, <4>2
    <3> QED
      BY <1>3, <3>1, <3>2, Zenon DEF AccountOK, Unique
  <2>4. P2 \cup Q2 = (P \cup Q) \ {t}
    <3>1. t \in P /\ t \notin Q
      BY <1>2, <1>3, <1>4, Zenon DEF AccountOK
    <3>2. \A u \in P : u # t => u.nonce # t.nonce
      BY <1>3, <3>1, Zenon DEF AccountOK, Unique
    <3>3. \A u \in P : u # t => u \in P2 \cup Q2
      BY <3>2, <1>n, <1>2
    <3>4. t \notin P2 /\ t \notin later
      BY <1>n, <1>2
    <3> QED
      BY <3>1, <3>3, <3>4, Zenon
  <2>5. all' = all \ {t}
    BY <2>2, Zenon DEF all
  <2>6. all' = (all \ (P \cup Q)) \cup P2 \cup Q2
    <3>1. P \cup Q \subseteq all
      BY <1>1, <1>2, Zenon DEF ListsOK
    <3> HIDE DEF P, Q, P2, Q2, a
    <3> QED
      BY <2>4, <2>5, <3>1, <1>2, Zenon
  <2>7. ListsOK(pending', queue', all')
    <3> HIDE DEF P2, Q2
    <3> QED
      BY <1>1, <1>2, <2>2, <2>3, <2>6, UpdateOne, ZenonT(60)
  <2>8. pnonce' \in [Addr -> Nat]
    <3>1. pnonce' = [pnonce EXCEPT ![a] = Lower(@, t.nonce)]
      BY <1>4, Zenon DEF removeTx, Beat
    <3>2. t.nonce \in Nat /\ pnonce \in [Addr -> Nat]
      BY <1>1, <1>2, NonceListAssumption DEF TypeOK, Tx, Nonce
    <3> QED
      BY <3>1, <3>2, <1>2, Zenon DEF Lower
  <2>9. QueuedHasHeartbeat' /\ beats' \subseteq Addr
    <3>1. beats' = IF later = {} THEN beats ELSE beats \cup {a}
      BY <1>4, Zenon DEF removeTx, Beat
    <3>2. \A b \in Addr : queue'[b] # {} => b \in beats'
      <4> TAKE b \in Addr
      <4>1. CASE b = a
        BY <4>1, <2>2, <3>1, <1>1, <1>2, SMTT(30) DEF TypeOK, QueuedHasHeartbeat, NonEmpty
      <4>2. CASE b # a
        BY <4>2, <2>2, <3>1, <1>1, <1>2, Zenon DEF TypeOK, QueuedHasHeartbeat, NonEmpty
      <4> QED
        BY <4>1, <4>2, Zenon
    <3>3. beats' \subseteq Addr
      BY <3>1, <1>1, <1>2, Zenon DEF TypeOK
    <3> QED
      BY <3>2, <3>3, Zenon DEF QueuedHasHeartbeat, NonEmpty
  <2> QED
    BY <2>2, <2>5, <2>7, <2>8, <2>9, Zenon
<1>5. CASE ~InPending(t)
  <2> DEFINE Q2 == Q \ {t}
  <2>1. Old(Q, t) = {t}
    <3>1. t \in Q
      BY <1>2, <1>5, Zenon
    <3>2. \A u \in Q : u.nonce = t.nonce => u = t
      BY <1>3, <3>1, Zenon DEF AccountOK, Unique
    <3> HIDE DEF Q
    <3> QED
      BY <3>1, <3>2, Zenon DEF Old
  <2>2. /\ pending' = pending /\ pnonce' = pnonce
        /\ queue' = [queue EXCEPT ![a] = Q2]
        /\ remotes' = remotes \ {t} /\ localTxs' = localTxs \ {t}
        /\ beats' = IF Q # {} /\ queue'[a] = {} THEN beats \ {a} ELSE beats
    BY <1>5, <2>1, <1>1, <1>2, SMTT(60) DEF removeTx, Beat, TypeOK
  <2>3. AccountOK(a, P, Q2)
    BY <1>3, ZenonT(60) DEF AccountOK, Unique
  <2>4. all' = all \ {t}
    BY <2>2, Zenon DEF all
  <2>5. all' = (all \ (P \cup Q)) \cup P \cup Q2
    <3>1. P \cup Q \subseteq all /\ t \notin P
      BY <1>1, <1>2, <1>5, Zenon DEF ListsOK
    <3> HIDE DEF P, Q, a
    <3> QED
      BY <2>4, <3>1, <1>2, Zenon
  <2>6. pending' = [pending EXCEPT ![a] = P]
    BY <2>2, <1>1, Zenon DEF TypeOK
  <2>7. ListsOK(pending', queue', all')
    <3> HIDE DEF Q2, P
    <3>1. ListsOK([pending EXCEPT ![a] = P], [queue EXCEPT ![a] = Q2], all')
      <4>1. all' = (all \ (pending[a] \cup queue[a])) \cup P \cup Q2
        BY <2>5, SMTT(30) DEF P
      <4> HIDE DEF Q, a
      <4> QED
        BY <1>1, <1>2, <2>3, <4>1, UpdateOne, Zenon
    <3> QED
      BY <3>1, <2>2, <2>6, ZenonT(60)
  <2>8. QueuedHasHeartbeat' /\ beats' \subseteq Addr
    <3>1. \A b \in Addr : queue'[b] # {} => b \in beats'
      <4> TAKE b \in Addr
      <4>1. CASE b = a
        BY <4>1, <2>2, <1>1, <1>2, Zenon DEF TypeOK, QueuedHasHeartbeat, NonEmpty
      <4>2. CASE b # a
        BY <4>2, <2>2, <1>1, <1>2, Zenon DEF TypeOK, QueuedHasHeartbeat, NonEmpty
      <4> QED
        BY <4>1, <4>2, Zenon
    <3>2. beats' \subseteq Addr
      BY <2>2, <1>1, Zenon DEF TypeOK
    <3> QED
      BY <3>1, <3>2, Zenon DEF QueuedHasHeartbeat, NonEmpty
  <2> QED
    BY <2>2, <2>4, <2>7, <2>8, <1>1, SMTT(60) DEF TypeOK
<1> QED
  BY <1>4, <1>5, Zenon

\* One removeTx of a loop keeps the invariant and drops nothing local.
LEMMA RemoveVictimStep == ASSUME IInv, NEW t \in victims, RemoveVictim(t) PROVE IInv' /\ Keeps
<1> USE DEF chainVars, listVars, runVars, reqVars, addVars
<1>1. /\ victims' = victims \ {t}
      /\ UNCHANGED <<chainVars, runVars, reqVars, adds, inflight, job, locals, fallback, gasTip, stage>>
  BY Zenon DEF RemoveVictim
<1>2. changes' \in Nat
  <2>1. t \in Tx /\ changes \in Nat /\ t.from \in Addr
    BY Zenon DEF IInv, TypeOK, Tx
  <2>2. {u \in pending[t.from] : u.nonce >= t.nonce} \in SUBSET Tx
    BY <2>1, Zenon DEF IInv, TypeOK
  <2>3. Cardinality({u \in pending[t.from] : u.nonce >= t.nonce}) \in Nat
    BY <2>2, ListSize, Zenon
  <2>4. changes' = changes \/ changes' = changes + Cardinality({u \in pending[t.from] : u.nonce >= t.nonce})
    BY Zenon DEF RemoveVictim
  <2> QED
    BY <2>1, <2>3, <2>4
<1>3. /\ ListsOK(pending', queue', all')
      /\ all' \subseteq all /\ all \ all' \subseteq {t}
      /\ remotes' \subseteq remotes /\ localTxs' \subseteq localTxs
      /\ QueuedHasHeartbeat' /\ beats' \subseteq Addr
      /\ pnonce' \in [Addr -> Nat]
  <2>1. CASE t \in all
    <3>1. removeTx(t)
      BY <2>1, Zenon DEF RemoveVictim
    <3> QED
      BY <2>1, <3>1, RemoveOne, Zenon
  <2>2. CASE t \notin all
    <3>1. UNCHANGED listVars
      BY <2>2, ZenonT(60) DEF RemoveVictim
    <3> QED
      BY <3>1, Zenon DEF IInv, TypeOK, all, QueuedHasHeartbeat, NonEmpty
  <2> QED
    BY <2>1, <2>2, Zenon
<1>4. TypeOK'
  <2>1. pending' \in [Addr -> SUBSET Tx] /\ queue' \in [Addr -> SUBSET Tx]
    BY <1>3, Zenon DEF ListsOK
  <2> QED
    BY <1>1, <1>2, <1>3, <2>1 DEF IInv, TypeOK
<1>5. Remotely'
  BY <1>1, <1>3, ZenonT(60) DEF IInv, Remotely
<1>6. Keeps
  BY <1>3, ZenonT(60) DEF IInv, Remotely, Keeps
<1> QED
  BY <1>1, <1>3, <1>4, <1>5, <1>6, SMTT(30) DEF IInv

\* Replacing a pending transaction: the old one leaves for a better one.
LEMMA ReplacePendingStep == ASSUME IInv, ReplacePending PROVE IInv' /\ Keeps
<1> USE DEF chainVars, listVars, runVars, reqVars, addVars
<1> DEFINE t == job.tx
           a == t.from
<1>1. /\ stage = "insert" /\ stage' = "free" /\ victims = {} /\ victims' = {}
      /\ launch' = TRUE /\ job' = NoJob
      /\ UNCHANGED <<chainVars, runVars, dirty, resetReq, adds, inflight, locals, changes, fallback, gasTip>>
  BY Zenon DEF ReplacePending
<1>2. /\ TypeOK /\ ListsOK(pending, queue, all) /\ QueuedHasHeartbeat /\ Remotely
      /\ t \in Tx /\ a \in Addr /\ t \notin all /\ job.isLocal \in BOOLEAN
  BY <1>1, ZenonT(60) DEF IInv, TypeOK, Tx
<1>3. AccountOK(a, pending[a], queue[a])
  BY <1>2, Zenon DEF ListsOK
<1>4. CASE Rejects(pending[a], t)
  <2>1. UNCHANGED <<listVars, events>>
    BY <1>4, Zenon DEF ReplacePending
  <2>2. TypeOK'
    BY <1>1, <1>2, <2>1, NoJobType, Zenon DEF TypeOK, Stages
  <2>3. Remotely'
    BY <1>1, <1>2, <2>1, ZenonT(60) DEF Remotely
  <2> QED
    BY <1>1, <1>2, <2>1, <2>2, <2>3, ZenonT(60) DEF IInv, all, QueuedHasHeartbeat, NonEmpty, Keeps
<1>5. CASE ~Rejects(pending[a], t)
  <2> DEFINE P2 == Put(pending[a], t)
             gone == Old(pending[a], t)
  <2>1. /\ AddToLookup(t, job.isLocal, gone, {})
        /\ pending' = [pending EXCEPT ![a] = P2]
        /\ beats' = beats \cup {a}
        /\ events' = PutEvents(events, {t})
        /\ UNCHANGED <<queue, pnonce>>
    BY <1>5, Zenon DEF ReplacePending
  <2>2. t \notin pending[a] \cup queue[a] /\ pending[a] \cup queue[a] \subseteq all
    BY <1>2, Zenon DEF ListsOK
  <2>3. Has(pending[a], t.nonce)
    BY Zenon DEF ReplacePending, InPending
  <2>4. ~Has(queue[a], t.nonce)
    BY <2>3, <1>3, ZenonT(60) DEF AccountOK, Unique, Has
  <2>5. AccountOK(a, P2, queue[a])
    BY <1>2, <1>3, <2>2, <2>4, PutOK, Zenon
  <2>6. gone \subseteq pending[a] /\ P2 = (pending[a] \ gone) \cup {t}
    BY Zenon DEF Old, Put
  <2>7. all' = (all \ gone) \cup {t}
    <3> HIDE DEF t, gone
    <3> QED
      BY <1>2, <2>1, <2>2, <2>6, LookupAfterPut, SMTT(30)
  <2>8. all' = (all \ (pending[a] \cup queue[a])) \cup P2 \cup queue[a]
    <3>1. gone \cap queue[a] = {}
      BY <2>6, <1>3 DEF AccountOK
    <3> HIDE DEF P2, gone, t
    <3> QED
      BY <2>2, <2>6, <2>7, <3>1, SMTT(30)
  <2>9. ListsOK(pending', queue', all')
    <3>1. ListsOK([pending EXCEPT ![a] = P2], [queue EXCEPT ![a] = queue[a]], all')
      <4> HIDE DEF P2, t
      <4> QED
        BY <1>2, <2>5, <2>8, UpdateOne, SMTT(30)
    <3>2. queue' = [queue EXCEPT ![a] = queue[a]]
      BY <2>1, <1>2, SMTT(30) DEF TypeOK
    <3> QED
      BY <2>1, <3>1, <3>2, ZenonT(60)
  <2>10. remotes' \subseteq Tx /\ localTxs' \subseteq Tx
    BY <1>2, <2>1, Zenon DEF AddToLookup, TypeOK
  <2>11. \A u \in remotes' : u.from \notin locals'
    <3>1. \A u \in remotes' : u \in remotes \/ (u = t /\ ~job.isLocal)
      BY <1>2, <2>1, Zenon DEF AddToLookup
    <3>2. ~job.isLocal => a \notin locals
      BY <1>1, <1>2, ZenonT(60) DEF Remotely
    <3> QED
      BY <1>1, <1>2, <3>1, <3>2, Zenon DEF Remotely
  <2>12. Remotely'
    BY <1>1, <1>2, <2>11, ZenonT(60) DEF Remotely
  <2>13. TypeOK'
    <3>1. pending' \in [Addr -> SUBSET Tx] /\ queue' \in [Addr -> SUBSET Tx]
      BY <2>9 DEF ListsOK
    <3>2. events' \subseteq Tx /\ beats' \subseteq Addr
      BY <1>2, <2>1, SMTT(60) DEF PutEvents, TypeOK
    <3> QED
      BY <1>1, <1>2, <2>1, <2>10, <3>1, <3>2, NoJobType, ZenonT(60) DEF TypeOK, Stages
  <2>14. QueuedHasHeartbeat'
    BY <1>2, <2>1, SMTT(30) DEF QueuedHasHeartbeat, NonEmpty
  <2>20. Keeps
    <3>1. \A u \in all \ all' : u \in pending[a] /\ u.nonce = t.nonce
      BY <2>7, Zenon DEF Old
    <3>2. \A u \in all \ all' : u.from = a /\ u.fee < t.fee
      BY <3>1, <1>3, <1>5, Zenon DEF AccountOK, Rejects, Bumps
    <3>3. \A u \in all \ all' : u.fee \in Int
      <4>1. \A u \in all \ all' : u \in Tx
        BY <3>1, <1>3, Zenon DEF AccountOK
      <4> QED
        BY <4>1, TxFields
    <3>4. t \in all' /\ t.fee \in Int
      <4>1. t.fee \in Int
        BY <1>2, TxFields
      <4> QED
        BY <2>7, <4>1, Zenon
    <3> QED
      BY <3>1, <3>2, <3>3, <3>4, Zenon DEF Keeps, LeavesRightly
  <2> QED
    BY <1>1, <2>9, <2>12, <2>13, <2>14, <2>20, ZenonT(60) DEF IInv
<1> QED
  BY <1>4, <1>5, Zenon

\* Queueing a transaction, and making its sender local.
LEMMA EnqueueStep == ASSUME IInv, Enqueue PROVE IInv' /\ Keeps
<1> USE DEF chainVars, listVars, runVars, reqVars, addVars
<1> DEFINE t == job.tx
           a == t.from
           gone == Old(queue[a], t)
           newLocal == job.local /\ a \notin locals
           migrated == {u \in remotes \ gone : newLocal /\ u.from \in locals \cup {a}}
<1>1. /\ stage = "insert" /\ stage' = "free" /\ victims = {} /\ victims' = {}
      /\ launch' = TRUE /\ job' = NoJob
      /\ UNCHANGED <<chainVars, runVars, resetReq, events, adds, inflight, changes, fallback, gasTip>>
  BY ZenonT(60) DEF Enqueue
<1>2. /\ TypeOK /\ ListsOK(pending, queue, all) /\ QueuedHasHeartbeat /\ Remotely
      /\ t \in Tx /\ a \in Addr /\ t \notin all /\ job.isLocal \in BOOLEAN
  BY <1>1, ZenonT(60) DEF IInv, TypeOK, Tx
<1>3. AccountOK(a, pending[a], queue[a])
  BY <1>2, Zenon DEF ListsOK
<1>4. CASE Rejects(queue[a], t)
  <2>1. UNCHANGED <<listVars, locals, dirty>>
    BY <1>4, ZenonT(60) DEF Enqueue
  <2>2. TypeOK'
    BY <1>1, <1>2, <2>1, NoJobType DEF TypeOK, Stages
  <2>3. Remotely'
    BY <1>1, <1>2, <2>1, ZenonT(60) DEF Remotely
  <2> QED
    BY <1>1, <1>2, <2>1, <2>2, <2>3, Zenon DEF IInv, all, QueuedHasHeartbeat, NonEmpty, Keeps
<1>5. CASE ~Rejects(queue[a], t)
  <2> DEFINE Q2 == Put(queue[a], t)
  <2>1. /\ AddToLookup(t, job.isLocal, gone, migrated)
        /\ queue' = [queue EXCEPT ![a] = Q2]
        /\ beats' = beats \cup {a}
        /\ locals' = IF newLocal THEN locals \cup {a} ELSE locals
        /\ dirty' = IF gone = {} THEN dirty \cup {a} ELSE dirty
        /\ UNCHANGED <<pending, pnonce>>
    BY <1>5, ZenonT(60) DEF Enqueue, Beat
  <2>2. t \notin pending[a] \cup queue[a] /\ pending[a] \cup queue[a] \subseteq all
    BY <1>2, Zenon DEF ListsOK
  <2>3. ~Has(pending[a], t.nonce)
    BY ZenonT(60) DEF Enqueue, InPending
  <2>4. AccountOK(a, pending[a], Q2)
    <3>1. AccountOK(a, queue[a], pending[a])
      BY <1>3, ZenonT(60) DEF AccountOK, Unique
    <3> QED
      BY <1>2, <2>2, <2>3, <3>1, PutOK, ZenonT(60)
  <2>5. gone \subseteq queue[a] /\ Q2 = (queue[a] \ gone) \cup {t}
    BY Zenon DEF Old, Put
  <2>6. all' = (all \ gone) \cup {t}
    <3>1. migrated \subseteq remotes \ gone /\ t \notin gone
      BY <2>2, <2>5, Zenon
    <3> HIDE DEF t, gone, migrated
    <3> QED
      BY <1>2, <2>1, <3>1, LookupAfterPut, ZenonT(60)
  <2>7. all' = (all \ (pending[a] \cup queue[a])) \cup pending[a] \cup Q2
    <3>1. gone \cap pending[a] = {}
      BY <2>5, <1>3, Zenon DEF AccountOK
    <3> HIDE DEF Q2, gone, t
    <3> QED
      BY <2>2, <2>5, <2>6, <3>1, SMTT(30)
  <2>8. ListsOK(pending', queue', all')
    <3>1. ListsOK([pending EXCEPT ![a] = pending[a]], [queue EXCEPT ![a] = Q2], all')
      <4> HIDE DEF Q2, t
      <4> QED
        BY <1>2, <2>4, <2>7, UpdateOne, SMTT(60)
    <3>2. pending' = [pending EXCEPT ![a] = pending[a]]
      BY <2>1, <1>2, SMTT(60) DEF TypeOK
    <3> QED
      BY <2>1, <3>1, <3>2, ZenonT(60)
  <2>9. remotes' \subseteq Tx /\ localTxs' \subseteq Tx
    <3>1. remotes \subseteq Tx /\ localTxs \subseteq Tx
      BY <1>2, Zenon DEF TypeOK
    <3>2. /\ \A u \in remotes' : u \in remotes \/ u = t
          /\ \A u \in localTxs' : u \in localTxs \/ u \in remotes \/ u = t
      BY <2>1, ZenonT(60) DEF AddToLookup
    <3> QED
      BY <1>2, <3>1, <3>2, Zenon
  <2>10. \A u \in remotes' : u.from \notin locals'
    <3> SUFFICES ASSUME NEW u \in remotes' PROVE u.from \notin locals'
      BY Zenon
    <3>1. job.isLocal <=> (job.local \/ a \in locals)
      BY <1>1, <1>2, ZenonT(60) DEF Remotely
    <3>2. CASE u = t /\ ~job.isLocal
      BY <2>1, <3>1, <3>2, SMTT(60)
    <3>3. CASE u \in remotes /\ u \notin gone /\ u \notin migrated
      <4>1. u.from \notin locals
        BY <1>2, <3>3, Zenon DEF Remotely
      <4>2. newLocal => u.from # a
        BY <3>3, Zenon
      <4>3. locals' = locals \/ (newLocal /\ locals' = locals \cup {a})
        BY <2>1, Zenon
      <4> HIDE DEF newLocal, a
      <4> QED
        BY <4>1, <4>2, <4>3, ZenonT(40)
    <3> QED
      BY <1>2, <2>1, <3>2, <3>3, Zenon DEF AddToLookup
  <2>11. Remotely'
    BY <1>1, <1>2, <2>10, ZenonT(60) DEF Remotely
  <2>12. TypeOK'
    <3>1. pending' \in [Addr -> SUBSET Tx] /\ queue' \in [Addr -> SUBSET Tx]
      BY <2>8, Zenon DEF ListsOK
    <3>2. locals' \subseteq Addr /\ beats' \subseteq Addr /\ dirty' \subseteq Addr
      BY <1>2, <2>1, ZenonT(40) DEF TypeOK
    <3> QED
      BY <1>1, <1>2, <2>1, <2>9, <3>1, <3>2, NoJobType, ZenonT(60) DEF TypeOK, Stages
  <2>13. QueuedHasHeartbeat'
    BY <1>2, <2>1, Zenon DEF QueuedHasHeartbeat, NonEmpty, TypeOK
  <2>20. Keeps
    <3>1. \A u \in all \ all' : u \in queue[a] /\ u.nonce = t.nonce
      BY <2>6, Zenon DEF Old
    <3>2. \A u \in all \ all' : u.from = a /\ u.fee < t.fee
      BY <3>1, <1>3, <1>5, ZenonT(60) DEF AccountOK, Rejects, Bumps
    <3>3. \A u \in all \ all' : u.fee \in Int
      <4>1. \A u \in all \ all' : u \in Tx
        BY <3>1, <1>3, ZenonT(60) DEF AccountOK
      <4> QED
        BY <4>1, TxFields
    <3>4. t \in all' /\ t.fee \in Int
      <4>1. t.fee \in Int
        BY <1>2, TxFields
      <4> QED
        BY <2>6, <4>1, Zenon
    <3> QED
      BY <3>1, <3>2, <3>3, <3>4, Zenon DEF Keeps, LeavesRightly
  <2> QED
    BY <1>1, <2>8, <2>11, <2>12, <2>13, <2>20, ZenonT(60) DEF IInv
<1> QED
  BY <1>4, <1>5, Zenon

\* The eviction tick and SetGasTip mark transactions of remote accounts only.
LEMMA PurgeStep == ASSUME IInv, Purging PROVE IInv'
<1> USE DEF chainVars, listVars, runVars, reqVars, addVars
<1>1. /\ UNCHANGED <<chainVars, listVars, runVars, reqVars, addVars, fallback>>
      /\ gasTip' \in Nat
      /\ stage \in {"free", "purge"} /\ stage' \in {"free", "purge"}
      /\ stage' = "free" => victims' = {}
  <2>0. gasTip \in Nat /\ Tip \subseteq Nat
    BY LegacyPoolAssumption, Zenon DEF IInv, TypeOK
  <2>1. CASE \E old \in SUBSET (NonEmpty(queue) \ locals) : Evict(old)
    BY <2>0, <2>1, ZenonT(60) DEF Evict
  <2>2. CASE \E tip \in Tip : SetGasTip(tip)
    BY <2>0, <2>2, Zenon DEF SetGasTip
  <2>3. CASE PurgeDone
    BY <2>0, <2>3, Zenon DEF PurgeDone
  <2> QED
    BY <2>1, <2>2, <2>3, Zenon DEF Purging
<1>2. \A t \in victims' : t \in Tx /\ t.from \notin locals
  <2>1. ASSUME NEW old \in SUBSET (NonEmpty(queue) \ locals), Evict(old)
        PROVE  \A t \in victims' : t \in Tx /\ t.from \notin locals
    <3>1. \A t \in victims' : \E a \in old : t \in queue[a]
      BY <2>1, ZenonT(60) DEF Evict
    <3>2. \A a \in old : a \in Addr /\ a \notin locals
      BY <2>1, Zenon DEF NonEmpty
    <3>3. \A a \in Addr : \A t \in queue[a] : t \in Tx /\ t.from = a
      BY ZenonT(60) DEF IInv, ListsOK, AccountOK
    <3> QED
      BY <3>1, <3>2, <3>3
  <2>2. ASSUME NEW tip \in Tip, SetGasTip(tip)
        PROVE  \A t \in victims' : t \in Tx /\ t.from \notin locals
    <3>1. victims' \subseteq remotes
      BY <2>2, Zenon DEF SetGasTip
    <3> QED
      BY <3>1, Zenon DEF IInv, TypeOK, Remotely
  <2>3. CASE PurgeDone
    BY <2>3, SMTT(60) DEF PurgeDone
  <2> QED
    BY <2>1, <2>2, <2>3, Zenon DEF Purging
<1>3. TypeOK'
  BY <1>1, <1>2, SMTT(30) DEF IInv, TypeOK, Stages
<1>4. Remotely'
  BY <1>1, <1>2, ZenonT(60) DEF IInv, Remotely
<1> QED
  BY <1>1, <1>3, <1>4, ZenonT(60) DEF IInv, all, QueuedHasHeartbeat, NonEmpty

-----------------------------------------------------------------------------
\* The steps of a run that leave the lists alone.
LEMMA RunStep ==
    ASSUME IInv,
           \/ Launch \/ RunLock \/ Promoted \/ PendingTruncated \/ QueueTruncated
           \/ RunUnlock \/ Announce \/ \E a \in Addr : PopSpammer(a)
    PROVE  IInv'
<1> USE DEF chainVars, listVars, runVars, reqVars, addVars
<1>1. /\ UNCHANGED <<chainVars, pending, queue, remotes, localTxs, beats, adds, inflight, job, locals, victims>>
      /\ stage' # "insert" \/ stage' = stage
  BY Zenon DEF Launch, RunLock, Promoted, PendingTruncated, QueueTruncated, RunUnlock, Announce, PopSpammer
<1>2. TypeOK'
  <2>1. CASE Launch
    BY <2>1, ZenonT(60) DEF IInv, TypeOK, Launch
  <2>2. CASE RunLock
    BY <2>2, SMTT(60) DEF IInv, TypeOK, RunLock, NonEmpty, Stages
  <2>3. CASE Promoted
    BY <2>3 DEF IInv, TypeOK, Promoted, NonEmpty, Spammers, Stages
  <2>4. CASE PendingTruncated
    <3>1. TypeOK
      BY Zenon DEF IInv
    <3> QED
      BY <2>4, <3>1, SMTT(60) DEF TypeOK, PendingTruncated, NonEmpty, Stages
  <2>5. CASE QueueTruncated
    BY <2>5, Zenon DEF IInv, TypeOK, QueueTruncated, Stages
  <2>6. CASE RunUnlock
    BY <2>6, Zenon DEF IInv, TypeOK, RunUnlock, Stages
  <2>7. CASE Announce
    BY <2>7, ZenonT(60) DEF IInv, TypeOK, Announce
  <2>8. ASSUME NEW a \in Addr, PopSpammer(a) PROVE TypeOK'
    <3>1. /\ UNCHANGED <<chainVars, listVars, drop, isReset, run, runEvents, announced, reqVars, addVars,
                          fallback, gasTip, stage, victims>>
          /\ todo' \subseteq todo /\ offenders' = Append(offenders, a)
      BY <2>8, Zenon DEF PopSpammer
    <3>2. offenders' \in Seq(Addr)
      BY <3>1 DEF IInv, TypeOK
    <3>3. TypeOK
      BY Zenon DEF IInv
    <3> QED
      BY <3>1, <3>2, <3>3, SMTT(30) DEF TypeOK
  <2> QED
    BY <2>1, <2>2, <2>3, <2>4, <2>5, <2>6, <2>7, <2>8, Zenon
<1>3. Remotely'
  <2>1. CASE Promoted
    <3>1. /\ UNCHANGED <<locals, remotes, victims, offenders>>
          /\ stage = "promote" /\ stage' \in {"demote", "truncatePending"}
          /\ stage' = "truncatePending" => todo' = Spammers
      BY <2>1, Zenon DEF Promoted
    <3>2. stage' = "truncatePending" => todo' \cap locals = {}
      BY <3>1, Zenon DEF Spammers
    <3>3. offenders = <<>>
      BY <3>1, Zenon DEF IInv, Remotely
    <3>4. \A t \in remotes \cup victims : t.from \notin locals
      BY Zenon DEF IInv, Remotely
    <3> QED
      BY <3>1, <3>2, <3>3, <3>4 DEF Remotely
  <2>2. CASE PendingTruncated
    BY <2>2, Zenon DEF IInv, TypeOK, Remotely, PendingTruncated
  <2>3. ASSUME NEW a \in Addr, PopSpammer(a) PROVE Remotely'
    <3>1. /\ offenders' = Append(offenders, a) /\ offenders \in Seq(Addr) /\ a \in todo
          /\ stage = "truncatePending"
      BY <2>3, Zenon DEF PopSpammer, IInv, TypeOK
    <3>4. /\ \A i \in 1 .. Len(offenders) : offenders[i] \notin locals
          /\ a \notin locals
      BY <3>1, Zenon DEF IInv, Remotely
    <3>2. \A i \in 1 .. Len(offenders') : offenders'[i] \notin locals
      BY <3>1, <3>4
    <3> QED
      BY <2>3, <3>2, Zenon DEF PopSpammer, IInv, Remotely
  <2>4. CASE Launch
    <3>1. run = "idle" /\ UNCHANGED <<stage, job, locals, remotes, victims, offenders>>
      BY <2>4, Zenon DEF Launch
    <3>2. stage \in {"free", "insert", "purge"}
      BY <3>1, Zenon DEF IInv, TypeOK
    <3> QED
      BY <3>1, <3>2, Zenon DEF IInv, Remotely
  <2>5. CASE RunLock \/ QueueTruncated \/ RunUnlock \/ Announce
    BY <2>5, ZenonT(60) DEF IInv, Remotely, RunLock, QueueTruncated, RunUnlock, Announce
  <2> QED
    BY <2>1, <2>2, <2>3, <2>4, <2>5, Zenon
<1> QED
  BY <1>1, <1>2, <1>3, SMTT(60) DEF IInv, all, QueuedHasHeartbeat, NonEmpty

\* Recomputing the virtual nonces touches no list.
LEMMA SetAllStep == ASSUME IInv, setAll PROVE IInv'
<1> USE DEF chainVars, listVars, runVars, reqVars, addVars
<1>1. pnonce' \in [Addr -> Nat]
  <2>1. ASSUME NEW a \in Addr, pending[a] # {} PROVE LastNonce(pending[a]) \in Nat
    <3>1. pending[a] \in SUBSET Tx
      BY Zenon DEF IInv, TypeOK
    <3>2. \E t \in Last(pending[a]) : TRUE
      BY <2>1, <3>1, LastExists, Zenon
    <3>3. (CHOOSE t \in Last(pending[a]) : TRUE) \in Tx
      BY <2>1, <3>1, <3>2, LastExists, Zenon
    <3> QED
      BY <3>3, NonceListAssumption DEF LastNonce, Tx, Nonce
  <2> QED
    <3>1. pnonce' = [a \in Addr |-> IF pending[a] = {} THEN fallback[a] ELSE 1 + LastNonce(pending[a])]
      BY ZenonT(60) DEF setAll
    <3>2. \A a \in Addr : fallback[a] \in Nat
      BY Zenon DEF IInv, TypeOK
    <3>3. \A a \in Addr : pending[a] # {} => 1 + LastNonce(pending[a]) \in Nat
      BY <2>1
    <3> QED
      BY <3>1, <3>2, <3>3, Zenon
<1>2. UNCHANGED <<pending, queue, remotes, localTxs, beats, locals, job, victims, offenders>>
  BY Zenon DEF setAll
<1>3. TypeOK'
  BY <1>1, Zenon DEF IInv, TypeOK, setAll, Spammers, Stages
<1>4. Remotely'
  <2>1. stage = "demote" /\ stage' = "truncatePending" /\ todo' = Spammers
    BY Zenon DEF setAll
  <2> QED
    <3>1. todo' \cap locals = {}
      BY <2>1, Zenon DEF Spammers
    <3>2. offenders = <<>>
      BY <2>1, Zenon DEF IInv, Remotely
    <3>3. \A t \in remotes \cup victims : t.from \notin locals
      BY Zenon DEF IInv, Remotely
    <3> QED
      BY <1>2, <2>1, <3>1, <3>2, <3>3 DEF Remotely
<1> QED
  BY <1>2, <1>3, <1>4, ZenonT(60) DEF IInv, all, QueuedHasHeartbeat, NonEmpty, setAll

\* truncateQueue marks only transactions of accounts that are not local.
LEMMA TruncateQueueStep == ASSUME IInv, NEW a \in Addr, truncateQueue(a) PROVE IInv'
<1> USE DEF chainVars, listVars, runVars, reqVars, addVars
<1>1. /\ stage = "truncateQueue" /\ a \in todo /\ todo' = todo \ {a}
      /\ victims' \subseteq queue[a]
      /\ UNCHANGED <<chainVars, listVars, offenders, isReset, run, runEvents, announced, reqVars, addVars,
                     fallback, gasTip, stage>>
  BY ZenonT(60) DEF truncateQueue, Excess
<1>2. \A t \in victims' : t \in Tx /\ t.from \notin locals
  BY <1>1, ZenonT(60) DEF IInv, ListsOK, AccountOK, Remotely
<1>3. TypeOK'
  BY <1>1, <1>2, Zenon DEF IInv, TypeOK
<1>4. Remotely'
  BY <1>1, <1>2, Zenon DEF IInv, Remotely
<1> QED
  BY <1>1, <1>3, <1>4, Zenon DEF IInv, all, QueuedHasHeartbeat, NonEmpty

\* Dropping the last pending transaction of some remote accounts.
LEMMA CapStep ==
    ASSUME IInv, NEW S \in SUBSET Addr, CapOne(S), stage = "truncatePending", S \cap locals = {}
    PROVE  IInv' /\ Keeps
<1> USE DEF chainVars, listVars, runVars, reqVars, addVars
<1> DEFINE gone == UNION {Last(pending[a]) : a \in S}
<1>1. /\ pending' = [a \in Addr |-> pending[a] \ gone]
      /\ remotes' = remotes \ gone /\ localTxs' = localTxs \ gone
      /\ UNCHANGED <<chainVars, queue, beats, todo, offenders, drop, isReset, run, runEvents, announced,
                     reqVars, addVars, fallback, gasTip, stage, victims>>
  BY Zenon DEF CapOne
<1>2. pnonce' \in [Addr -> Nat]
  <2>1. ASSUME NEW a \in Addr, pending[a] # {} PROVE LastNonce(pending[a]) \in Nat
    <3>1. pending[a] \in SUBSET Tx
      BY Zenon DEF IInv, TypeOK
    <3>2. \E t \in Last(pending[a]) : TRUE
      BY <2>1, <3>1, LastExists
    <3>3. (CHOOSE t \in Last(pending[a]) : TRUE) \in Tx
      BY <2>1, <3>1, <3>2, LastExists, Zenon
    <3> QED
      BY <3>3, NonceListAssumption DEF LastNonce, Tx, Nonce
  <2> QED
    BY <2>1, Zenon DEF IInv, TypeOK, CapOne, Lower
<1>3. \A a \in Addr : AccountOK(a, pending[a], queue[a])
  BY Zenon DEF IInv, ListsOK
<1>4. \A a \in Addr : queue[a] \cap gone = {}
  <2> SUFFICES ASSUME NEW a \in Addr, NEW t \in queue[a], NEW b \in S, t \in Last(pending[b]) PROVE FALSE
    BY Zenon
  <2>1. t \in pending[b]
    BY Zenon DEF Last
  <2> QED
    BY <1>3, <2>1, ZenonT(60) DEF AccountOK
<1>5. ListsOK(pending', queue', all')
  <2>1. pending' \in [Addr -> SUBSET Tx] /\ queue' \in [Addr -> SUBSET Tx]
    BY <1>1, SMTT(60) DEF IInv, TypeOK
  <2>2. ASSUME NEW a \in Addr PROVE AccountOK(a, pending'[a], queue'[a])
    <3>1. pending'[a] \subseteq pending[a] /\ queue'[a] = queue[a]
      BY <1>1, ZenonT(60)
    <3> QED
      BY <1>3, <3>1, Zenon DEF AccountOK, Unique
  <2>3. all' = all \ gone
    BY <1>1, ZenonT(60) DEF all
  <2>4. all = UNION {pending[a] \cup queue[a] : a \in Addr}
    BY Zenon DEF IInv, ListsOK
  <2>5. \A a \in Addr : pending'[a] \cup queue'[a] = (pending[a] \cup queue[a]) \ gone
    BY <1>1, <1>4, Zenon
  <2>6. all' = UNION {pending'[a] \cup queue'[a] : a \in Addr}
    <3> HIDE DEF gone
    <3>1. ASSUME NEW t PROVE t \in all' <=> \E a \in Addr : t \in pending'[a] \cup queue'[a]
      <4>1. t \in all <=> \E a \in Addr : t \in pending[a] \cup queue[a]
        BY <2>4, Zenon
      <4>2. \A a \in Addr : t \in pending'[a] \cup queue'[a] <=> t \in pending[a] \cup queue[a] /\ t \notin gone
        BY <2>5, Zenon
      <4> QED
        BY <2>3, <4>1, <4>2, Zenon
    <3> QED
      BY <3>1, Zenon
  <2> QED
    BY <2>1, <2>2, <2>6, Zenon DEF ListsOK
<1>6. TypeOK'
  <2>1. pending' \in [Addr -> SUBSET Tx]
    BY <1>5, Zenon DEF ListsOK
  <2> QED
    BY <1>1, <1>2, <2>1, Zenon DEF IInv, TypeOK
<1>7. Remotely'
  BY <1>1, ZenonT(60) DEF IInv, Remotely
<1>8. Keeps
  <2>1. all \ all' \subseteq gone
    BY <1>1, ZenonT(60) DEF all
  <2>2. \A t \in gone : \E a \in S : t \in pending[a]
    BY Zenon DEF Last
  <2>3. \A t \in gone : t.from \in S
    BY <1>3, <2>2, ZenonT(60) DEF AccountOK
  <2> QED
    BY <2>1, <2>3, Zenon DEF Keeps
<1> QED
  BY <1>1, <1>5, <1>6, <1>7, <1>8, Zenon DEF IInv, QueuedHasHeartbeat, NonEmpty
=============================================================================
