----------------------- MODULE LegacyPoolNonceProofs ------------------------
(***************************************************************************)
(* The pending nonces of an account have no gap and the virtual nonce      *)
(* follows them; every pending transaction is announced.                   *)
(***************************************************************************)
EXTENDS LegacyPoolProofs

\* No gap between the nonce n0 and any transaction of the list.
Front(L, n0) == \A t \in L : \A n \in n0 .. t.nonce : Has(L, n)

\* The list has every nonce from n0 up to the virtual nonce v.
Covered(L, n0, v) == \A n \in n0 .. v - 1 : Has(L, n)

\* No gap between any two transactions of the list.
Contiguous(L) == \A s, t \in L : \A n \in s.nonce .. t.nonce : Has(L, n)

\* The virtual nonce v is one past the last nonce of the list.
Ends(L, v) == L # {} => Has(L, v - 1) /\ \A t \in L : t.nonce < v

\* Between the reset of the virtual nonces and their recomputation by setAll
\* they may lag behind the lists, and the lists may hold stale transactions
\* with a gap behind them.
Resetting == stage = "promote" /\ isReset

AccountNonces(a) ==
    /\ fallback[a] <= stNonce[a]
    /\ Front(pending[a], stNonce[a])
    /\ stage # "demote" => Covered(pending[a], stNonce[a], pnonce[a])
    /\ ~Resetting /\ ~(stage = "demote" /\ a \in todo) => Contiguous(pending[a])
    /\ ~Resetting /\ stage # "demote" => Ends(pending[a], pnonce[a])

\* The inductive invariant behind PendingContiguous and VirtualNonce.
NonceInv == rollbacks = 0 => \A a \in Addr : AccountNonces(a)

-----------------------------------------------------------------------------
(* The nonces of one list. *)

\* Ends is what VirtualNonce says of a list.
LEMMA EndsIsLast ==
    ASSUME NEW L \in SUBSET Tx, L # {}, NEW v \in Nat, Ends(L, v)
    PROVE  v = 1 + LastNonce(L)
<1>1. PICK t \in L : t.nonce = v - 1
  BY Zenon DEF Ends, Has
<1>2. PICK u \in L : u.nonce = LastNonce(L)
  BY LastNonceIs, Zenon DEF Has
<1>3. LastNonce(L) < v /\ v - 1 <= LastNonce(L) /\ LastNonce(L) \in Nat
  BY <1>1, <1>2, LastNonceIs DEF Ends
<1> QED
  BY <1>3

\* One past the last nonce of a list ends it.
LEMMA LastEnds ==
    ASSUME NEW L \in SUBSET Tx, L # {}
    PROVE  1 + LastNonce(L) \in Nat /\ Ends(L, 1 + LastNonce(L))
<1>1. LastNonce(L) \in Nat /\ Has(L, LastNonce(L)) /\ \A t \in L : t.nonce <= LastNonce(L)
  BY LastNonceIs, Zenon
<1>2. (1 + LastNonce(L)) - 1 = LastNonce(L)
  BY <1>1
<1>3. \A t \in L : t.nonce \in Nat
  BY TxFields, Zenon
<1> QED
  BY <1>1, <1>2, <1>3 DEF Ends

\* A list without gaps in front that ends at v covers the nonces below v.
LEMMA FrontCovers ==
    ASSUME NEW L \in SUBSET Tx, NEW n0 \in Nat, NEW v \in Nat, Front(L, n0), L # {}, Ends(L, v)
    PROVE  Covered(L, n0, v)
<1>1. PICK t \in L : t.nonce = v - 1
  BY Zenon DEF Ends, Has
<1> QED
  BY <1>1, Zenon DEF Front, Covered

\* Cutting a list off at the nonce c: removeTx of a pending transaction, and
\* list.Cap.
LEMMA CutNonces ==
    ASSUME NEW L \in SUBSET Tx, NEW c \in Nat, NEW n0 \in Nat, NEW v \in Nat, Has(L, c),
           NEW K, K = {t \in L : t.nonce < c}
    PROVE  /\ Front(L, n0) => Front(K, n0)
           /\ Covered(L, n0, v) => Covered(K, n0, Lower(v, c))
           /\ Contiguous(L) => Contiguous(K)
           /\ Contiguous(L) /\ Ends(L, v) => Ends(K, Lower(v, c))
<1>1. \A t \in L : t.nonce \in Nat
  BY TxFields, Zenon
<1>2. \A n \in Int : n < c /\ Has(L, n) => Has(K, n)
  BY Zenon DEF Has
<1>3. Front(L, n0) => Front(K, n0)
  BY <1>1, <1>2 DEF Front
<1>4. Covered(L, n0, v) => Covered(K, n0, Lower(v, c))
  BY <1>2 DEF Covered, Lower
<1>5. Contiguous(L) => Contiguous(K)
  BY <1>1, <1>2 DEF Contiguous
<1>6. ASSUME Contiguous(L), Ends(L, v), K # {} PROVE Ends(K, Lower(v, c))
  <2>1. PICK t \in L : t.nonce = c
    BY Zenon DEF Has
  <2>2. c < v
    BY <1>6, <2>1, Zenon DEF Ends
  <2>3. PICK k \in K : TRUE
    BY <1>6, Zenon
  <2>4. k \in L /\ k.nonce \in Nat /\ k.nonce < c
    BY <1>1, <2>3, Zenon
  <2>5. Has(L, c - 1)
    BY <1>6, <2>1, <2>4 DEF Contiguous
  <2>6. Has(K, c - 1)
    BY <1>2, <2>5
  <2>7. Lower(v, c) = c
    BY <2>2 DEF Lower
  <2> QED
    BY <2>6, <2>7, Zenon DEF Ends
<1>7. K = {} => Ends(K, Lower(v, c))
  BY Zenon DEF Ends
<1> QED
  BY <1>3, <1>4, <1>5, <1>6, <1>7, Zenon

\* A list with the same nonces is as good.
LEMMA SameNonces ==
    ASSUME NEW L \in SUBSET Tx, NEW K \in SUBSET Tx, \A n \in Nat : Has(L, n) <=> Has(K, n),
           NEW n0 \in Nat, NEW v \in Nat
    PROVE  /\ Front(L, n0) => Front(K, n0)
           /\ Covered(L, n0, v) => Covered(K, n0, v)
           /\ Contiguous(L) => Contiguous(K)
           /\ Ends(L, v) => Ends(K, v)
<1>1. /\ \A t \in L : t.nonce \in Nat
      /\ \A t \in K : t.nonce \in Nat
  BY TxFields, Zenon
<1>2. \A t \in K : \E u \in L : u.nonce = t.nonce
  BY <1>1, Zenon DEF Has
<1>3. \A t \in L : \E u \in K : u.nonce = t.nonce
  BY <1>1, Zenon DEF Has
<1>4. Front(L, n0) => Front(K, n0)
  BY <1>1, <1>2 DEF Front
<1>5. Covered(L, n0, v) => Covered(K, n0, v)
  BY DEF Covered
<1>6. Contiguous(L) => Contiguous(K)
  <2> SUFFICES ASSUME Contiguous(L), NEW s \in K, NEW t \in K, NEW n \in s.nonce .. t.nonce
               PROVE  Has(K, n)
    BY Zenon DEF Contiguous
  <2>1. PICK s1 \in L, t1 \in L : s1.nonce = s.nonce /\ t1.nonce = t.nonce
    BY <1>2, Zenon
  <2>2. Has(L, n) /\ n \in Nat
    BY <1>1, <2>1 DEF Contiguous
  <2> QED
    BY <2>2, Zenon
<1>7. ASSUME Ends(L, v), K # {} PROVE Ends(K, v)
  <2>1. L # {}
    BY <1>2, <1>7, Zenon
  <2>2. Has(L, v - 1) /\ \A t \in L : t.nonce < v
    BY <1>7, <2>1, Zenon DEF Ends
  <2>3. v - 1 \in Nat
    BY <1>1, <2>2, Zenon DEF Has
  <2>4. Has(K, v - 1)
    BY <2>2, <2>3, Zenon
  <2> QED
    BY <1>2, <2>2, <2>4, Zenon DEF Ends
<1>8. K = {} => Ends(K, v)
  BY Zenon DEF Ends
<1> QED
  BY <1>4, <1>5, <1>6, <1>7, <1>8, Zenon

-----------------------------------------------------------------------------
(* The steps of the pool keep the nonces in order. *)

\* A step that changes neither the lists nor the nonces, and does not end the
\* reset of the virtual nonces.
LEMMA QuietNonces ==
    ASSUME NonceInv, UNCHANGED <<pending, pnonce, stNonce, fallback, rollbacks>>,
           stage = "demote" => stage' = "demote" /\ todo' = todo,
           Resetting => Resetting' \/ (stage' = "demote" /\ todo' = NonEmpty(pending))
    PROVE  NonceInv'
<1> SUFFICES ASSUME rollbacks' = 0, NEW a \in Addr PROVE AccountNonces(a)'
  BY Zenon DEF NonceInv
<1>1. AccountNonces(a)
  BY Zenon DEF NonceInv
<1>2. pending[a] = {} => Contiguous(pending[a])
  BY Zenon DEF Contiguous
<1>3. a \notin NonEmpty(pending) => pending[a] = {}
  BY Zenon DEF NonEmpty
<1>4. ~Resetting' /\ stage' # "demote" => ~Resetting /\ stage # "demote"
  BY Zenon
<1>5. ~Resetting' /\ ~(stage' = "demote" /\ a \in todo') =>
         \/ ~Resetting /\ ~(stage = "demote" /\ a \in todo)
         \/ a \notin NonEmpty(pending)
  BY Zenon
<1> QED
  BY <1>1, <1>2, <1>3, <1>4, <1>5, Zenon DEF AccountNonces

\* Execution of a transaction raises the nonce of the state.
LEMMA ChainNonces == ASSUME IInv, NonceInv, Chain PROVE NonceInv'
<1> USE DEF chainVars, listVars, runVars, reqVars, addVars
<1>1. ASSUME NEW a \in Addr, StateWrite(a) PROVE NonceInv'
  <2> SUFFICES ASSUME rollbacks' = 0, NEW b \in Addr PROVE AccountNonces(b)'
    BY Zenon DEF NonceInv
  <2>1. UNCHANGED <<pending, pnonce, fallback, stage, isReset, todo, rollbacks>>
    BY <1>1, Zenon DEF StateWrite
  <2>2. stNonce[b] \in Nat /\ stNonce'[b] \in Nat /\ stNonce[b] <= stNonce'[b]
    BY <1>1 DEF StateWrite, IInv, TypeOK
  <2>3. AccountNonces(b) /\ fallback[b] \in Nat
    BY <2>1, NonceTypes, Zenon DEF NonceInv
  <2>4. fallback'[b] <= stNonce'[b]
    BY <2>1, <2>2, <2>3 DEF AccountNonces
  <2>5. Front(pending'[b], stNonce'[b])
    BY <2>1, <2>2, <2>3, NonceTypes, TxFields DEF AccountNonces, Front
  <2>6. stage' # "demote" => Covered(pending'[b], stNonce'[b], pnonce'[b])
    BY <2>1, <2>2, <2>3, NonceTypes DEF AccountNonces, Covered
  <2> QED
    BY <2>1, <2>3, <2>4, <2>5, <2>6, Zenon DEF AccountNonces, Resetting
<1>2. ASSUME NEW a \in Addr, Transfer(a) PROVE NonceInv'
  BY <1>2, QuietNonces, Zenon DEF Transfer, Resetting
<1>3. ASSUME NEW a \in Addr, Rollback(a) PROVE NonceInv'
  BY <1>3 DEF Rollback, NonceInv, IInv, TypeOK
<1>4. ASSUME RequestReset PROVE NonceInv'
  BY <1>4, QuietNonces, Zenon DEF RequestReset, Resetting
<1> QED
  BY <1>1, <1>2, <1>3, <1>4 DEF Chain

\* Requests, refusals, the marking of transactions and the steps between the
\* loops of a run.
LEMMA IdleNonces ==
    ASSUME IInv, NonceInv,
           \/ \E t \in Tx, local \in Source : AddBegin(t, local)
           \/ \E r \in inflight : AddRefused(r) \/ AddAccepted(r)
           \/ Enqueue \/ Purging \/ Launch \/ Promoted \/ PendingTruncated \/ QueueTruncated
           \/ RunUnlock \/ Announce \/ \E a \in Addr : PopSpammer(a) \/ truncateQueue(a)
    PROVE  NonceInv'
<1> USE DEF chainVars, listVars, runVars, reqVars, addVars, Resetting
<1>1. ASSUME NEW t \in Tx, NEW local \in Source, AddBegin(t, local) PROVE NonceInv'
  BY <1>1, QuietNonces, Zenon DEF AddBegin
<1>2. ASSUME NEW r \in inflight, AddRefused(r) PROVE NonceInv'
  BY <1>2, QuietNonces, Zenon DEF AddRefused
<1>3. ASSUME NEW r \in inflight, AddAccepted(r) PROVE NonceInv'
  <2>1. UNCHANGED <<pending, pnonce, stNonce, fallback, rollbacks>> /\ stage = "free"
    BY <1>3, Zenon DEF AddAccepted
  <2> QED
    BY <2>1, QuietNonces, SMTT(30)
<1>4. CASE Enqueue
  <2>1. UNCHANGED <<pending, pnonce, stNonce, fallback, rollbacks>> /\ stage = "insert"
    BY <1>4, Zenon DEF Enqueue
  <2> QED
    BY <2>1, QuietNonces, SMTT(30)
<1>5. CASE Purging
  <2>1. UNCHANGED <<pending, pnonce, stNonce, fallback, rollbacks>> /\ stage \in {"free", "purge"}
    BY <1>5, Zenon DEF Purging, Evict, SetGasTip, PurgeDone
  <2> QED
    BY <2>1, QuietNonces, SMTT(30)
<1>6. CASE Launch
  <2>1. /\ UNCHANGED <<pending, pnonce, stNonce, fallback, rollbacks, stage>>
        /\ run = "idle"
    BY <1>6, Zenon DEF Launch
  <2>2. stage \in {"free", "insert", "purge"}
    BY <2>1 DEF IInv, TypeOK
  <2> QED
    BY <2>1, <2>2, QuietNonces
<1>7. CASE Promoted
  BY <1>7, QuietNonces, Zenon DEF Promoted
<1>8. CASE PendingTruncated
  BY <1>8, QuietNonces DEF PendingTruncated
<1>9. CASE QueueTruncated
  BY <1>9, QuietNonces, Zenon DEF QueueTruncated
<1>10. CASE RunUnlock
  BY <1>10, QuietNonces DEF RunUnlock
<1>11. CASE Announce
  <2>1. /\ UNCHANGED <<pending, pnonce, stNonce, fallback, rollbacks, stage>>
        /\ run = "sending"
    BY <1>11, Zenon DEF Announce
  <2>2. stage \in {"free", "insert", "purge"}
    BY <2>1, Zenon DEF IInv, TypeOK
  <2> QED
    BY <2>1, <2>2, QuietNonces, Zenon
<1>12. ASSUME NEW a \in Addr, PopSpammer(a) PROVE NonceInv'
  BY <1>12, QuietNonces DEF PopSpammer
<1>13. ASSUME NEW a \in Addr, truncateQueue(a) PROVE NonceInv'
  <2>1. UNCHANGED <<pending, pnonce, stNonce, fallback, rollbacks>> /\ stage = "truncateQueue"
    BY <1>13, Zenon DEF truncateQueue
  <2> QED
    BY <2>1, QuietNonces, Zenon
<1> QED
  BY <1>1, <1>2, <1>3, <1>4, <1>5, <1>6, <1>7, <1>8, <1>9, <1>10, <1>11, <1>12, <1>13, ZenonT(40)

\* A step that changes the nonces of one account only.
LEMMA OneAccountNonces ==
    ASSUME NonceInv, UNCHANGED <<stNonce, fallback, rollbacks, stage, isReset>>, NEW a \in Addr,
           \A b \in Addr \ {a} :
               pending'[b] = pending[b] /\ pnonce'[b] = pnonce[b] /\ (b \in todo' <=> b \in todo),
           rollbacks = 0 /\ AccountNonces(a) => AccountNonces(a)'
    PROVE  NonceInv'
<1> SUFFICES ASSUME rollbacks' = 0, NEW b \in Addr PROVE AccountNonces(b)'
  BY Zenon DEF NonceInv
<1>1. AccountNonces(b)
  BY Zenon DEF NonceInv
<1>2. CASE b = a
  BY <1>1, <1>2
<1>3. CASE b # a
  BY <1>1, <1>3, Zenon DEF AccountNonces, Resetting
<1> QED
  BY <1>2, <1>3, Zenon

\* removeTx of a pending transaction cuts the list there, and lowers the
\* virtual nonce with it.
LEMMA RemoveNonces == ASSUME IInv, NonceInv, NEW t \in victims, RemoveVictim(t) PROVE NonceInv'
<1> USE DEF chainVars, listVars, runVars, reqVars, addVars
<1>1. UNCHANGED <<stNonce, fallback, rollbacks, stage, isReset, todo>>
  BY Zenon DEF RemoveVictim
<1>2. stage \in {"insert", "purge", "truncateQueue"}
  BY DEF IInv, TypeOK
<1>3. CASE ~(t \in all /\ InPending(t))
  <2>1. UNCHANGED <<pending, pnonce>>
    BY <1>3, ZenonT(60) DEF RemoveVictim, removeTx
  <2> QED
    BY <1>1, <1>2, <2>1, QuietNonces, Zenon DEF Resetting
<1>4. CASE t \in all /\ InPending(t)
  <2> DEFINE a == t.from
             L == pending[a]
             K == {u \in L : u.nonce < t.nonce}
  <2>1. t \in Tx /\ a \in Addr /\ t.nonce \in Nat
    BY <1>4, KnownIsListed, TxFields DEF IInv
  <2>2. /\ pending' = [pending EXCEPT ![a] = K]
        /\ pnonce' = [pnonce EXCEPT ![a] = Lower(@, t.nonce)]
    BY <1>4, ZenonT(60) DEF RemoveVictim, removeTx
  <2>3. pending \in [Addr -> SUBSET Tx] /\ pnonce \in [Addr -> Nat]
    BY DEF IInv, TypeOK
  <2>4. /\ pending'[a] = K /\ pnonce'[a] = Lower(pnonce[a], t.nonce)
        /\ \A b \in Addr \ {a} : pending'[b] = pending[b] /\ pnonce'[b] = pnonce[b]
    BY <2>1, <2>2, <2>3, Zenon
  <2>5. Has(L, t.nonce) /\ L \in SUBSET Tx /\ stNonce[a] \in Nat /\ pnonce[a] \in Nat
    BY <1>4, <2>1, NonceTypes, SMTT(30) DEF InPending
  <2> HIDE DEF a, L
  <2>6. /\ Front(L, stNonce[a]) => Front(K, stNonce[a])
        /\ Covered(L, stNonce[a], pnonce[a]) => Covered(K, stNonce[a], Lower(pnonce[a], t.nonce))
        /\ Contiguous(L) => Contiguous(K)
        /\ Contiguous(L) /\ Ends(L, pnonce[a]) => Ends(K, Lower(pnonce[a], t.nonce))
    BY <2>1, <2>5, CutNonces, Zenon
  <2> HIDE DEF K
  <2>7. L = pending[a]
    BY SMTT(30) DEF L
  <2>8. AccountNonces(a) => AccountNonces(a)'
    BY <1>1, <1>2, <2>4, <2>6, <2>7, Zenon DEF AccountNonces, Resetting
  <2> QED
    BY <1>1, <2>1, <2>4, <2>8, OneAccountNonces, Zenon
<1> QED
  BY <1>3, <1>4, SMTT(30)

\* Replacing a pending transaction keeps the nonces of the list.
LEMMA ReplaceNonces == ASSUME IInv, NonceInv, ReplacePending PROVE NonceInv'
<1> USE DEF chainVars, listVars, runVars, reqVars, addVars
<1> DEFINE t == job.tx
           a == t.from
           L == pending[a]
<1>1. UNCHANGED <<stNonce, fallback, rollbacks, isReset, todo, pnonce>> /\ stage = "insert" /\ stage' = "free"
  BY Zenon DEF ReplacePending
<1>2. t \in Tx /\ a \in Addr
  BY TxFields DEF IInv, TypeOK
<1>3. CASE Rejects(L, t)
  <2>1. UNCHANGED pending
    BY <1>3 DEF ReplacePending
  <2> QED
    BY <1>1, <2>1, QuietNonces, Zenon DEF Resetting
<1>4. CASE ~Rejects(L, t)
  <2>1. pending' = [pending EXCEPT ![a] = Put(L, t)] /\ InPending(t)
    BY <1>4 DEF ReplacePending
  <2>2. pending \in [Addr -> SUBSET Tx] /\ L \in SUBSET Tx
    BY <1>2, Zenon DEF IInv, TypeOK
  <2>3. pending'[a] = Put(L, t) /\ \A b \in Addr \ {a} : pending'[b] = pending[b]
    BY <1>2, <2>1, <2>2
  <2>4. Put(L, t) \in SUBSET Tx
    BY <1>2, <2>2, Zenon DEF Put
  <2>5. \A n \in Nat : Has(L, n) <=> Has(Put(L, t), n)
    BY <2>1, Zenon DEF Has, Put, Old, InPending
  <2>6. stNonce[a] \in Nat /\ pnonce[a] \in Nat
    BY <1>2, NonceTypes, Zenon
  <2> HIDE DEF t, L
  <2>7. /\ Front(L, stNonce[a]) => Front(Put(L, t), stNonce[a])
        /\ Covered(L, stNonce[a], pnonce[a]) => Covered(Put(L, t), stNonce[a], pnonce[a])
        /\ Contiguous(L) => Contiguous(Put(L, t))
        /\ Ends(L, pnonce[a]) => Ends(Put(L, t), pnonce[a])
    BY <2>2, <2>4, <2>5, <2>6, SameNonces
  <2> HIDE DEF a
  <2>8. L = pending[a]
    BY Zenon DEF L, a
  <2> SUFFICES ASSUME rollbacks' = 0, NEW b \in Addr PROVE AccountNonces(b)'
    BY Zenon DEF NonceInv
  <2>9. AccountNonces(b)
    BY <1>1, Zenon DEF NonceInv
  <2>10. CASE b = a
    BY <1>1, <2>3, <2>7, <2>8, <2>9, <2>10, SMTT(30) DEF AccountNonces, Resetting
  <2>11. CASE b # a
    BY <1>1, <2>3, <2>9, <2>11, Zenon DEF AccountNonces, Resetting
  <2> QED
    BY <2>10, <2>11, Zenon
<1> QED
  BY <1>3, <1>4, Zenon

\* A reset starts over from the nonces of the state.
LEMMA RunLockNonces == ASSUME IInv, NonceInv, RunLock PROVE NonceInv'
<1> USE DEF chainVars, listVars, runVars, reqVars, addVars
<1>1. UNCHANGED <<stNonce, rollbacks, isReset, pending>> /\ stage = "free" /\ stage' = "promote"
  BY Zenon DEF RunLock
<1>2. CASE ~isReset
  <2>1. UNCHANGED <<fallback, pnonce>>
    BY <1>2, Zenon DEF RunLock
  <2> QED
    BY <1>1, <2>1, QuietNonces, SMTT(30) DEF Resetting
<1>3. CASE isReset
  <2>1. fallback' = stNonce /\ pnonce' = stNonce
    BY <1>3, Zenon DEF RunLock
  <2> SUFFICES ASSUME rollbacks' = 0, NEW b \in Addr PROVE AccountNonces(b)'
    BY Zenon DEF NonceInv
  <2>2. AccountNonces(b) /\ stNonce[b] \in Nat
    BY <1>1, NonceTypes, Zenon DEF NonceInv
  <2>3. Covered(pending'[b], stNonce'[b], pnonce'[b])
    BY <1>1, <2>1, <2>2 DEF Covered
  <2>4. fallback'[b] <= stNonce'[b]
    BY <1>1, <2>1, <2>2
  <2>5. Front(pending'[b], stNonce'[b])
    BY <1>1, <2>2, Zenon DEF AccountNonces
  <2>6. Resetting' /\ stage' # "demote"
    BY <1>1, <1>3, Zenon DEF Resetting
  <2> QED
    BY <2>3, <2>4, <2>5, <2>6, Zenon DEF AccountNonces
<1> QED
  BY <1>2, <1>3, Zenon

\* What promoteExecutables does to the lists of the account: the promoted
\* transactions R are the payable ones from a nonce that is at most the
\* virtual one on, without a gap.
Promotion(a, R) ==
    /\ R \subseteq queue[a]
    /\ pending' = [pending EXCEPT ![a] = @ \cup R]
    /\ pnonce' = [pnonce EXCEPT ![a] = IF R = {} THEN @ ELSE 1 + LastNonce(R)]
    /\ runEvents' = PutEvents(runEvents, R)
    /\ \A t \in R : t.nonce >= stNonce[a]
    /\ R # {} => \E first \in R :
          /\ first.nonce <= pnonce[a]
          /\ \A t \in R : first.nonce <= t.nonce /\ \A n \in first.nonce .. t.nonce : Has(R, n)

LEMMA PromotionFacts ==
    ASSUME IInv, NEW a \in Addr, promoteExecutables(a)
    PROVE  \E R : Promotion(a, R)
<1> USE DEF chainVars, listVars, runVars, reqVars, addVars
<1> DEFINE P == pending[a]
           Q == queue[a]
           q == Q \ Forward(Q, stNonce[a])
           paid == q \ Unpayable(q, stBal[a])
           R == Ready(paid, pnonce[a])
           promoted == R \ RejectedOf(P, R)
<1>1. /\ pending' = [pending EXCEPT ![a] = PutAll(@, R)]
      /\ pnonce' = [pnonce EXCEPT ![a] = IF promoted = {} THEN @ ELSE 1 + LastNonce(promoted)]
      /\ runEvents' = PutEvents(runEvents, promoted)
  BY ZenonT(60) DEF promoteExecutables
<1>2. paid \subseteq Q /\ \A t \in paid : t \in Q /\ ~(t.nonce < stNonce[a])
  BY ZenonT(60) DEF Forward
<1>3. P \in SUBSET Tx /\ Q \in SUBSET Tx /\ Unique(Q \cup P) /\ Q \cap P = {} /\ stNonce[a] \in Nat
  BY NonceTypes, ZenonT(60) DEF AccountOK, Unique
<1> HIDE DEF paid, P, Q
<1>4. R \subseteq paid
  BY DEF Ready
<1>5. R # {} => \E first \in R :
         /\ first.nonce <= pnonce[a]
         /\ \A t \in R : first.nonce <= t.nonce /\ \A n \in first.nonce .. t.nonce : Has(R, n)
  <2> SUFFICES ASSUME NEW r \in R
               PROVE  \E first \in R :
                  /\ first.nonce <= pnonce[a]
                  /\ \A t \in R : first.nonce <= t.nonce /\ \A n \in first.nonce .. t.nonce : Has(R, n)
    BY ZenonT(60)
  <2>0. \A t \in paid : t.nonce \in Nat
    BY <1>2, <1>3, TxFields, Zenon
  <2>1. PICK first \in paid : /\ first.nonce <= pnonce[a]
                              /\ \A u \in paid : first.nonce <= u.nonce
    BY DEF Ready
  <2>2. ASSUME NEW t \in R PROVE \A n \in first.nonce .. t.nonce : Has(paid, n)
    <3>1. PICK f2 \in paid : /\ \A u \in paid : f2.nonce <= u.nonce
                             /\ \A n \in f2.nonce .. t.nonce : Has(paid, n)
      BY DEF Ready
    <3>2. f2.nonce = first.nonce
      BY <2>0, <2>1, <3>1
    <3> QED
      BY <3>1, <3>2, Zenon
  <2>3. ASSUME NEW t \in R, NEW n \in first.nonce .. t.nonce PROVE Has(R, n)
    <3>1. PICK u \in paid : u.nonce = n
      BY <2>2, <2>3 DEF Has
    <3>2. \A m \in first.nonce .. u.nonce : m \in first.nonce .. t.nonce
      BY <2>0, <3>1, <1>4
    <3>3. \A m \in first.nonce .. u.nonce : Has(paid, m)
      BY <2>2, <3>2, Zenon
    <3>4. u \in R
      BY <2>1, <3>1, <3>3 DEF Ready
    <3> QED
      BY <3>1, <3>4, Zenon DEF Has
  <2>4. first \in R
    <3>1. r.nonce \in Nat /\ first.nonce \in Nat /\ first.nonce <= r.nonce
      BY <1>4, <2>0, <2>1
    <3>2. \A n \in first.nonce .. first.nonce : n = first.nonce
      BY <3>1
    <3>3. \A n \in first.nonce .. first.nonce : Has(paid, n)
      BY <3>2, Zenon DEF Has
    <3> QED
      BY <2>1, <3>3, Zenon DEF Ready
  <2> QED
    BY <1>4, <2>1, <2>3, <2>4, Zenon
<1> HIDE DEF R
<1>6. R \in SUBSET Q
  BY <1>2, <1>4
<1>7. RejectedOf(P, R) = {} /\ PutAll(P, R) = P \cup R
  <2>1. RejectedOf(P, R) = {}
    BY <1>3, <1>6, MoveIsUnion, ZenonT(60)
  <2>2. ReplacedOf(P, R) = {}
    BY <1>3, <1>6, MoveIsUnion, ZenonT(60)
  <2> QED
    BY <2>1, <2>2, Zenon DEF PutAll
<1>8. promoted = R
  BY <1>7
<1>9. pending' = [pending EXCEPT ![a] = @ \cup R]
  BY <1>1, <1>7, Zenon DEF P
<1>10. \A t \in R : t.nonce >= stNonce[a]
  BY <1>2, <1>3, <1>4, TxFields
<1>11. Promotion(a, R)
  BY <1>1, <1>5, <1>6, <1>8, <1>9, <1>10, ZenonT(40) DEF Promotion, Q
<1> QED
  BY <1>11, Zenon

\* The promoted transactions continue the pending ones.
LEMMA PromoteNonces == ASSUME IInv, NonceInv, NEW a \in Addr, promoteExecutables(a) PROVE NonceInv'
<1> USE DEF chainVars, listVars, runVars, reqVars, addVars
<1>1. UNCHANGED <<stNonce, fallback, rollbacks, isReset, stage>> /\ stage = "promote" /\ todo' = todo \ {a}
  BY ZenonT(60) DEF promoteExecutables
<1>2. PICK R : Promotion(a, R)
  BY PromotionFacts
<1> DEFINE P == pending[a]
           n0 == stNonce[a]
           v == pnonce[a]
<1>3. /\ P \in SUBSET Tx /\ R \in SUBSET Tx /\ n0 \in Nat /\ v \in Nat
      /\ \A t \in R : ~Has(P, t.nonce)
  BY <1>2, NonceTypes DEF Promotion, AccountOK, Unique, Has
<1>4. pending \in [Addr -> SUBSET Tx] /\ pnonce \in [Addr -> Nat]
  BY Zenon DEF IInv, TypeOK
<1>5. /\ pending'[a] = P \cup R
      /\ pnonce'[a] = IF R = {} THEN v ELSE 1 + LastNonce(R)
      /\ \A b \in Addr \ {a} : pending'[b] = pending[b] /\ pnonce'[b] = pnonce[b]
  BY <1>2, <1>4, SMTT(30) DEF Promotion
<1>6. ASSUME rollbacks = 0, AccountNonces(a), R = {} PROVE AccountNonces(a)'
  <2>1. pending'[a] = pending[a] /\ pnonce'[a] = pnonce[a]
    BY <1>5, <1>6, ZenonT(40)
  <2> QED
    BY <1>1, <1>6, <2>1, Zenon DEF AccountNonces, Resetting
<1>7. ASSUME rollbacks = 0, AccountNonces(a), R # {} PROVE AccountNonces(a)'
  <2>1. PICK first \in R :
          /\ first.nonce <= v
          /\ \A t \in R : first.nonce <= t.nonce /\ \A n \in first.nonce .. t.nonce : Has(R, n)
    BY <1>2, <1>7 DEF Promotion
  <2>2. /\ \A t \in P \cup R : t.nonce \in Nat
        /\ \A t \in R : t.nonce >= n0
    BY <1>2, <1>3, TxFields, SMTT(30) DEF Promotion
  <2>3. Front(P, n0) /\ Covered(P, n0, v)
    BY <1>1, <1>7, Zenon DEF AccountNonces
  <2>12. \A n : Has(P \cup R, n) <=> Has(P, n) \/ Has(R, n)
    BY Zenon DEF Has
  <2> HIDE DEF P, n0, v
  <2>4. Front(P \cup R, n0)
    <3> SUFFICES ASSUME NEW t \in P \cup R, NEW n \in n0 .. t.nonce PROVE Has(P \cup R, n)
      BY Zenon DEF Front
    <3>1. CASE t \in P
      BY <2>3, <2>12, <3>1, Zenon DEF Front
    <3>2. CASE t \in R /\ n < first.nonce
      BY <1>3, <2>1, <2>2, <2>3, <2>12, <3>2, SMTT(30) DEF Covered
    <3>3. CASE t \in R /\ n >= first.nonce
      <4>1. n \in first.nonce .. t.nonce
        BY <1>3, <2>2, <3>3
      <4>2. Has(R, n)
        BY <2>1, <3>3, <4>1, Zenon
      <4> QED
        BY <2>12, <4>2, Zenon
    <3> QED
      BY <1>3, <2>2, <3>1, <3>2, <3>3, SMTT(30)
  <2>5. LastNonce(R) \in Nat /\ Ends(R, 1 + LastNonce(R)) /\ Has(R, LastNonce(R))
    BY <1>3, <1>7, LastEnds, LastNonceIs, Zenon
  <2>6. PICK l \in R : l.nonce = LastNonce(R)
    BY <2>5, Zenon DEF Has
  <2>7. \A t \in P : t.nonce < l.nonce
    <3> SUFFICES ASSUME NEW t \in P, ~(t.nonce < l.nonce) PROVE FALSE
      BY Zenon
    <3>1. l.nonce \in n0 .. t.nonce
      BY <1>3, <2>2
    <3>2. Has(P, l.nonce)
      BY <2>3, <3>1, Zenon DEF Front
    <3> QED
      BY <1>3, <3>2, Zenon
  <2>8. Ends(P \cup R, 1 + LastNonce(R))
    <3>1. Has(P \cup R, (1 + LastNonce(R)) - 1)
      BY <2>5, <2>12
    <3>2. \A t \in R : t.nonce < 1 + LastNonce(R)
      BY <1>7, <2>5, Zenon DEF Ends
    <3>3. \A t \in P : t.nonce < 1 + LastNonce(R)
      BY <2>2, <2>5, <2>6, <2>7
    <3> QED
      BY <3>1, <3>2, <3>3 DEF Ends
  <2>9. Covered(P \cup R, n0, 1 + LastNonce(R))
    <3>1. 1 + LastNonce(R) \in Nat /\ P \cup R \in SUBSET Tx /\ P \cup R # {}
      BY <1>3, <1>7, <2>5
    <3> QED
      BY <1>3, <2>4, <2>8, <3>1, FrontCovers, Zenon
  <2>10. ASSUME Contiguous(P), Ends(P, v) PROVE Contiguous(P \cup R)
    <3> SUFFICES ASSUME NEW s \in P \cup R, NEW t \in P \cup R, NEW n \in s.nonce .. t.nonce
                 PROVE  Has(P, n) \/ Has(R, n)
      BY <2>12, Zenon DEF Contiguous
    <3>0. s.nonce \in Nat /\ t.nonce \in Nat /\ n \in Nat /\ s.nonce <= n /\ n <= t.nonce /\ first.nonce \in Nat
      BY <2>2
    <3>1. CASE s \in P /\ t \in P
      BY <2>10, <3>1, Zenon DEF Contiguous
    <3>2. CASE s \in R /\ t \in P
      BY <1>3, <2>2, <2>3, <3>0, <3>2, SMTT(30) DEF Front
    <3>3. CASE t \in R /\ n >= first.nonce
      BY <2>1, <3>0, <3>3
    <3>4. CASE s \in R /\ t \in R
      BY <2>1, <3>0, <3>4
    <3>5. CASE s \in P /\ t \in R /\ n < first.nonce
      <4>1. PICK u \in P : u.nonce = v - 1
        BY <2>10, <3>5 DEF Ends, Has
      <4>2. n \in s.nonce .. u.nonce
        BY <1>3, <2>1, <3>0, <3>5, <4>1, SMTT(30)
      <4> QED
        BY <2>10, <3>5, <4>1, <4>2, Zenon DEF Contiguous
    <3> QED
      BY <3>0, <3>1, <3>2, <3>3, <3>4, <3>5, SMTT(30)
  <2>11. P = pending[a] /\ n0 = stNonce[a] /\ v = pnonce[a]
    BY Zenon DEF P, n0, v
  <2>13. ~Resetting => Contiguous(P) /\ Ends(P, v)
    BY <1>1, <1>7, <2>11, Zenon DEF AccountNonces
  <2>14. pnonce'[a] = 1 + LastNonce(R) /\ pending'[a] = P \cup R
    BY <1>5, <1>7, Zenon DEF P
  <2> QED
    BY <1>1, <1>7, <2>4, <2>8, <2>9, <2>10, <2>11, <2>13, <2>14, SMTT(30) DEF AccountNonces, Resetting
<1> QED
  <2>1. \A b \in Addr \ {a} : b \in todo' <=> b \in todo
    BY <1>1, Zenon
  <2> QED
    BY <1>1, <1>5, <1>6, <1>7, <2>1, OneAccountNonces, SMTT(30)

\* demoteUnexecutables leaves the payable transactions from the nonce of the
\* state on, up to the first one that cannot be paid for.
LEMMA DemoteNonces == ASSUME IInv, NonceInv, NEW a \in Addr, demoteUnexecutables(a) PROVE NonceInv'
<1> USE DEF chainVars, listVars, runVars, reqVars, addVars
<1> DEFINE P == pending[a]
           n0 == stNonce[a]
           p == P \ Forward(P, n0)
           drops == Unpayable(p, stBal[a])
           invalids == Invalids(p, drops)
           paid == (p \ drops) \ invalids
           gapped == IF Has(paid, n0) THEN {} ELSE paid
           K == paid \ gapped
<1>1. /\ UNCHANGED <<stNonce, fallback, rollbacks, isReset, stage, pnonce>> /\ stage = "demote" /\ todo' = todo \ {a}
      /\ pending' = [pending EXCEPT ![a] = K]
  BY ZenonT(60) DEF demoteUnexecutables
<1>2. P \in SUBSET Tx /\ n0 \in Nat
  BY NonceTypes, SMTT(30)
<1>3. /\ pending'[a] = K
      /\ \A b \in Addr \ {a} : pending'[b] = pending[b] /\ (b \in todo' <=> b \in todo)
  BY <1>1, Zenon DEF IInv, TypeOK
<1>4. /\ \A t \in p : t \in P /\ t.nonce \in Nat /\ t.nonce >= n0
      /\ \A t \in P : t.nonce >= n0 => t \in p
  <2>1. \A t \in P : t.nonce \in Nat
    BY <1>2, TxFields, SMTT(30)
  <2> HIDE DEF P, n0
  <2> QED
    BY <1>2, <2>1 DEF Forward
<1>5. K \subseteq paid
  BY Zenon
<1> HIDE DEF P, n0, p, K
<1>6. paid \subseteq p
  OBVIOUS
<1>7. ASSUME Front(P, n0) PROVE Front(paid, n0)
  <2> SUFFICES ASSUME NEW t \in paid, NEW n \in n0 .. t.nonce PROVE Has(paid, n)
    BY Zenon DEF Front
  <2>1. t \in p /\ t \in P /\ t \notin drops /\ t \notin invalids
    BY <1>4, Zenon
  <2>2. PICK u \in P : u.nonce = n
    BY <1>7, <2>1 DEF Front, Has
  <2>3. u \in p /\ u.nonce <= t.nonce
    BY <1>2, <1>4, <2>1, <2>2
  <2>4. \A r \in drops : ~(r.nonce < t.nonce)
    BY <2>1, Zenon DEF Invalids
  <2>5. Unique(P)
    BY NonceTypes DEF AccountOK, Unique, P
  <2>6. u \notin drops
    <3>1. CASE u = t
      BY <2>1, <3>1
    <3>2. CASE u # t
      <4>1. u.nonce # t.nonce
        BY <2>1, <2>5, <3>2, Zenon DEF Unique
      <4> QED
        BY <1>4, <2>1, <2>3, <2>4, <4>1
    <3> QED
      BY <3>1, <3>2, Zenon
  <2>7. u \notin invalids
    <3> SUFFICES ASSUME NEW r \in drops, r.nonce < u.nonce PROVE FALSE
      BY Zenon DEF Invalids
    <3>1. r \in p
      BY Zenon DEF Unpayable
    <3> QED
      BY <1>4, <2>1, <2>3, <2>4, <3>1
  <2> QED
    BY <2>2, <2>3, <2>6, <2>7, Zenon DEF Has
<1> HIDE DEF paid
<1>8. ASSUME Front(P, n0) PROVE K = paid
  <2>1. CASE paid = {}
    BY <2>1, Zenon DEF K
  <2>2. CASE paid # {}
    <3>1. PICK t \in paid : TRUE
      BY <2>2, Zenon
    <3>2. n0 \in n0 .. t.nonce
      BY <1>2, <1>4, <1>6, <3>1
    <3>3. Has(paid, n0)
      BY <1>7, <1>8, <3>1, <3>2, SMTT(30) DEF Front
    <3> QED
      BY <3>3, Zenon DEF K
  <2> QED
    BY <2>1, <2>2, Zenon
<1>9. ASSUME rollbacks = 0, AccountNonces(a) PROVE AccountNonces(a)'
  <2>1. Front(P, n0)
    BY <1>9, SMTT(30) DEF AccountNonces, P, n0
  <2>2. pending'[a] = paid /\ Front(paid, n0)
    BY <1>3, <1>7, <1>8, <2>1, Zenon
  <2>3. Contiguous(paid)
    BY <1>2, <1>4, <1>6, <2>2 DEF Front, Contiguous
  <2>4. n0 = stNonce'[a]
    BY <1>1, Zenon DEF n0
  <2> QED
    BY <1>1, <1>9, <2>2, <2>3, <2>4, ZenonT(40) DEF AccountNonces, Resetting
<1> QED
  BY <1>1, <1>3, <1>9, OneAccountNonces, Zenon

\* setAll sets the virtual nonces to the ends of the lists again.
LEMMA SetAllNonces == ASSUME IInv, NonceInv, setAll PROVE NonceInv'
<1> USE DEF chainVars, listVars, runVars, reqVars, addVars
<1>1. /\ UNCHANGED <<stNonce, fallback, rollbacks, isReset, pending>>
      /\ stage = "demote" /\ todo = {} /\ stage' = "truncatePending"
  BY ZenonT(60) DEF setAll
<1>2. pnonce' = [a \in Addr |-> IF pending[a] = {} THEN fallback[a] ELSE 1 + LastNonce(pending[a])]
  BY ZenonT(60) DEF setAll
<1> SUFFICES ASSUME rollbacks' = 0, NEW a \in Addr PROVE AccountNonces(a)'
  BY Zenon DEF NonceInv
<1>3. AccountNonces(a)
  <2>1. rollbacks = 0
    BY <1>1, Zenon
  <2> QED
    BY <2>1, Zenon DEF NonceInv
<1>4. fallback[a] <= stNonce[a] /\ Front(pending[a], stNonce[a])
  BY <1>3, Zenon DEF AccountNonces
<1>5. Contiguous(pending[a])
  <2>1. ~Resetting /\ ~(stage = "demote" /\ a \in todo)
    BY <1>1, Zenon DEF Resetting
  <2> QED
    BY <1>3, <2>1, Zenon DEF AccountNonces
<1>6. pending[a] \in SUBSET Tx /\ stNonce[a] \in Nat /\ fallback[a] \in Nat
  BY NonceTypes
<1>7. Covered(pending[a], stNonce[a], pnonce'[a]) /\ Ends(pending[a], pnonce'[a])
  <2>1. CASE pending[a] = {}
    <3>1. pnonce'[a] = fallback[a]
      BY <1>2, <2>1, Zenon
    <3>2. Covered(pending[a], stNonce[a], fallback[a]) /\ Ends(pending[a], fallback[a])
      BY <1>4, <1>6, <2>1 DEF Covered, Ends
    <3> QED
      BY <3>1, <3>2
  <2>2. CASE pending[a] # {}
    <3>1. pnonce'[a] = 1 + LastNonce(pending[a])
      BY <1>2, <2>2, Zenon
    <3>2. 1 + LastNonce(pending[a]) \in Nat /\ Ends(pending[a], 1 + LastNonce(pending[a]))
      BY <1>4, <1>5, <1>6, <2>2, LastEnds, SMTT(30)
    <3>3. Covered(pending[a], stNonce[a], 1 + LastNonce(pending[a]))
      BY <1>4, <1>5, <1>6, <2>2, <3>2, FrontCovers, ZenonT(40)
    <3> QED
      BY <3>1, <3>2, <3>3, Zenon
  <2> QED
    BY <2>1, <2>2, Zenon
<1> QED
  BY <1>1, <1>4, <1>5, <1>7, Zenon DEF AccountNonces

\* Truncation cuts the lists at their ends.
LEMMA CapNonces ==
    ASSUME IInv, NonceInv, NEW S \in SUBSET Addr, CapOne(S), stage = "truncatePending"
    PROVE  NonceInv'
<1> USE DEF chainVars, listVars, runVars, reqVars, addVars
<1>1. UNCHANGED <<stNonce, fallback, rollbacks, isReset, stage, todo>>
  BY Zenon DEF CapOne
<1> SUFFICES ASSUME rollbacks' = 0, NEW a \in Addr PROVE AccountNonces(a)'
  BY Zenon DEF NonceInv
<1>2. AccountNonces(a)
  <2>1. rollbacks = 0
    BY <1>1, Zenon
  <2> QED
    BY <2>1, Zenon DEF NonceInv
<1>3. CASE ~(a \in S /\ pending[a] # {})
  BY <1>1, <1>2, <1>3, CapLists, ZenonT(40) DEF AccountNonces, Resetting
<1>4. CASE a \in S /\ pending[a] # {}
  <2> DEFINE L == pending[a]
             c == LastNonce(L)
             K == {t \in L : t.nonce < c}
  <2>1. pending'[a] = K /\ pnonce'[a] = Lower(pnonce[a], c)
    BY <1>4, CapLists, Zenon
  <2>2. L \in SUBSET Tx /\ stNonce[a] \in Nat /\ pnonce[a] \in Nat
    BY NonceTypes
  <2>3. c \in Nat /\ Has(L, c)
    BY <1>4, <2>2, LastNonceIs, SMTT(30)
  <2> HIDE DEF L, c
  <2>4. /\ Front(L, stNonce[a]) => Front(K, stNonce[a])
        /\ Covered(L, stNonce[a], pnonce[a]) => Covered(K, stNonce[a], Lower(pnonce[a], c))
        /\ Contiguous(L) => Contiguous(K)
        /\ Contiguous(L) /\ Ends(L, pnonce[a]) => Ends(K, Lower(pnonce[a], c))
    BY <2>2, <2>3, CutNonces, Zenon
  <2> HIDE DEF K
  <2>5. L = pending[a]
    BY Zenon DEF L
  <2> QED
    BY <1>1, <1>2, <2>1, <2>4, <2>5, ZenonT(40) DEF AccountNonces, Resetting
<1> QED
  BY <1>3, <1>4, SMTT(30)

\* Every step keeps the nonces in order.
LEMMA NextNonceInv == ASSUME IInv, NonceInv, [Next]_vars PROVE NonceInv'
<1>1. CASE Chain
  BY <1>1, ChainNonces, Zenon
<1>2. CASE Adding
  BY <1>2, IdleNonces, RemoveNonces, ReplaceNonces DEF Adding
<1>3. CASE Purging
  BY <1>3, IdleNonces, Zenon
<1>4. CASE runReorg
  <2>1. ASSUME Equalize \/ Reduce PROVE NonceInv'
    <3>1. stage = "truncatePending"
      BY <2>1, Zenon DEF Equalize, Reduce
    <3>2. offenders \in Seq(Addr)
      BY Zenon DEF IInv, TypeOK
    <3>3. \A n \in Int : n <= Len(offenders) => OffenderSet(n) \in SUBSET Addr
      BY <3>2 DEF OffenderSet
    <3>4. \E n \in Int : n <= Len(offenders) /\ CapOne(OffenderSet(n))
      BY <2>1, <3>2 DEF Equalize, Reduce
    <3> QED
      BY <3>1, <3>3, <3>4, CapNonces, Zenon
  <2> QED
    BY <1>4, <2>1, IdleNonces, RunLockNonces, PromoteNonces, DemoteNonces, SetAllNonces, SMTT(30) DEF runReorg
<1>5. CASE UNCHANGED vars
  BY <1>5, QuietNonces, Zenon DEF vars, chainVars, listVars, runVars, reqVars, addVars, Resetting
<1> QED
  BY <1>1, <1>2, <1>3, <1>4, <1>5 DEF Next

LEMMA InitNonceInv == Init => NonceInv
<1> SUFFICES ASSUME Init, NEW a \in Addr PROVE AccountNonces(a)
  BY Zenon DEF NonceInv
<1>1. fallback[a] = 0 /\ stNonce[a] = 0 /\ pnonce[a] = 0 /\ pending[a] = {}
  BY Zenon DEF Init
<1>2. Front({}, 0) /\ Covered({}, 0, 0) /\ Contiguous({}) /\ Ends({}, 0)
  BY DEF Front, Covered, Contiguous, Ends
<1>3. /\ Front(pending[a], stNonce[a]) /\ Covered(pending[a], stNonce[a], pnonce[a])
      /\ Contiguous(pending[a]) /\ Ends(pending[a], pnonce[a])
  BY <1>1, <1>2, Zenon
<1>4. fallback[a] <= stNonce[a]
  BY <1>1
<1> QED
  BY <1>3, <1>4, Zenon DEF AccountNonces

LEMMA SpecNonceInv == Spec => []NonceInv
<1>1. IInv /\ NonceInv /\ [Next]_vars => NonceInv'
  BY NextNonceInv, Zenon
<1> QED
  BY InitNonceInv, SpecIInv, <1>1, PTL DEF Spec

\* The pending transactions of an account have no gap: none that is not
\* executed yet at any moment, and none at all whenever the mutex is free
\* (PendingContiguous).
THEOREM PoolPendingContiguous == Spec => []PendingContiguous
<1>1. IInv /\ NonceInv => PendingContiguous
  <2> SUFFICES ASSUME IInv, NonceInv, rollbacks = 0, NEW a \in Addr, NEW s \in pending[a], NEW t \in pending[a],
                      stage = "free" \/ s.nonce >= stNonce[a], NEW n \in s.nonce .. t.nonce
               PROVE  Has(pending[a], n)
    BY Zenon DEF PendingContiguous
  <2>1. AccountNonces(a)
    BY SMTT(30) DEF NonceInv
  <2>2. CASE stage = "free"
    BY <2>1, <2>2, SMTT(30) DEF AccountNonces, Resetting, Contiguous
  <2>3. CASE s.nonce >= stNonce[a]
    <3>1. stNonce[a] \in Nat /\ s.nonce \in Nat /\ t.nonce \in Nat
      BY NonceTypes, TxFields, Zenon
    <3>2. n \in stNonce[a] .. t.nonce
      BY <2>3, <3>1, SMTT(30)
    <3> QED
      BY <2>1, <3>2, SMTT(30) DEF AccountNonces, Front
  <2> QED
    BY <2>2, <2>3
<1> QED
  BY SpecIInv, SpecNonceInv, <1>1, PTL

\* pendingNonces names one past the last pending nonce of every account that
\* has one, whenever the mutex is free (VirtualNonce).
THEOREM PoolVirtualNonce == Spec => []VirtualNonce
<1>1. IInv /\ NonceInv => VirtualNonce
  <2> SUFFICES ASSUME IInv, NonceInv, stage = "free", rollbacks = 0, NEW a \in NonEmpty(pending)
               PROVE  pnonce[a] = 1 + LastNonce(pending[a])
    BY Zenon DEF VirtualNonce
  <2>1. a \in Addr /\ pending[a] # {}
    BY SMTT(30) DEF NonEmpty
  <2>2. Ends(pending[a], pnonce[a]) /\ pending[a] \in SUBSET Tx /\ pnonce[a] \in Nat
    BY <2>1, NonceTypes, ZenonT(40) DEF NonceInv, AccountNonces, Resetting
  <2> QED
    BY <2>1, <2>2, EndsIsLast, Zenon
<1> QED
  BY SpecIInv, SpecNonceInv, <1>1, PTL

-----------------------------------------------------------------------------
(* Every pending transaction is announced. *)

\* The inductive invariant behind PendingAnnounced: an idle run has nothing to
\* announce, so that the next one may take the events over.
AnnounceInv == PendingAnnounced /\ (run = "idle" => runEvents = {})

\* The pending transactions of account a that are not executed yet.
Live(a) == pending[a] \ Forward(pending[a], stNonce[a])

Told == announced \cup runEvents \cup events

\* Steps that add no pending transaction and forget no event.
LEMMA QuietAnnounce ==
    ASSUME IInv, AnnounceInv, rollbacks' = 0 => rollbacks = 0,
           rollbacks = 0 => \A a \in Addr : Live(a)' \subseteq Live(a),
           Told \subseteq Told', run' = "idle" => runEvents' = {}
    PROVE  AnnounceInv'
<1>1. rollbacks = 0 => \A a \in Addr : Live(a) \subseteq Told
  BY Zenon DEF AnnounceInv, PendingAnnounced, Live, Told
<1>2. rollbacks' = 0 => \A a \in Addr : Live(a)' \subseteq Told'
  BY <1>1, Zenon
<1> QED
  BY <1>2, Zenon DEF AnnounceInv, PendingAnnounced, Live, Told

\* A list that shrinks, under a state nonce that does not fall.
LEMMA LiveShrinks ==
    ASSUME NEW L \in SUBSET Tx, NEW K, K \subseteq L, NEW m \in Nat, NEW n \in Nat, m <= n
    PROVE  K \ Forward(K, n) \subseteq L \ Forward(L, m)
<1>1. \A t \in L : t.nonce \in Nat
  BY TxFields, Zenon
<1> QED
  BY <1>1 DEF Forward

\* The events of other transactions stay.
LEMMA PutEventsKeeps ==
    ASSUME NEW evs, NEW txs, NEW e \in evs, \A t \in txs : e.from = t.from /\ e.nonce = t.nonce => e = t
    PROVE  e \in PutEvents(evs, txs)
<1>1. CASE \E t \in txs : e.from = t.from /\ e.nonce = t.nonce
  BY <1>1 DEF PutEvents
<1>2. CASE ~\E t \in txs : e.from = t.from /\ e.nonce = t.nonce
  <2>1. \A t \in txs : <<e.from, e.nonce>> # <<t.from, t.nonce>>
    BY <1>2
  <2> QED
    BY <2>1, Zenon DEF PutEvents
<1> QED
  BY <1>1, <1>2, Zenon

\* Steps after which every account has at most the pending transactions it
\* had, and no event is touched.
LEMMA ShrinkAnnounce ==
    ASSUME IInv, AnnounceInv, UNCHANGED <<stNonce, rollbacks, announced, runEvents, events, run>>,
           \A a \in Addr : pending'[a] \subseteq pending[a]
    PROVE  AnnounceInv'
<1>1. ASSUME NEW a \in Addr PROVE Live(a)' \subseteq Live(a)
  <2>1. pending[a] \in SUBSET Tx /\ stNonce[a] \in Nat /\ pending'[a] \subseteq pending[a]
    BY NonceTypes, Zenon
  <2> QED
    BY <2>1, LiveShrinks DEF Live
<1> QED
  BY <1>1, QuietAnnounce, Zenon DEF AnnounceInv, Told

\* The executor only makes pending transactions stale; a rollback is the
\* exception that the property makes.
LEMMA ChainAnnounce == ASSUME IInv, AnnounceInv, Chain PROVE AnnounceInv'
<1> USE DEF chainVars, listVars, runVars, reqVars, addVars
<1>1. ASSUME NEW a \in Addr, StateWrite(a) PROVE AnnounceInv'
  <2>1. UNCHANGED <<pending, rollbacks, announced, runEvents, events, run>>
    BY <1>1, SMTT(30) DEF StateWrite
  <2>2. ASSUME NEW b \in Addr PROVE Live(b)' \subseteq Live(b)
    <3>1. stNonce[b] \in Nat /\ stNonce'[b] \in Nat /\ stNonce[b] <= stNonce'[b]
      BY <1>1, SMTT(30) DEF StateWrite, IInv, TypeOK
    <3> QED
      BY <2>1, <3>1, NonceTypes, LiveShrinks, SMTT(30) DEF Live
  <2> QED
    BY <2>1, <2>2, QuietAnnounce, Zenon DEF AnnounceInv, Told
<1>2. ASSUME NEW a \in Addr, Transfer(a) PROVE AnnounceInv'
  BY <1>2, ShrinkAnnounce, ZenonT(40) DEF Transfer
<1>3. ASSUME NEW a \in Addr, Rollback(a) PROVE AnnounceInv'
  <2>1. rollbacks' = rollbacks + 1 /\ UNCHANGED <<announced, runEvents, events, run>>
    BY <1>3, SMTT(30) DEF Rollback
  <2>3. rollbacks \in Nat
    BY NonceTypes
  <2>2. rollbacks' \in Nat \ {0}
    BY <2>1, <2>3
  <2> QED
    BY <2>1, <2>2, Zenon DEF AnnounceInv, PendingAnnounced
<1>4. ASSUME RequestReset PROVE AnnounceInv'
  BY <1>4, ShrinkAnnounce, Zenon DEF RequestReset
<1> QED
  BY <1>1, <1>2, <1>3, <1>4, Zenon DEF Chain

\* Removals.
LEMMA RemoveAnnounce == ASSUME IInv, AnnounceInv, NEW t \in victims, RemoveVictim(t) PROVE AnnounceInv'
<1> USE DEF chainVars, listVars, runVars, reqVars, addVars
<1>1. UNCHANGED <<stNonce, rollbacks, announced, runEvents, events, run>>
  BY Zenon DEF RemoveVictim
<1>2. \/ UNCHANGED pending
      \/ pending' = [pending EXCEPT ![t.from] = {u \in @ : u.nonce < t.nonce}]
  BY ZenonT(60) DEF RemoveVictim, removeTx
<1>3. pending \in [Addr -> SUBSET Tx]
  BY Zenon DEF IInv, TypeOK
<1>4. \A a \in Addr : pending'[a] \subseteq pending[a]
  BY <1>2, <1>3
<1> QED
  BY <1>1, <1>4, ShrinkAnnounce, Zenon

\* A replacement takes the place of the event of the transaction it replaces.
LEMMA ReplaceAnnounce == ASSUME IInv, AnnounceInv, ReplacePending PROVE AnnounceInv'
<1> USE DEF chainVars, listVars, runVars, reqVars, addVars
<1> DEFINE t == job.tx
           a == t.from
<1>1. UNCHANGED <<stNonce, rollbacks, announced, runEvents, run>>
  BY SMTT(30) DEF ReplacePending
<1>2. t \in Tx /\ a \in Addr
  BY TxFields, ZenonT(40) DEF IInv, TypeOK
<1>3. CASE Rejects(pending[a], t)
  BY <1>1, <1>3, ShrinkAnnounce, SMTT(30) DEF ReplacePending
<1>4. CASE ~Rejects(pending[a], t)
  <2>1. pending' = [pending EXCEPT ![a] = Put(@, t)] /\ events' = PutEvents(events, {t})
    BY <1>4, SMTT(30) DEF ReplacePending
  <2>2. pending'[a] = Put(pending[a], t) /\ \A b \in Addr \ {a} : pending'[b] = pending[b]
    BY <1>2, <2>1, SMTT(30) DEF IInv, TypeOK
  <2>3. t \in events'
    BY <2>1, SMTT(30) DEF PutEvents
  <2> HIDE DEF t, a
  <2>4. ASSUME rollbacks' = 0, NEW b \in Addr, NEW u \in pending'[b], u \notin Forward(pending'[b], stNonce[b])
        PROVE  u \in announced \cup runEvents \cup events'
    <3>1. CASE u = t
      BY <2>3, <3>1, Zenon
    <3>2. CASE u # t
      <4>1. u \in pending[b] /\ ~(b = a /\ u.nonce = t.nonce)
        BY <2>2, <2>4, <3>2, SMTT(30) DEF Put, Old
      <4>2. u.from = b /\ a = t.from
        BY <4>1, NonceTypes, Zenon DEF AccountOK, a
      <4>3. u \notin Forward(pending[b], stNonce[b])
        BY <2>4, Zenon DEF Forward
      <4>4. u \in announced \cup runEvents \cup events
        BY <1>1, <2>4, <4>1, <4>3, SMTT(30) DEF AnnounceInv, PendingAnnounced
      <4>5. u \in events => u \in PutEvents(events, {t})
        BY <4>1, <4>2, PutEventsKeeps, SMTT(30)
      <4> QED
        BY <2>1, <4>4, <4>5, SMTT(30)
    <3> QED
      BY <3>1, <3>2, SMTT(30)
  <2> QED
    BY <1>1, <2>4, ZenonT(40) DEF AnnounceInv, PendingAnnounced
<1> QED
  BY <1>3, <1>4, Zenon

\* The promoted transactions join the events of the run.
LEMMA PromoteAnnounce == ASSUME IInv, AnnounceInv, NEW a \in Addr, promoteExecutables(a) PROVE AnnounceInv'
<1> USE DEF chainVars, listVars, runVars, reqVars, addVars
<1>1. UNCHANGED <<stNonce, rollbacks, announced, events, run>> /\ stage = "promote"
  BY ZenonT(60) DEF promoteExecutables
<1>2. PICK R : Promotion(a, R)
  BY PromotionFacts, SMTT(30)
<1>3. /\ pending'[a] = pending[a] \cup R /\ \A b \in Addr \ {a} : pending'[b] = pending[b]
      /\ runEvents' = PutEvents(runEvents, R)
  BY <1>2, Zenon DEF Promotion, IInv, TypeOK
<1>4. R \subseteq queue[a] /\ AccountOK(a, pending[a], queue[a])
  BY <1>2, NonceTypes DEF Promotion
<1>5. run # "idle"
  BY <1>1, Zenon DEF IInv, TypeOK
<1>6. ASSUME rollbacks' = 0, NEW b \in Addr, NEW u \in pending'[b], u \notin Forward(pending'[b], stNonce[b])
      PROVE  u \in announced \cup runEvents' \cup events
  <2>1. CASE u \in R
    BY <1>3, <2>1, Zenon DEF PutEvents
  <2>2. CASE u \notin R
    <3>1. u \in pending[b]
      BY <1>3, <1>6, <2>2, SMTT(30)
    <3>2. u.from = b /\ \A t \in R : t.from = a
      BY <1>4, <3>1, NonceTypes, ZenonT(40) DEF AccountOK
    <3>3. \A t \in R : u.from = t.from /\ u.nonce = t.nonce => u = t
      BY <1>4, <3>1, <3>2, Zenon DEF AccountOK, Unique
    <3>4. u \notin Forward(pending[b], stNonce[b])
      BY <1>6, SMTT(30) DEF Forward
    <3>5. u \in announced \cup runEvents \cup events
      BY <1>1, <1>6, <3>1, <3>4, Zenon DEF AnnounceInv, PendingAnnounced
    <3>6. u \in runEvents => u \in PutEvents(runEvents, R)
      BY <3>3, PutEventsKeeps, SMTT(30)
    <3> QED
      BY <1>3, <3>5, <3>6, SMTT(30)
  <2> QED
    BY <2>1, <2>2
<1> QED
  BY <1>1, <1>5, <1>6 DEF AnnounceInv, PendingAnnounced

\* A reset drops the events of executed transactions only.
LEMMA RunLockAnnounce == ASSUME IInv, AnnounceInv, RunLock PROVE AnnounceInv'
<1> USE DEF chainVars, listVars, runVars, reqVars, addVars
<1>1. UNCHANGED <<stNonce, pending, rollbacks, announced, events>> /\ run' = "locked"
  BY SMTT(30) DEF RunLock
<1>2. \A t \in runEvents : t.nonce >= stNonce[t.from] => t \in runEvents'
  BY Zenon DEF RunLock
<1>3. ASSUME rollbacks' = 0, NEW b \in Addr, NEW u \in pending[b], u \notin Forward(pending[b], stNonce[b])
      PROVE  u \in announced \cup runEvents' \cup events
  <2>1. u \in announced \cup runEvents \cup events
    BY <1>1, <1>3, SMTT(30) DEF AnnounceInv, PendingAnnounced
  <2>2. u.from = b /\ u \in Tx /\ stNonce[b] \in Nat
    BY NonceTypes, ZenonT(40) DEF AccountOK
  <2>3. u.nonce >= stNonce[u.from]
    BY <1>3, <2>2, TxFields DEF Forward
  <2> QED
    BY <1>2, <2>1, <2>3, SMTT(30)
<1> QED
  BY <1>1, <1>3, SMTT(30) DEF AnnounceInv, PendingAnnounced

\* The remaining steps leave the pending lists alone or shrink them.
LEMMA RunAnnounce ==
    ASSUME IInv, AnnounceInv,
           \/ \E t \in Tx, local \in Source : AddBegin(t, local)
           \/ \E r \in inflight : AddRefused(r) \/ AddAccepted(r)
           \/ Enqueue \/ Purging \/ Promoted \/ PendingTruncated \/ QueueTruncated \/ RunUnlock \/ setAll
           \/ \E a \in Addr : PopSpammer(a) \/ truncateQueue(a) \/ demoteUnexecutables(a)
           \/ \E S \in SUBSET Addr : CapOne(S)
    PROVE  AnnounceInv'
<1> USE DEF chainVars, listVars, runVars, reqVars, addVars
<1>1. CASE \/ \E t \in Tx, local \in Source : AddBegin(t, local)
           \/ \E r \in inflight : AddRefused(r) \/ AddAccepted(r)
           \/ Enqueue \/ Purging
  <2>1. UNCHANGED <<pending, stNonce, rollbacks, announced, runEvents, events, run>>
    BY <1>1, ZenonT(40) DEF AddBegin, AddRefused, AddAccepted, Enqueue, Purging, Evict, SetGasTip, PurgeDone
  <2> QED
    BY <2>1, ShrinkAnnounce, Zenon
<1>2. CASE \/ Promoted \/ PendingTruncated \/ QueueTruncated \/ setAll
           \/ \E a \in Addr : PopSpammer(a) \/ truncateQueue(a)
  <2>1. UNCHANGED <<pending, stNonce, rollbacks, announced, runEvents, events, run>>
    BY <1>2, ZenonT(40) DEF Promoted, PendingTruncated, QueueTruncated, setAll, PopSpammer, truncateQueue
  <2> QED
    BY <2>1, ShrinkAnnounce, Zenon
<1>3. CASE RunUnlock
  <2>1. UNCHANGED <<pending, stNonce, rollbacks, announced, runEvents, events>> /\ run' = "sending"
    BY <1>3, SMTT(30) DEF RunUnlock
  <2> QED
    BY <2>1, ZenonT(40) DEF AnnounceInv, PendingAnnounced
<1>4. ASSUME NEW a \in Addr, demoteUnexecutables(a) PROVE AnnounceInv'
  <2>1. UNCHANGED <<stNonce, rollbacks, announced, runEvents, events, run>>
    BY <1>4, ZenonT(60) DEF demoteUnexecutables
  <2>2. \E K : K \subseteq pending[a] /\ pending' = [pending EXCEPT ![a] = K]
    <3> DEFINE p == pending[a] \ Forward(pending[a], stNonce[a])
               drops == Unpayable(p, stBal[a])
               paid == (p \ drops) \ Invalids(p, drops)
               gapped == IF Has(paid, stNonce[a]) THEN {} ELSE paid
    <3>1. pending' = [pending EXCEPT ![a] = paid \ gapped]
      BY <1>4, ZenonT(60) DEF demoteUnexecutables
    <3>2. paid \ gapped \subseteq pending[a]
      BY Zenon
    <3> HIDE DEF paid, gapped
    <3> QED
      BY <3>1, <3>2, Zenon
  <2>3. pending \in [Addr -> SUBSET Tx]
    BY Zenon DEF IInv, TypeOK
  <2>4. \A b \in Addr : pending'[b] \subseteq pending[b]
    BY <2>2, <2>3, SMTT(30)
  <2> QED
    BY <2>1, <2>4, ShrinkAnnounce, Zenon
<1>5. ASSUME NEW S \in SUBSET Addr, CapOne(S) PROVE AnnounceInv'
  <2>1. UNCHANGED <<stNonce, rollbacks, announced, runEvents, events, run>>
    BY <1>5, ZenonT(40) DEF CapOne
  <2>2. \A b \in Addr : pending'[b] \subseteq pending[b]
    BY <1>5, CapLists, ZenonT(40)
  <2> QED
    BY <2>1, <2>2, ShrinkAnnounce, Zenon
<1> QED
  BY <1>1, <1>2, <1>3, <1>4, <1>5, Zenon

\* Taking the events over, and announcing them.
LEMMA LaunchAnnounce == ASSUME IInv, AnnounceInv, Launch \/ Announce PROVE AnnounceInv'
<1> USE DEF chainVars, listVars, runVars, reqVars, addVars
<1>1. UNCHANGED <<stNonce, pending, rollbacks>>
  BY DEF Launch, Announce
<1>2. Told' = Told /\ (run' = "idle" => runEvents' = {})
  <2>1. CASE Launch
    BY <2>1 DEF Launch, AnnounceInv, Told
  <2>2. CASE Announce
    BY <2>2, SMTT(30) DEF Announce, Told
  <2> QED
    BY <2>1, <2>2, SMTT(30)
<1> QED
  BY <1>1, <1>2, QuietAnnounce, Zenon DEF Live

LEMMA NextAnnounceInv == ASSUME IInv, AnnounceInv, [Next]_vars PROVE AnnounceInv'
<1>1. CASE Chain
  BY <1>1, ChainAnnounce, Zenon
<1>2. CASE Adding
  BY <1>2, RunAnnounce, RemoveAnnounce, ReplaceAnnounce DEF Adding
<1>3. CASE Purging
  BY <1>3, RunAnnounce, Zenon
<1>4. CASE runReorg
  <2>1. ASSUME Equalize \/ Reduce PROVE AnnounceInv'
    <3>2. offenders \in Seq(Addr)
      BY Zenon DEF IInv, TypeOK
    <3>3. \A n \in Int : n <= Len(offenders) => OffenderSet(n) \in SUBSET Addr
      BY <3>2 DEF OffenderSet
    <3>4. \E n \in Int : n <= Len(offenders) /\ CapOne(OffenderSet(n))
      BY <2>1, <3>2 DEF Equalize, Reduce
    <3> QED
      BY <3>3, <3>4, RunAnnounce, SMTT(30)
  <2> QED
    BY <1>4, <2>1, RunAnnounce, LaunchAnnounce, RunLockAnnounce, PromoteAnnounce, SMTT(30) DEF runReorg
<1>5. CASE UNCHANGED vars
  BY <1>5, ShrinkAnnounce DEF vars, chainVars, listVars, runVars, reqVars, addVars
<1> QED
  BY <1>1, <1>2, <1>3, <1>4, <1>5, ZenonT(40) DEF Next

LEMMA InitAnnounceInv == Init => AnnounceInv
BY Zenon DEF Init, AnnounceInv, PendingAnnounced

\* Replacements, promotions and runs that take over the events of others lose
\* none of them: whatever is pending and not executed is announced or on its
\* way to the subscribers (PendingAnnounced).
THEOREM PoolPendingAnnounced == Spec => []PendingAnnounced
<1>1. IInv /\ AnnounceInv /\ [Next]_vars => AnnounceInv'
  BY NextAnnounceInv, Zenon
<1>2. AnnounceInv => PendingAnnounced
  BY Zenon DEF AnnounceInv
<1> QED
  BY InitAnnounceInv, SpecIInv, <1>1, <1>2, PTL DEF Spec
=============================================================================
