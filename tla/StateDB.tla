------------------------------ MODULE StateDB ------------------------------
(***************************************************************************)
(* The journaled state of the executor, src/core/state: accounts are       *)
(* loaded from the account trie into live objects, changed there, and      *)
(* every change is journaled so that a failed call can be undone.          *)
(* Finalise ends a transaction, IntermediateRoot writes the tries, Commit  *)
(* the database.                                                           *)
(*                                                                         *)
(* The memory a journal entry can touch is one record, st; journal is the  *)
(* sequence of entries and dirties counts them per account.  Every         *)
(* revision remembers what the state looked like when it was taken, which  *)
(* the code does not: it is there to say what a revert must restore.       *)
(* Tries are the functions they store.  The node runs without a snapshot   *)
(* tree (src/node/internal/svc/servicecontext.go:41), so s.snap is nil.    *)
(***************************************************************************)
EXTENDS Integers, Sequences, FiniteSets

CONSTANTS Addr, Key,
          NoObj,       \* no live object, no account
          Ripemd,      \* the precompile whose touches are never forgotten
          Reuse,       \* a state may be used again after its Commit, as the executor does
          Ops,         \* bound: the setters that are called
          MaxJournal, MaxRevisions, MaxTx, MaxCommits \* bounds

VARIABLES st,          \* live objects and the rest of the journaled memory
          journal, dirties, revisions,
          pendingObjs, \* stateObjectsPending
          trie, trieDone, \* account trie; it was committed
          disk, codes, \* the database: last committed state, contract codes
          dbErr,
          txs, commits \* history: transactions finalised, commits

vars == <<st, journal, dirties, revisions, pendingObjs, trie, trieDone, disk, codes, dbErr, txs, commits>>

Val == 0 .. 1          \* 0 is the zero hash
NoVal == -1            \* no entry in a storage map
Storage == [Key -> Val \cup {NoVal}]
Clean == [k \in Key |-> NoVal]
EmptyRoot == [k \in Key |-> 0]
Account == [nonce : 0 .. 1, bal : 0 .. 1, code : 0 .. 1, root : [Key -> Val]]

newObject(acc) ==
    [nonce |-> acc.nonce, bal |-> acc.bal, code |-> acc.code, root |-> acc.root,
     dirty |-> Clean, pending |-> Clean, origin |-> Clean,
     trie |-> "nil", dirtyCode |-> FALSE, suicided |-> FALSE, deleted |-> FALSE]
NewAccount == newObject([nonce |-> 0, bal |-> 0, code |-> 0, root |-> EmptyRoot])

empty(o) == o.nonce = 0 /\ o.bal = 0 /\ o.code = 0

-----------------------------------------------------------------------------
(* Reading *)

\* getDeletedStateObject: the live object, or one made from the trie.
getDeletedStateObject(s, a) ==
    IF s.obj[a] # NoObj THEN s.obj[a]
    ELSE IF trieDone \/ trie[a] = NoObj THEN NoObj
    ELSE newObject(trie[a])

\* The committed trie refuses to be read.
LoadFails(s, a) == s.obj[a] = NoObj /\ trieDone

Exist(s, a) == LET o == getDeletedStateObject(s, a) IN o # NoObj /\ ~o.deleted

GetCommittedState(s, a, o, k) ==
    CASE o.pending[k] # NoVal -> o.pending[k]
      [] o.pending[k] = NoVal /\ o.origin[k] # NoVal -> o.origin[k]
      [] OTHER -> IF a \in s.destruct \/ o.trie = "committed" THEN 0 ELSE o.root[k]

GetState(s, a, o, k) == IF o.dirty[k] # NoVal THEN o.dirty[k] ELSE GetCommittedState(s, a, o, k)

\* GetState reaches the storage trie, opens it, and caches the original value.
ReadsTrie(s, a, o, k) ==
    o.dirty[k] = NoVal /\ o.pending[k] = NoVal /\ o.origin[k] = NoVal /\ a \notin s.destruct

Cached(s, a, o, k) ==
    IF ~ReadsTrie(s, a, o, k) \/ o.trie = "committed" THEN o
    ELSE [o EXCEPT !.origin[k] = o.root[k], !.trie = "open"]

\* What the getters show of account a: the fields a contract can observe.
Seen(s, a) ==
    IF ~Exist(s, a) THEN NoObj
    ELSE LET o == getDeletedStateObject(s, a)
         IN  [nonce |-> o.nonce, bal |-> o.bal, code |-> o.code, suicided |-> o.suicided,
              state |-> [k \in Key |-> GetState(s, a, o, k)],
              committed |-> [k \in Key |-> GetCommittedState(s, a, o, k)]]

View(s) == [accounts |-> [a \in Addr |-> Seen(s, a)], destruct |-> s.destruct,
            refund |-> s.refund, logs |-> s.logs, transient |-> s.transient, warm |-> s.warm]

-----------------------------------------------------------------------------
(* The journal *)

\* Entries without an account dirty nobody.
entry(kind, a, key, prev) == [kind |-> kind, account |-> a, key |-> key, prev |-> prev]
Accountless == {"refund", "log", "transient", "warm"}
dirtied(e) == IF e.kind \in Accountless THEN {} ELSE {e.account}

Alter(s, a, o) == [s EXCEPT !.obj[a] = o]

\* The reverts of the entries, each named after its type.
createObjectChange(s, e) == [s EXCEPT !.obj[e.account] = NoObj, !.dirtyObjs = @ \ {e.account}]

\* Mutant: the mark of destruction stays.
resetObjectKeepsMark(s, e) == [s EXCEPT !.obj[e.account] = e.prev]

resetObjectChange(s, e) ==
    [s EXCEPT !.obj[e.account] = e.prev, !.destruct = IF e.key THEN @ ELSE @ \ {e.account}]

suicideChange(s, e) ==
    LET o == s.obj[e.account]
    IN  IF o = NoObj \/ o.deleted THEN s
        ELSE Alter(s, e.account, [o EXCEPT !.suicided = e.prev.suicided, !.bal = e.prev.bal])

\* Entries of account fields dereference what getStateObject returns.
Deref(s, e, o) ==
    IF s.obj[e.account] = NoObj \/ s.obj[e.account].deleted THEN [s EXCEPT !.panicked = TRUE]
    ELSE Alter(s, e.account, o)

balanceChange(s, e) == Deref(s, e, [s.obj[e.account] EXCEPT !.bal = e.prev])
nonceChange(s, e) == Deref(s, e, [s.obj[e.account] EXCEPT !.nonce = e.prev])
storageChange(s, e) == Deref(s, e, [s.obj[e.account] EXCEPT !.dirty[e.key] = e.prev])

codeChange(s, e) == Deref(s, e, [s.obj[e.account] EXCEPT !.code = e.prev, !.dirtyCode = TRUE])

transientStorageChange(s, e) == [s EXCEPT !.transient = e.prev]
refundChange(s, e) == [s EXCEPT !.refund = e.prev]
addLogChange(s, e) == [s EXCEPT !.logs = @ - 1]
accessListAddAccountChange(s, e) == [s EXCEPT !.warm = @ \ {e.account}]

revertEntry(s, e) ==
    CASE e.kind = "create" -> createObjectChange(s, e)
      [] e.kind = "reset" -> resetObjectChange(s, e)
      [] e.kind = "suicide" -> suicideChange(s, e)
      [] e.kind = "balance" -> balanceChange(s, e)
      [] e.kind = "nonce" -> nonceChange(s, e)
      [] e.kind = "code" -> codeChange(s, e)
      [] e.kind = "storage" -> storageChange(s, e)
      [] e.kind = "transient" -> transientStorageChange(s, e)
      [] e.kind = "refund" -> refundChange(s, e)
      [] e.kind = "log" -> addLogChange(s, e)
      [] e.kind = "warm" -> accessListAddAccountChange(s, e)
      [] e.kind = "touch" -> s

\* The state after the entries after the first n were reverted, last first.
Reverted(s, n) ==
    LET back[i \in n .. Len(journal)] ==
          IF i = Len(journal) THEN s ELSE revertEntry(back[i + 1], journal[i + 1])
    IN  back[n]

\* Dirty counts after the entries j were appended.
Counted(j) == [a \in Addr |-> dirties[a] + Cardinality({i \in DOMAIN j : a \in dirtied(j[i])})]

\* Mutant: a reverted account is taken for clean altogether.
UncountedAll(n) ==
    [a \in Addr |-> IF \E i \in n + 1 .. Len(journal) : a \in dirtied(journal[i]) THEN 0 ELSE dirties[a]]

\* Dirty counts after the entries after the first n were reverted.
Uncounted(n) ==
    [a \in Addr |-> dirties[a] - Cardinality({i \in n + 1 .. Len(journal) : a \in dirtied(journal[i])})]

-----------------------------------------------------------------------------
(* The setters *)

\* A new object replaces what the address held, deleted or not.
createObject(s, a) ==
    LET prev == getDeletedStateObject(s, a)
    IN  IF prev = NoObj
        THEN [s |-> Alter(s, a, NewAccount), j |-> <<entry("create", a, FALSE, FALSE)>>]
        ELSE [s |-> [Alter(s, a, NewAccount) EXCEPT !.destruct = @ \cup {a}],
              j |-> <<entry("reset", a, a \in s.destruct, prev)>>]

GetOrNewStateObject(s, a) ==
    IF Exist(s, a) THEN [s |-> Alter(s, a, getDeletedStateObject(s, a)), j |-> <<>>]
    ELSE createObject(s, a)

\* A call of a setter: the state and the journal it leaves.
Usable == (~trieDone \/ Reuse) /\ ~st.panicked

Journaled(s, j) ==
    /\ Usable /\ Len(journal) + Len(j) <= MaxJournal
    /\ st' = s
    /\ journal' = journal \o j
    /\ dirties' = Counted(j)
    /\ UNCHANGED <<revisions, pendingObjs, trie, trieDone, disk, codes, txs, commits>>

\* A setter of account a that replaces its object by o and journals entry e.
Changed(a, got, o, e) ==
    /\ Journaled(Alter(got.s, a, o), got.j \o e)
    /\ dbErr' = (dbErr \/ LoadFails(st, a))

SetNonce(a) ==
    LET got == GetOrNewStateObject(st, a)
        o == got.s.obj[a]
    IN  "nonce" \in Ops /\ Changed(a, got, [o EXCEPT !.nonce = 1], <<entry("nonce", a, FALSE, o.nonce)>>)

\* A zero amount only touches an empty account.
AddBalance(a, amount) ==
    LET got == GetOrNewStateObject(st, a)
        o == got.s.obj[a]
    IN  /\ "balance" \in Ops
        /\ IF amount = 0
           THEN /\ Usable
                /\ a = Ripemd => dirties[a] <= MaxJournal
                /\ dbErr' = (dbErr \/ LoadFails(st, a))
                /\ LET j == got.j \o (IF empty(o) THEN <<entry("touch", a, FALSE, FALSE)>> ELSE <<>>)
                   IN  /\ Len(journal) + Len(j) <= MaxJournal
                       /\ st' = got.s
                       /\ journal' = journal \o j
                       /\ dirties' = IF empty(o) /\ a = Ripemd THEN [Counted(j) EXCEPT ![a] = @ + 1] ELSE Counted(j)
                /\ UNCHANGED <<revisions, pendingObjs, trie, trieDone, disk, codes, txs, commits>>
           ELSE /\ o.bal = 0
                /\ Changed(a, got, [o EXCEPT !.bal = 1], <<entry("balance", a, FALSE, o.bal)>>)

\* The callers check the balance first.
SubBalance(a) ==
    LET got == GetOrNewStateObject(st, a)
        o == got.s.obj[a]
    IN  /\ "balance" \in Ops /\ o.bal = 1
        /\ Changed(a, got, [o EXCEPT !.bal = 0], <<entry("balance", a, FALSE, o.bal)>>)

SetCode(a) ==
    LET got == GetOrNewStateObject(st, a)
        o == got.s.obj[a]
    IN  /\ "code" \in Ops
        /\ Changed(a, got, [o EXCEPT !.code = 1, !.dirtyCode = TRUE], <<entry("code", a, FALSE, o.code)>>)

StorageFails(s, a, o, k) == ReadsTrie(s, a, o, k) /\ o.trie = "committed"

SetState(a, k, v) ==
    LET got == GetOrNewStateObject(st, a)
        o == Cached(got.s, a, got.s.obj[a], k)
        prev == GetState(got.s, a, got.s.obj[a], k)
    IN  /\ "storage" \in Ops
        /\ IF prev = v THEN Journaled(Alter(got.s, a, o), got.j)
           ELSE Journaled(Alter(got.s, a, [o EXCEPT !.dirty[k] = v]), got.j \o <<entry("storage", a, k, prev)>>)
        /\ dbErr' = (dbErr \/ LoadFails(st, a) \/ StorageFails(got.s, a, got.s.obj[a], k))

\* StateDB.GetState: the account is loaded and the slot cached.
ReadState(a, k) ==
    LET o == getDeletedStateObject(st, a)
    IN  /\ "storage" \in Ops
        /\ Journaled(IF Exist(st, a) THEN Alter(st, a, Cached(st, a, o, k)) ELSE Alter(st, a, o), <<>>)
        /\ dbErr' = (dbErr \/ LoadFails(st, a) \/ (Exist(st, a) /\ StorageFails(st, a, o, k)))

SelfDestruct(a) ==
    LET o == getDeletedStateObject(st, a)
    IN  /\ "suicide" \in Ops /\ Exist(st, a)
        /\ Journaled(Alter(st, a, [o EXCEPT !.suicided = TRUE, !.bal = 0]),
                     <<entry("suicide", a, FALSE, [suicided |-> o.suicided, bal |-> o.bal])>>)
        /\ UNCHANGED dbErr

\* The balance of what was there is carried over.
CreateAccount(a) ==
    LET got == createObject(st, a)
        o == got.s.obj[a]
    IN  /\ "create" \in Ops
        /\ Changed(a, got, IF Exist(st, a) THEN [o EXCEPT !.bal = getDeletedStateObject(st, a).bal] ELSE o, <<>>)

AddRefund ==
    /\ "refund" \in Ops /\ st.refund = 0
    /\ Journaled([st EXCEPT !.refund = 1], <<entry("refund", NoObj, FALSE, st.refund)>>)
    /\ UNCHANGED dbErr

SubRefund ==
    /\ "refund" \in Ops /\ st.refund = 1
    /\ Journaled([st EXCEPT !.refund = 0], <<entry("refund", NoObj, FALSE, st.refund)>>)
    /\ UNCHANGED dbErr

AddLog ==
    /\ "other" \in Ops
    /\ Journaled([st EXCEPT !.logs = @ + 1], <<entry("log", NoObj, FALSE, FALSE)>>)
    /\ UNCHANGED dbErr

SetTransientState(v) ==
    /\ "other" \in Ops /\ st.transient # v
    /\ Journaled([st EXCEPT !.transient = v], <<entry("transient", NoObj, FALSE, st.transient)>>)
    /\ UNCHANGED dbErr

AddAddressToAccessList(a) ==
    /\ "other" \in Ops /\ a \notin st.warm
    /\ Journaled([st EXCEPT !.warm = @ \cup {a}], <<entry("warm", a, FALSE, FALSE)>>)
    /\ UNCHANGED dbErr

-----------------------------------------------------------------------------
(* Revisions *)

Snapshot ==
    /\ Usable /\ Len(revisions) < MaxRevisions
    /\ revisions' = Append(revisions, [index |-> Len(journal), view |-> View(st)])
    /\ UNCHANGED <<st, journal, dirties, pendingObjs, trie, trieDone, disk, codes, dbErr, txs, commits>>

\* The ids on the stack ascend, so the search by id finds the i-th revision.
RevertToSnapshot(i) ==
    LET n == revisions[i].index
    IN  /\ Usable
        /\ st' = Reverted(st, n)
        /\ journal' = SubSeq(journal, 1, n)
        /\ dirties' = Uncounted(n)
        /\ revisions' = SubSeq(revisions, 1, i - 1)
        /\ UNCHANGED <<pendingObjs, trie, trieDone, disk, codes, dbErr, txs, commits>>

-----------------------------------------------------------------------------
(* The end of a transaction and of a block *)

Flushed(o) == [o EXCEPT !.pending = [k \in Key |-> IF o.dirty[k] # NoVal THEN o.dirty[k] ELSE @[k]], !.dirty = Clean]

Dying(o, deleteEmpty) == o.suicided \/ (deleteEmpty /\ empty(o))

\* Finalise, as a function of the memory.
Finalised(s, deleteEmpty) ==
    LET touched == {a \in Addr : dirties[a] > 0 /\ s.obj[a] # NoObj}
        dying == {a \in touched : Dying(s.obj[a], deleteEmpty)}
    IN  [s EXCEPT !.obj = [a \in Addr |-> IF a \in dying THEN [@[a] EXCEPT !.deleted = TRUE]
                                          ELSE IF a \in touched THEN Flushed(@[a]) ELSE @[a]],
                  !.destruct = @ \cup dying,
                  !.dirtyObjs = @ \cup touched,
                  !.refund = IF journal # <<>> THEN 0 ELSE @]

\* clearJournalAndRefund: a journal without entries is kept, dirty counts included.
JournalCleared ==
    /\ journal' = <<>>
    /\ dirties' = IF journal # <<>> THEN [a \in Addr |-> 0] ELSE dirties
    /\ revisions' = <<>>

\* The accounts whose objects have to be written once the transaction is over.
Pend == pendingObjs \cup {a \in Addr : dirties[a] > 0 /\ st.obj[a] # NoObj}

Finalise(deleteEmpty) ==
    /\ Usable /\ txs < MaxTx
    /\ st' = Finalised(st, deleteEmpty)
    /\ pendingObjs' = Pend
    /\ JournalCleared
    /\ txs' = txs + 1
    /\ UNCHANGED <<trie, trieDone, disk, codes, dbErr, commits>>

\* Storage slots that updateTrie writes: a value equal to the cached original,
\* or zero when none is cached, is taken for unchanged.
Writes(o) == {k \in Key : o.pending[k] # NoVal /\ o.pending[k] # (IF o.origin[k] = NoVal THEN 0 ELSE o.origin[k])}

StorageRefused(o) == Writes(Flushed(o)) # {} /\ o.trie = "committed"

\* updateRoot: updateTrie stops at the first slot a committed trie refuses,
\* when it has already taken the value for the slot's original: the next call
\* skips the slot.  (The code meets the slots in any order.)
Rooted(o0) ==
    LET o == Flushed(o0)
        written == [k \in Key |-> k \in Writes(o)]
    IN  IF o.pending = Clean THEN o
        ELSE IF StorageRefused(o0)
        THEN LET k == CHOOSE k \in Writes(o) : TRUE IN [o EXCEPT !.origin[k] = o.pending[k]]
        ELSE [o EXCEPT !.root = [k \in Key |-> IF written[k] THEN o.pending[k] ELSE @[k]],
                       !.origin = [k \in Key |-> IF written[k] THEN o.pending[k] ELSE @[k]],
                       !.pending = Clean,
                       !.trie = IF @ = "nil" THEN "open" ELSE @]

AccountOf(o) == [nonce |-> o.nonce, bal |-> o.bal, code |-> o.code, root |-> o.root]

\* The objects, the trie and the error IntermediateRoot leaves, given the
\* finalised memory s and the objects pend it has to write.
RootedObjects(s, pend) ==
    [s EXCEPT !.obj = [a \in Addr |-> IF a \in pend /\ ~@[a].deleted THEN Rooted(@[a]) ELSE @[a]]]

\* Mutant: a destroyed account stays in the trie.
RootedTrieKept(s, pend) ==
    IF trieDone THEN trie
    ELSE [a \in Addr |-> IF a \notin pend \/ s.obj[a].deleted THEN trie[a] ELSE AccountOf(s.obj[a])]

RootedTrie(s, pend) ==
    IF trieDone THEN trie
    ELSE [a \in Addr |-> IF a \notin pend THEN trie[a]
                         ELSE IF s.obj[a].deleted THEN NoObj ELSE AccountOf(s.obj[a])]

RootFails(s, pend) ==
    \/ trieDone /\ pend # {}
    \/ \E a \in pend : ~s.obj[a].deleted /\ StorageRefused(s.obj[a])

IntermediateRoot(deleteEmpty) ==
    LET s == Finalised(st, deleteEmpty)
    IN  /\ Usable /\ txs < MaxTx
        /\ st' = RootedObjects(s, Pend)
        /\ trie' = RootedTrie(st', Pend)
        /\ dbErr' = (dbErr \/ RootFails(s, Pend))
        /\ pendingObjs' = {}
        /\ JournalCleared
        /\ txs' = txs + 1
        /\ UNCHANGED <<trieDone, disk, codes, commits>>

\* commitTrie of every dirty object, then the commit of the account trie.
Committed(s) ==
    [s EXCEPT !.obj = [a \in Addr |->
                         IF a \in s.dirtyObjs /\ ~@[a].deleted
                         THEN LET o == Rooted(@[a])
                              IN  [o EXCEPT !.dirtyCode = FALSE, !.trie = IF @ = "nil" THEN @ ELSE "committed"]
                         ELSE @[a]],
              !.dirtyObjs = {}, !.destruct = {}]

Commit(deleteEmpty) ==
    LET s == RootedObjects(Finalised(st, deleteEmpty), Pend)
    IN  /\ Usable /\ commits < MaxCommits
        /\ ~dbErr
        /\ \A a \in s.dirtyObjs : ~s.obj[a].deleted => ~StorageRefused(s.obj[a])
        /\ st' = Committed(s)
        /\ trie' = RootedTrie(s, Pend)
        /\ disk' = trie'
        /\ codes' = codes \cup {s.obj[a].code : a \in {b \in s.dirtyObjs : ~s.obj[b].deleted /\ s.obj[b].dirtyCode}}
        /\ trieDone' = TRUE
        /\ dbErr' = RootFails(Finalised(st, deleteEmpty), Pend)
        /\ pendingObjs' = {}
        /\ JournalCleared
        /\ commits' = commits + 1
        /\ UNCHANGED txs

\* New: a fresh state over the committed one.
Fresh == [obj |-> [a \in Addr |-> NoObj], destruct |-> {}, dirtyObjs |-> {},
          refund |-> 0, logs |-> 0, transient |-> 0, warm |-> {}, panicked |-> FALSE]

New ==
    /\ trieDone
    /\ st' = Fresh /\ journal' = <<>> /\ dirties' = [a \in Addr |-> 0] /\ revisions' = <<>> /\ pendingObjs' = {}
    /\ trie' = disk /\ trieDone' = FALSE /\ dbErr' = FALSE
    /\ txs' = 0
    /\ UNCHANGED <<disk, codes, commits>>

\* The database holds nothing, or what earlier blocks have left in it.
Stored == [nonce |-> 1, bal |-> 1, code |-> 0, root |-> [k \in Key |-> 1]]

Init ==
    /\ disk \in [Addr -> {NoObj, Stored}]
    /\ st = Fresh /\ journal = <<>> /\ dirties = [a \in Addr |-> 0] /\ revisions = <<>> /\ pendingObjs = {}
    /\ trie = disk /\ trieDone = FALSE
    /\ codes = {0} /\ dbErr = FALSE
    /\ txs = 0 /\ commits = 0

Next ==
    \/ \E a \in Addr :
         \/ SetNonce(a) \/ AddBalance(a, 0) \/ AddBalance(a, 1) \/ SubBalance(a) \/ SetCode(a)
         \/ \E k \in Key, v \in Val : SetState(a, k, v)
         \/ \E k \in Key : ReadState(a, k)
         \/ SelfDestruct(a) \/ CreateAccount(a) \/ AddAddressToAccessList(a)
    \/ AddRefund \/ SubRefund \/ AddLog \/ \E v \in Val : SetTransientState(v)
    \/ Snapshot
    \/ \E i \in DOMAIN revisions : RevertToSnapshot(i)
    \/ \E b \in BOOLEAN : Finalise(b) \/ IntermediateRoot(b) \/ Commit(b)
    \/ New

Spec == Init /\ [][Next]_vars
-----------------------------------------------------------------------------
Object == [nonce : 0 .. 1, bal : 0 .. 1, code : 0 .. 1, root : [Key -> Val],
           dirty : Storage, pending : Storage, origin : Storage,
           trie : {"nil", "open", "committed"}, dirtyCode : BOOLEAN, suicided : BOOLEAN, deleted : BOOLEAN]

(* Every variable has its type, and the refund counter of the setters is back
   within its range after any revert. *)
TypeOK ==
    /\ DOMAIN st = {"obj", "destruct", "dirtyObjs", "refund", "logs", "transient", "warm", "panicked"}
    /\ \A a \in Addr : st.obj[a] \in Object \cup {NoObj}
    /\ st.destruct \subseteq Addr /\ st.dirtyObjs \subseteq Addr /\ st.warm \subseteq Addr
    /\ st.refund \in 0 .. 1 /\ st.logs \in Nat /\ st.transient \in Val
    /\ st.panicked \in BOOLEAN
    /\ dirties \in [Addr -> Nat]
    /\ pendingObjs \subseteq Addr
    /\ \A a \in Addr : trie[a] \in Account \cup {NoObj} /\ disk[a] \in Account \cup {NoObj}
    /\ trieDone \in BOOLEAN /\ codes \subseteq 0 .. 1 /\ dbErr \in BOOLEAN

(* RevertToSnapshot "reverts all state changes made since the given revision"
   (statedb.go:850): from any state, the journal leads back exactly to what
   every revision on the stack saw - accounts, storage, destruction marks,
   refund, logs, transient storage and access list - although objects are
   created over deleted ones, carried over, cached and touched in between. *)
RevertRestores ==
    \A i \in DOMAIN revisions : View(Reverted(st, revisions[i].index)) = revisions[i].view

(* No journal entry ever loses its object: undoing it would dereference nil
   (journal.go:199). *)
UndoFindsObject ==
    \A i \in DOMAIN revisions : ~Reverted(st, revisions[i].index).panicked

(* Every address waiting to be written or committed has its live object, which
   IntermediateRoot and Commit use without looking (statedb.go:947). *)
PendingHaveObjects ==
    \A a \in pendingObjs \cup st.dirtyObjs : st.obj[a] # NoObj

(* A live object that neither the journal nor the pending set knows says
   exactly what the trie says: no change escapes Finalise, IntermediateRoot
   and Commit because its dirty count was taken back by a revert. *)
ChangedIsTracked ==
    ~trieDone =>
    \A a \in Addr \ Pend :
        LET o == st.obj[a]
        IN  o # NoObj =>
              /\ o.deleted => trie[a] = NoObj
              /\ ~o.deleted => /\ ~o.suicided
                               /\ trie[a] = [AccountOf(o) EXCEPT !.root = [k \in Key |-> GetState(st, a, o, k)]]

(* A transaction starts without refund: clearJournalAndRefund resets it only
   when the journal has entries (statedb.go:990). *)
RefundHasEntry == journal = <<>> => st.refund = 0

Expected(a, deleteEmpty) ==
    LET o == IF st.obj[a] = NoObj /\ trie[a] # NoObj THEN newObject(trie[a]) ELSE st.obj[a]
    IN  IF o = NoObj \/ o.deleted \/ (dirties[a] > 0 /\ Dying(o, deleteEmpty)) THEN NoObj
        ELSE [AccountOf(o) EXCEPT !.root = [k \in Key |-> GetState(st, a, o, k)]]

(* "Commit writes the state to the underlying in-memory trie database"
   (statedb.go:998): a Commit that reports no error leaves in the database,
   for every account, what its live object or else the trie said before it,
   less the accounts that Finalise deletes. *)
CommitWritten ==
    [][commits' # commits => \E b \in BOOLEAN : \A a \in Addr : disk'[a] = Expected(a, b)]_vars

(* The code of every committed account is in the database, however often the
   code was set and the setting reverted. *)
CodesStored == \A a \in Addr : disk[a] # NoObj => disk[a].code \in codes

(* Every revision on the stack can be reverted to, and reverting restores what
   it saw. *)
RevertSound == RevertRestores /\ UndoFindsObject

(* The bookkeeping between the calls: no change is forgotten, nothing pending
   lacks its object, no refund leaks into the next transaction, and committed
   code can be read back. *)
BooksInOrder == TypeOK /\ PendingHaveObjects /\ ChangedIsTracked /\ RefundHasEntry /\ CodesStored

=============================================================================
