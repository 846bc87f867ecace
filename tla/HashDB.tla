------------------------------- MODULE HashDB -------------------------------
(***************************************************************************)
(* The trie node database (trie/triedb/hashdb): a reference-counted cache  *)
(* of dirty nodes in front of the disk.  Update inserts the nodes of a new *)
(* state, Dereference drops a state and what only it needs, Cap flushes    *)
(* the oldest nodes and Commit one state.  Flushing writes first and       *)
(* uncaches afterwards, so a reader in between finds the node in one place *)
(* or the other.  A node is its hash.                                      *)
(***************************************************************************)
EXTENDS Integers, Sequences, FiniteSets, FiniteSetsExt, SequencesExt

CONSTANTS Kids,        \* Kids[h]: the nodes node h refers to
          Storage,     \* Storage[h]: the storage roots of the accounts in node h
          Roots,       \* the state roots
          BatchLimit,  \* nodes a batch holds before it is written
          MaxRefs,     \* bound: references to one root
          MaxCrashes   \* bound: crashes

VARIABLES dirties,  \* the cached nodes
          oldest,   \* head of the flush list
          newest,   \* its tail
          disk,     \* the nodes on disk
          held,     \* held[r]: references its users hold to state r
          op,       \* the mutator that is running
          reader,   \* a reader of one node of a held state
          crashes

vars == <<dirties, oldest, newest, disk, held, op, reader, crashes>>

Hash == DOMAIN Kids
Nil  == "nil"
Idle == [at |-> "idle"]

RECURSIVE Reach(_)
Reach(h) == {h} \cup UNION {Reach(c) : c \in Kids[h] \cup Storage[h]}

\* The database as one value: [d, oldest, newest].
Db == [d |-> dirties, oldest |-> oldest, newest |-> newest]

Becomes(D) == dirties' = D.d /\ oldest' = D.oldest /\ newest' = D.newest

Dirty(D) == DOMAIN D.d

forChildren(D, h) == D.d[h].external \cup Kids[h]

without(f, h) == [x \in DOMAIN f \ {h} |-> f[x]]

-----------------------------------------------------------------------------

insert(D, h) ==
    LET entry == [parents |-> 0, external |-> {}, prev |-> D.newest, next |-> Nil]
        up    == [x \in Dirty(D) |-> IF x \in Kids[h] THEN [D.d[x] EXCEPT !.parents = @ + 1]
                                     ELSE D.d[x]]
        linked == IF D.oldest = Nil THEN up ELSE [up EXCEPT ![D.newest].next = h]
    IN IF h \in Dirty(D) THEN D
       ELSE [d |-> [x \in Dirty(D) \cup {h} |-> IF x = h THEN entry ELSE linked[x]],
             oldest |-> IF D.oldest = Nil THEN h ELSE D.oldest, newest |-> h]

RECURSIVE insertAll(_, _)
insertAll(D, hs) == IF hs = <<>> THEN D ELSE insertAll(insert(D, Head(hs)), Tail(hs))

\* reference: from outside (parent Nil) or from an account's node to a storage root.
reference(D, child, parent) ==
    IF child \notin Dirty(D) THEN D
    ELSE IF parent = Nil THEN [D EXCEPT !.d[child].parents = @ + 1]
    ELSE IF child \in D.d[parent].external THEN D
    ELSE [D EXCEPT !.d[child].parents = @ + 1, !.d[parent].external = @ \cup {child}]

RECURSIVE referenceAll(_, _)
referenceAll(D, links) ==
    IF links = {} THEN D
    ELSE LET l == CHOOSE x \in links : TRUE
         IN referenceAll(reference(D, l[1], l[2]), links \ {l})

\* Taking a node out of the flush list.
unlink(D, h) ==
    LET n == D.d[h]
    IN CASE h = D.oldest ->
              [D EXCEPT !.oldest = n.next,
                        !.d = IF n.next = Nil THEN @ ELSE [@ EXCEPT ![n.next].prev = Nil]]
         [] h # D.oldest /\ h = D.newest ->
              [D EXCEPT !.newest = n.prev,
                        !.d = IF n.prev = Nil THEN @ ELSE [@ EXCEPT ![n.prev].next = Nil]]
         [] OTHER ->
              [D EXCEPT !.d = [@ EXCEPT ![n.prev].next = n.next, ![n.next].prev = n.prev]]

delete(D, h) == [D EXCEPT !.d = without(@, h)]

RECURSIVE dereference(_, _)
RECURSIVE dereferenceAll(_, _)
dereference(D, h) ==
    IF h \notin Dirty(D) THEN D
    ELSE LET left == IF D.d[h].parents > 0 THEN D.d[h].parents - 1 ELSE 0
             D1   == [D EXCEPT !.d[h].parents = left]
         IN IF left > 0 THEN D1
            ELSE delete(dereferenceAll(unlink(D1, h), forChildren(D, h)), h)
dereferenceAll(D, hs) ==
    IF hs = {} THEN D
    ELSE LET c == CHOOSE x \in hs : TRUE IN dereferenceAll(dereference(D, c), hs \ {c})

\* cleaner.Put: uncache a node that has been written.
uncache(D, h) == IF h \notin Dirty(D) THEN D ELSE delete(unlink(D, h), h)

RECURSIVE uncacheAll(_, _)
uncacheAll(D, hs) == IF hs = <<>> THEN D ELSE uncacheAll(uncache(D, Head(hs)), Tail(hs))

-----------------------------------------------------------------------------
Init == /\ dirties = [h \in {} |-> Nil] /\ oldest = Nil /\ newest = Nil
        /\ disk = {} /\ held = [r \in Roots |-> 0]
        /\ op = Idle /\ reader = Idle /\ crashes = 0

Held == {r \in Roots : held[r] > 0}

\* Children before parents: every node a node reaches comes first.
childrenFirst(S) ==
    SetToSortSeq(S, LAMBDA a, b : Cardinality(Reach(a)) < Cardinality(Reach(b)))

(***************************************************************************)
(* Update: the nodes that are new with respect to the parent state, and    *)
(* perhaps some that were rebuilt with the hash they had, storage tries    *)
(* before the account trie; then the links from accounts to storage roots. *)
(* The caller takes a reference to the new root (external).                *)
(***************************************************************************)
Rebuilt(root, parent) ==
    LET old == IF parent = Nil THEN {} ELSE Reach(parent)
        new == Reach(root) \ old
    IN {S \in SUBSET Reach(root) :
          /\ new \subseteq S
          /\ \A h \in Reach(root) \ S : Reach(h) \cap S = {}}

Update ==
    /\ op = Idle
    /\ \E root \in Roots, parent \in Held \cup {Nil} :
         /\ held[root] < MaxRefs
         /\ \E S \in Rebuilt(root, parent) :
              LET D1    == insertAll(Db, childrenFirst(S))
                  links == UNION {{<<s, h>> : s \in Storage[h]} : h \in S}
              IN Becomes(reference(referenceAll(D1, links), root, Nil))
         /\ held' = [held EXCEPT ![root] = @ + 1]
    /\ UNCHANGED <<disk, op, reader, crashes>>

Dereference ==
    /\ op = Idle
    /\ \E r \in Held : /\ Becomes(dereference(Db, r))
                       /\ held' = [held EXCEPT ![r] = @ - 1]
                       /\ reader' = IF held[r] = 1 /\ reader # Idle /\ reader.root = r
                                    THEN Idle ELSE reader
    /\ UNCHANGED <<disk, op, crashes>>

-----------------------------------------------------------------------------
(***************************************************************************)
(* Cap: write the oldest nodes, in batches, then uncache all of them.      *)
(***************************************************************************)
RECURSIVE flushList(_, _)
flushList(D, h) == IF h = Nil THEN <<>> ELSE <<h>> \o flushList(D, D.d[h].next)

CapStart ==
    /\ op = Idle /\ oldest # Nil
    /\ \E k \in 1 .. Cardinality(DOMAIN dirties) :
         LET hs == SubSeq(flushList(Db, oldest), 1, k)
         IN op' = [at |-> "cap", todo |-> hs, all |-> hs]
    /\ UNCHANGED <<dirties, oldest, newest, disk, held, reader, crashes>>

CapWrite ==
    /\ op.at = "cap" /\ op.todo # <<>>
    /\ LET n == Min({BatchLimit, Len(op.todo)})
       IN /\ disk' = disk \cup ToSet(SubSeq(op.todo, 1, n))
          /\ op' = [op EXCEPT !.todo = SubSeq(@, n + 1, Len(@))]
    /\ UNCHANGED <<dirties, oldest, newest, held, reader, crashes>>

CapUncache ==
    /\ op.at = "cap" /\ op.todo = <<>>
    /\ LET next == dirties[Last(op.all)].next
           rest == [h \in DOMAIN dirties \ ToSet(op.all) |-> dirties[h]]
       IN /\ oldest' = next
          /\ dirties' = IF next = Nil THEN rest ELSE [rest EXCEPT ![next].prev = Nil]
    /\ op' = Idle
    /\ UNCHANGED <<newest, disk, held, reader, crashes>>

(***************************************************************************)
(* Commit: the nodes of one state, children first; each batch is uncached  *)
(* as soon as it is written.                                               *)
(***************************************************************************)
RECURSIVE below(_, _)
below(D, h) == IF h \notin Dirty(D) THEN {}
               ELSE {h} \cup UNION {below(D, c) : c \in forChildren(D, h)}

CommitStart ==
    /\ op = Idle
    /\ \E r \in Held : op' = [at |-> "commit", todo |-> childrenFirst(below(Db, r)), out |-> <<>>]
    /\ UNCHANGED <<dirties, oldest, newest, disk, held, reader, crashes>>

CommitWrite ==
    /\ op.at = "commit" /\ op.out = <<>> /\ op.todo # <<>>
    /\ LET n == Min({BatchLimit, Len(op.todo)})
       IN /\ disk' = disk \cup ToSet(SubSeq(op.todo, 1, n))
          /\ op' = [op EXCEPT !.out = SubSeq(op.todo, 1, n), !.todo = SubSeq(@, n + 1, Len(@))]
    /\ UNCHANGED <<dirties, oldest, newest, held, reader, crashes>>

CommitUncache ==
    /\ op.at = "commit" /\ (op.out # <<>> \/ op.todo = <<>>)
    /\ Becomes(uncacheAll(Db, op.out))
    /\ op' = IF op.todo = <<>> THEN Idle ELSE [op EXCEPT !.out = <<>>]
    /\ UNCHANGED <<disk, held, reader, crashes>>

-----------------------------------------------------------------------------
(***************************************************************************)
(* Node returns a dirty node at once; the reader kept here is one that     *)
(* found none and looks on disk next.                                      *)
(***************************************************************************)
ReadDirty ==
    /\ reader = Idle
    /\ \E r \in Held : \E h \in Reach(r) \ DOMAIN dirties :
         reader' = [at |-> "disk", root |-> r, hash |-> h]
    /\ UNCHANGED <<dirties, oldest, newest, disk, held, op, crashes>>

ReadDisk ==
    /\ reader.at = "disk"
    /\ reader' = IF reader.hash \in disk THEN Idle ELSE [reader EXCEPT !.at = "missing"]
    /\ UNCHANGED <<dirties, oldest, newest, disk, held, op, crashes>>

\* What is in memory is lost; a state is available again if its root is on disk.
Crash ==
    /\ crashes < MaxCrashes /\ crashes' = crashes + 1
    /\ dirties' = [h \in {} |-> Nil] /\ oldest' = Nil /\ newest' = Nil
    /\ held' = [r \in Roots |-> IF r \in disk THEN 1 ELSE 0]
    /\ op' = Idle /\ reader' = Idle
    /\ UNCHANGED disk

Next == \/ Update \/ Dereference \/ CapStart \/ CapWrite \/ CapUncache
        \/ CommitStart \/ CommitWrite \/ CommitUncache
        \/ ReadDirty \/ ReadDisk \/ Crash

Spec == Init /\ [][Next]_vars

-----------------------------------------------------------------------------
(***************************************************************************)
(* Every node of a state someone holds is in the cache or on disk, at      *)
(* every moment: after other states were dropped, after nodes were flushed *)
(* and rebuilt with the same hash, in the middle of a Cap or Commit, and   *)
(* after a crash for every state whose root reached the disk.              *)
(***************************************************************************)
HeldComplete == \A r \in Held : Reach(r) \subseteq disk \cup DOMAIN dirties

\* A reader that looks in the cache and then on disk finds its node, although
\* Cap or Commit may move the node between the two lookups.
NodeFound == reader.at # "missing"

(***************************************************************************)
(* The flush list runs through every cached node exactly once, and while   *)
(* nothing was ever flushed, dropping the last state empties the cache.    *)
(***************************************************************************)
CacheTidy ==
    /\ LET hs == flushList(Db, oldest)
       IN ToSet(hs) = DOMAIN dirties /\ Len(hs) = Cardinality(DOMAIN dirties)
    /\ (disk = {} /\ Held = {}) => dirties = [h \in {} |-> Nil]

NodesSound == HeldComplete /\ NodeFound /\ CacheTidy
=============================================================================
