---------------------------- MODULE TrieIterator ----------------------------
(***************************************************************************)
(* trie/iterator.go: the iterator over the nodes of a stored trie, in      *)
(* pre-order and from a start key, and the iterators over the difference   *)
(* and the union of two tries built from it.  Nodes are read from the      *)
(* database as the iterator comes to them, and one may be missing for a    *)
(* while: the iterator then fails and goes on when it is asked again.      *)
(***************************************************************************)
EXTENDS TrieOps

CONSTANTS IterKeys,       \* keys of the tries walked through
          PairKeys,       \* keys of the two tries compared
          IterValues,     \* values other than the empty one
          Starts,         \* start keys
          MayMiss         \* a node may be missing for a while

VARIABLES mode, left, right, order, ia, ib, eof, heap, missing, skipped, placed, seen, over

iterVars == <<mode, left, right, order, ia, ib, eof, heap, missing, skipped, placed, seen, over>>

(* bytes.Compare and bytes.HasPrefix *)
compareAt(a, b, m) ==
    CASE m = Len(a) -> IF m = Len(b) THEN 0 ELSE -1
      [] m < Len(a) -> IF m = Len(b) \/ a[m + 1] > b[m + 1] THEN 1 ELSE -1
compare(a, b) == compareAt(a, b, prefixLen(a, b))
hasPrefix(s, prefix) == Len(prefix) <= Len(s) /\ SubSeq(s, 1, Len(prefix)) = prefix

-----------------------------------------------------------------------------
(* nodeIterator.  gone is what the database cannot return.                   *)

iterState(h, n, parent, pathlen) == [hash |-> h, node |-> n, parent |-> parent, index |-> -1, pathlen |-> pathlen]
top(it) == Last(it.stack)

(* nodeIteratorState.resolve: a hash node is read, and gives its hash.       *)
resolveState(gone, s) ==
    IF s.node.type # "hash" THEN [err |-> FALSE, state |-> s]
    ELSE IF s.node.enc \in gone THEN [err |-> TRUE, state |-> s]
    ELSE [err |-> FALSE, state |-> [s EXCEPT !.node = decodeNode(s.node.enc, s.node.enc), !.hash = s.node.enc]]

cachedHash(n) == IF inner(n) THEN n.hash ELSE Nil
findChild(n, index) == {i \in index..Radix : n.children[i] # Nil}

(* What nextChild and nextChildAt return: the index to set, the state and    *)
(* the path of the child.                                                    *)
noChild == [ok |-> FALSE]
child(it, ancestor, index, path, n) ==
    [ok |-> TRUE, index |-> index, path |-> path, state |-> iterState(cachedHash(n), n, ancestor, Len(it.path))]
nthChild(it, ancestor, i) == child(it, ancestor, i - 1, Append(it.path, i), top(it).node.children[i])
onlyChild(it, ancestor, s) ==
    IF s.index >= 0 THEN noChild ELSE child(it, ancestor, -1, it.path \o s.node.key, s.node.val)

firstChild(it, ancestor, rest) == IF rest = {} THEN noChild ELSE nthChild(it, ancestor, Min(rest))
nextChild(it, ancestor, s) ==
    CASE s.node.type = "full" -> firstChild(it, ancestor, findChild(s.node, s.index + 1))
      [] s.node.type = "short" -> onlyChild(it, ancestor, s)
      [] ~inner(s.node) -> noChild

(* The last child before the key, or the first one at or after it. *)
lastBefore(it, ancestor, rest, before) ==
    IF before = {} THEN firstChild(it, ancestor, rest) ELSE nthChild(it, ancestor, Max(before))
childAt(it, ancestor, key, rest) ==
    lastBefore(it, ancestor, rest, {i \in rest : compare(Append(it.path, i), key) < 0})
nextChildAt(it, ancestor, key, s) ==
    CASE s.node.type = "full" -> childAt(it, ancestor, key, findChild(s.node, s.index + 1))
      [] s.node.type = "short" -> onlyChild(it, ancestor, s)
      [] ~inner(s.node) -> noChild

push(it, state, path) ==
    [it EXCEPT !.path = path,
               !.stack = Append(IF @ = <<>> THEN @ ELSE [@ EXCEPT ![Len(@)].index = @ + 1], state)]
pop(it) == [it EXCEPT !.path = SubSeq(@, 1, top(it).pathlen), !.stack = Front(@)]

(* The loop of peek and of peekSeek: the next child, going up while a node   *)
(* has none rest.  The iterator that is returned has popped and set indices. *)
RECURSIVE advance(_, _, _)
ancestorOf(s) == IF s.hash = Nil THEN s.parent ELSE s.hash
arrive(it, c, r) == [it |-> [it EXCEPT !.stack[Len(it.stack)].index = c.index],
                     err |-> IF r.err THEN "missing" ELSE "none", state |-> r.state, path |-> c.path]
tryChild(gone, it, toKey, c) ==
    IF ~c.ok THEN advance(gone, pop(it), toKey) ELSE arrive(it, c, resolveState(gone, c.state))
advance(gone, it, toKey) ==
    IF it.stack = <<>> THEN [it |-> it, err |-> "end"]
    ELSE tryChild(gone, it, toKey, IF toKey.seek THEN nextChildAt(it, ancestorOf(top(it)), toKey.key, top(it))
                                   ELSE nextChild(it, ancestorOf(top(it)), top(it)))

initState(it) == [it |-> it, err |-> "none", state |-> iterState(it.root, decodeNode(it.root, it.root), Nil, 0), path |-> <<>>]

peek(gone, it, descend) ==
    IF it.stack = <<>> THEN initState(it)
    ELSE advance(gone, IF descend THEN it ELSE pop(it), [seek |-> FALSE])

peekSeek(gone, it, key) ==
    IF it.stack = <<>> THEN initState(it)
    ELSE advance(gone, IF hasPrefix(key, it.path) THEN it ELSE pop(it), [seek |-> TRUE, key |-> key])

RECURSIVE seek(_, _)
sought(gone, key, p) ==
    CASE p.err = "end" -> [p.it EXCEPT !.err = "end"]
      [] p.err = "missing" -> [p.it EXCEPT !.err = "seek"]
      [] p.err = "none" -> IF compare(p.path, key) >= 0 THEN [p.it EXCEPT !.err = "none"]
                           ELSE seek(gone, push(p.it, p.state, p.path))
seekKey(gone, it, key) == sought(gone, key, peekSeek(gone, it, key))
seek(gone, it) == seekKey(gone, it, Front(keybytesToHex(it.start)))

newNodeIterator(gone, root, start) ==
    LET it == [root |-> root, start |-> start, stack |-> <<>>, path |-> <<>>, err |-> "none"]
    IN  IF root = Nil THEN [it EXCEPT !.err = "end"] ELSE seek(gone, it)

(* Next: an error of the seek is retried first; no error stays. *)
moved(p) == IF p.err # "none" THEN [ok |-> FALSE, it |-> [p.it EXCEPT !.err = p.err]]
            ELSE [ok |-> TRUE, it |-> [push(p.it, p.state, p.path) EXCEPT !.err = "none"]]
goOn(gone, it, descend) ==
    IF it.err \in {"end", "seek"} THEN [ok |-> FALSE, it |-> it] ELSE moved(peek(gone, it, descend))
nextNode(gone, it, descend) == goOn(gone, IF it.err = "seek" THEN seek(gone, it) ELSE it, descend)

isLeaf(it) == hasTerm(it.path)
leafOf(it) == <<hexToKeybytes(it.path), top(it).node.v>>
hashOf(it) == IF it.stack = <<>> THEN Nil ELSE top(it).hash
(* LeafProof: the nodes above the leaf that have a hash, and the root. *)
leafProof(it) ==
    {proofHash(it.stack[i].node).enc : i \in {i \in 1..(Len(it.stack) - 1) : i = 1 \/ proofHash(it.stack[i].node).standalone}}

-----------------------------------------------------------------------------
(* compareNodes; order is how two different hashes, or values, compare.      *)
compareHashes(a, b) == IF a = Nil THEN -1 ELSE IF b = Nil THEN 1 ELSE order
compareBlobs(a, b) ==
    IF hashOf(a) # hashOf(b) THEN compareHashes(hashOf(a), hashOf(b))
    ELSE IF isLeaf(a) /\ leafOf(a) # leafOf(b) THEN order
    ELSE 0
compareNodes(a, b) == IF a.path # b.path THEN compare(a.path, b.path) ELSE compareBlobs(a, b)

(* The loop of differenceIterator.Next, after the first step of b.           *)
RECURSIVE differ(_, _)
result(ok, a, b, end) == [ok |-> ok, a |-> a, b |-> b, eof |-> end]
stepA(a, b) == IF a.ok THEN differ(a.it, b) ELSE result(TRUE, a.it, b, TRUE)
stepBoth(a, b, noHash) ==
    IF ~b.ok THEN result(FALSE, a, b.it, FALSE) ELSE stepA(nextNode({}, a, noHash), b.it)
differBy(c, a, b) ==
    CASE c = 1 -> result(TRUE, a, b, FALSE)
      [] c = -1 -> stepA(nextNode({}, a, TRUE), b)
      [] c = 0 -> stepBoth(a, nextNode({}, b, hashOf(a) = Nil), hashOf(a) = Nil)
differ(a, b) == differBy(compareNodes(a, b), a, b)

(* container/heap, used for the two iterators of a union: the least first.   *)
heapPush(h, x) == IF h # <<>> /\ compareNodes(x, h[1]) < 0 THEN <<x>> \o h ELSE Append(h, x)

(* The loop of unionIterator.Next over the other iterators.                  *)
RECURSIVE skipOthers(_, _, _)
skipOne(least, h, r, descend) == skipOthers(least, IF r.ok THEN heapPush(h, r.it) ELSE h, descend)
skipOthers(least, h, descend) ==
    IF h # <<>> /\ ((~descend /\ hasPrefix(h[1].path, least.path)) \/ compareNodes(least, h[1]) = 0)
    THEN skipOne(least, Tail(h), nextNode({}, h[1], hashOf(h[1]) = Nil), descend)
    ELSE h

-----------------------------------------------------------------------------
Contents(K) == [K -> IterValues \cup {NoValue}]
allNodes(root) == {s[2] : s \in stored(root)}
none == newNodeIterator({}, Nil, <<>>)

IterInit ==
    /\ \/ /\ mode = "walk"
          /\ left \in Contents(IterKeys) /\ right = left
          /\ \E start \in Starts, gone \in SUBSET (IF MayMiss THEN allNodes(rootOf(left)) \ {rootOf(left)} ELSE {}) :
                /\ Cardinality(gone) <= 1
                /\ missing = gone
                /\ ia = newNodeIterator(gone, rootOf(left), start)
          /\ ib = none /\ heap = <<>>
       \/ /\ mode = "difference"
          /\ left \in Contents(PairKeys) /\ right \in Contents(PairKeys)
          /\ ia = nextNode({}, newNodeIterator({}, rootOf(left), <<>>), TRUE).it
          /\ ib = newNodeIterator({}, rootOf(right), <<>>)
          /\ missing = {} /\ heap = <<>>
       \/ /\ mode = "union"
          /\ left \in Contents(PairKeys) /\ right \in Contents(PairKeys)
          /\ heap = <<newNodeIterator({}, rootOf(left), <<>>), newNodeIterator({}, rootOf(right), <<>>)>>
          /\ missing = {} /\ ia = none /\ ib = none
    /\ order \in (IF mode = "walk" THEN {1} ELSE {-1, 1})
    /\ eof = FALSE
    /\ skipped = {}
    /\ placed = FALSE
    /\ seen = <<>>
    /\ over = FALSE

visit(it) == seen' = IF isLeaf(it) THEN Append(seen, leafOf(it)) ELSE seen

(* nodeIterator.Next; a caller that the last call took to a node (placed)    *)
(* skips what is below it by not descending.                                 *)
Walk(descend) ==
    /\ mode = "walk" /\ ~over
    /\ descend \/ (skipped = {} /\ placed)
    /\ \E r \in {nextNode(missing, ia, descend)} :
        /\ ia' = r.it
        /\ IF r.ok THEN visit(r.it) ELSE UNCHANGED seen
        /\ over' = (r.it.err = "end")
        /\ placed' = r.ok
    /\ skipped' = IF descend THEN skipped ELSE {ia.path}
    /\ UNCHANGED <<mode, left, right, order, ib, eof, heap, missing>>

(* The missing node is there again. *)
Found ==
    /\ missing # {}
    /\ missing' = {}
    /\ UNCHANGED <<mode, left, right, order, ia, ib, eof, heap, skipped, placed, seen, over>>

(* differenceIterator.Next *)
differNext(b) == IF ~b.ok \/ eof THEN result(b.ok, ia, b.it, eof) ELSE differ(ia, b.it)
Differ ==
    /\ mode = "difference" /\ ~over
    /\ \E r \in {differNext(nextNode({}, ib, TRUE))} :
        /\ ia' = r.a /\ ib' = r.b /\ eof' = r.eof
        /\ IF r.ok THEN visit(r.b) ELSE UNCHANGED seen
        /\ over' = ~r.ok
    /\ UNCHANGED <<mode, left, right, order, heap, missing, skipped, placed>>

(* unionIterator.Next *)
uniteNext(others, r) == IF r.ok THEN heapPush(others, r.it) ELSE others
Unite ==
    /\ mode = "union" /\ ~over
    /\ heap' = IF heap = <<>> THEN heap
               ELSE uniteNext(skipOthers(heap[1], Tail(heap), TRUE), nextNode({}, heap[1], TRUE))
    /\ over' = (heap' = <<>>)
    /\ IF heap' # <<>> THEN visit(heap'[1]) ELSE UNCHANGED seen
    /\ UNCHANGED <<mode, left, right, order, ia, ib, eof, missing, skipped, placed>>

IterNext == \/ \E descend \in BOOLEAN : Walk(descend)
            \/ Found
            \/ Differ
            \/ Unite
            \/ (over /\ UNCHANGED iterVars)

IterSpec == IterInit /\ [][IterNext]_iterVars

-----------------------------------------------------------------------------
entries(content) == {<<k, content[k]>> : k \in {k \in DOMAIN content : content[k] # NoValue}}
hexOf(k) == keybytesToHex(k)

(* An iterator returns the leaves of the trie from the start key on, in the  *)
(* order of the keys, each once, except for those below a node that it was   *)
(* told to skip, although nodes are missing on the way; with each leaf the   *)
(* nodes that prove it.  The difference of two tries has the entries of the  *)
(* second that the first has not, their union those that either has.         *)
IteratorSound ==
    /\ \A i, j \in 1..Len(seen) : i < j => compare(hexOf(seen[i][1]), hexOf(seen[j][1])) <= 0
    /\ \A i, j \in 1..Len(seen) : seen[i] = seen[j] => i = j
    /\ over => ToSet(seen) =
        CASE mode = "walk" -> {e \in entries(left) : /\ compare(hexOf(e[1]), Front(hexOf(ia.start))) >= 0
                                                     /\ \A p \in skipped : hexOf(e[1]) = p \/ ~hasPrefix(hexOf(e[1]), p)}
          [] mode = "difference" -> entries(right) \ entries(left)
          [] mode = "union" -> entries(left) \cup entries(right)
    /\ mode = "walk" /\ isLeaf(ia) =>
        leafProof(ia) = {s[2] : s \in {s \in stored(rootOf(left)) : hasPrefix(ia.path, s[1])}}
=============================================================================
