------------------------------ MODULE TrieProof ------------------------------
(***************************************************************************)
(* trie/proof.go: Merkle proofs that a key has a value in the trie with a  *)
(* given root or has none, and proofs that a range of a trie holds exactly *)
(* the given entries.  A proof is the set of encodings it contains.        *)
(***************************************************************************)
EXTENDS TrieOps

CONSTANTS ProofKeys,      \* keys, of one length
          EdgeKeys,       \* the first and the last key of a range, of the same length
          ProofValues     \* values other than the empty one

VARIABLES state, first, last, claim, proof, outcome

proofVars == <<state, first, last, claim, proof, outcome>>

(* Prove: the nodes on the path to a key that have a hash, and the root.     *)
RECURSIVE pathTo(_, _)
pathTo(n, key) ==
    CASE n.type \in {"nil", "value"} -> <<>>
      [] n.type = "hash" -> pathTo(decodeNode(n.enc, n.enc), key)
      [] n.type = "short" ->
            <<n>> \o (IF ~matches(n, key, 0) THEN <<>> ELSE pathTo(n.val, from(key, Len(n.key))))
      [] n.type = "full" -> <<n>> \o pathTo(n.children[key[1]], Tail(key))

provers(nodes) == {proofHash(nodes[i]).enc : i \in {i \in 1..Len(nodes) : i = 1 \/ proofHash(nodes[i]).standalone}}
Prove(root, key) == IF root = Nil THEN {} ELSE provers(pathTo(HashNode(root), keybytesToHex(key)))

(* get of proof.go: what comes after a node for a key, and what is left of   *)
(* the key; with skipResolved, past all nodes that are in memory.            *)
RECURSIVE childOf(_, _, _)
childOf(n, key, skipResolved) ==
    LET go(child, rest) == IF skipResolved THEN childOf(child, rest, TRUE) ELSE [key |-> rest, node |-> child]
    IN  CASE n.type = "short" ->
                IF ~matches(n, key, 0) THEN [key |-> <<>>, node |-> Nil]
                ELSE go(n.val, from(key, Len(n.key)))
          [] n.type = "full" -> go(n.children[key[1]], Tail(key))
          [] n.type \in {"hash", "nil", "value"} -> [key |-> key, node |-> n]

RECURSIVE VerifyProof(_, _, _)
verifyBelow(c, db) ==
    CASE c.node.type = "nil" -> [err |-> FALSE, value |-> NoValue]
      [] c.node.type = "value" -> [err |-> FALSE, value |-> c.node.v]
      [] c.node.type = "hash" -> VerifyProof(c.node.enc, c.key, db)
VerifyProof(root, key, db) ==
    IF root \notin db THEN [err |-> TRUE, value |-> NoValue]
    ELSE verifyBelow(childOf(decodeNode(root, root), key, TRUE), db)

(* proofToPath below a node in memory: the node with the path to the key     *)
(* resolved from the proof, and the value at its end.                        *)
RECURSIVE resolvePath(_, _, _)
fromProof(db, n) == IF n.type = "hash" /\ n.enc \in db THEN decodeNode(n.enc, n.enc) ELSE n
linked(n, i, r) == [r EXCEPT !.node = IF n.type = "short" THEN [n EXCEPT !.val = r.node] ELSE [n EXCEPT !.children[i] = r.node]]
resolveChild(db, n, i, child, key) ==
    CASE child.type = "nil" -> [err |-> "absent", node |-> n, value |-> NoValue]
      [] child.type = "hash" -> [err |-> "missing", node |-> n, value |-> NoValue]
      [] child.type = "value" -> [err |-> "none", node |-> n, value |-> child.v]
      [] inner(child) -> linked(n, i, resolvePath(db, child, key))
resolveNext(db, n, i, c) == resolveChild(db, n, i, fromProof(db, c.node), c.key)
resolvePath(db, n, key) == resolveNext(db, n, key[1], childOf(n, key, FALSE))

pathResult(r, allowNonExistent) ==
    [err |-> r.err = "missing" \/ (r.err = "absent" /\ ~allowNonExistent), node |-> r.node, value |-> r.value]
proofToPath(db, rootHash, n, key, allowNonExistent) ==
    IF n = Nil /\ rootHash \notin db THEN [err |-> TRUE, node |-> Nil, value |-> NoValue]
    ELSE pathResult(resolvePath(db, IF n = Nil THEN decodeNode(rootHash, rootHash) ELSE n, keybytesToHex(key)), allowNonExistent)

-----------------------------------------------------------------------------
lessThan(a, b) == \* bytes.Compare(a, b) < 0
    LET m == prefixLen(a, b) IN m < Len(b) /\ (m = Len(a) \/ a[m + 1] < b[m + 1])
sign(a, b) == IF a = b THEN 0 ELSE IF lessThan(a, b) THEN -1 ELSE 1

touched(n) == [n EXCEPT !.hash = Nil, !.dirty = TRUE]
cleared(n, S) == [n EXCEPT !.children = [i \in Children |-> IF i \in S THEN Nil ELSE n.children[i]]]

(* unset: what is on one side of the path to the key goes; Nil when the      *)
(* whole branch does.                                                        *)
RECURSIVE unset(_, _, _)
unset(n, key, removeLeft) ==
    CASE n.type = "full" ->
            LET side == IF removeLeft THEN {i \in Children : i < key[1]} ELSE {i \in Children : key[1] < i /\ i < Radix}
            IN  [touched(cleared(n, side)) EXCEPT !.children[key[1]] = unset(@, Tail(key), removeLeft)]
      [] n.type = "short" ->
            IF ~matches(n, key, 0)
            THEN IF (removeLeft /\ lessThan(n.key, key)) \/ (~removeLeft /\ lessThan(key, n.key)) THEN Nil ELSE n
            ELSE IF n.val.type = "value" THEN Nil
            ELSE [touched(n) EXCEPT !.val = unset(@, from(key, Len(n.key)), removeLeft)]
      [] n.type = "nil" -> Nil

(* unsetInternal below a node: everything between the two paths goes.  The   *)
(* fork is the node where the paths part, or where one of them ends.         *)
RECURSIVE unsetFork(_, _, _)
done(node) == [err |-> FALSE, node |-> node]
against(n, key) == sign(upTo(key, IF Len(key) < Len(n.key) THEN Len(key) ELSE Len(n.key)), n.key)
within(n, r) == [r EXCEPT !.node = [touched(n) EXCEPT !.val = r.node]]
withinFull(n, i, r) == [r EXCEPT !.node = [touched(n) EXCEPT !.children[i] = r.node]]
unsetShort(n, left, right, l, r) ==
    CASE l = 0 /\ r = 0 -> within(n, unsetFork(n.val, from(left, Len(n.key)), from(right, Len(n.key))))
      [] l # 0 /\ r = l -> [err |-> TRUE, node |-> n]
      [] l # r /\ ((l # 0 /\ r # 0) \/ n.val.type = "value") -> done(Nil)
      [] l = 0 /\ r # 0 /\ n.val.type # "value" ->
            done([touched(n) EXCEPT !.val = unset(n.val, from(left, Len(n.key)), FALSE)])
      [] l # 0 /\ r = 0 /\ n.val.type # "value" ->
            done([touched(n) EXCEPT !.val = unset(n.val, from(right, Len(n.key)), TRUE)])
unsetRight(n, right) == touched([n EXCEPT !.children[right[1]] = unset(@, Tail(right), TRUE)])
unsetLeft(n, left) == [n EXCEPT !.children[left[1]] = unset(@, Tail(left), FALSE)]
unsetFork(n, left, right) ==
    IF n.type = "short" THEN unsetShort(n, left, right, against(n, left), against(n, right))
    ELSE IF left[1] # right[1] \/ n.children[left[1]] = Nil
         THEN done(unsetRight(unsetLeft(cleared(n, {i \in Children : left[1] < i /\ i < right[1]}), left), right))
    ELSE withinFull(n, left[1], unsetFork(n.children[left[1]], Tail(left), Tail(right)))

RECURSIVE hasRightElement(_, _)
(* Mutant: the elements to the right further down are not looked for.        *)
hasRightHere(n, key) ==
    CASE n.type = "full" -> \E i \in Children : key[1] < i /\ i < Radix /\ n.children[i] # Nil
      [] n.type = "short" -> lessThan(key, n.key)
      [] n.type \in {"value", "nil"} -> FALSE

hasRightElement(n, key) ==
    CASE n.type = "full" -> (\E i \in Children : key[1] < i /\ i < Radix /\ n.children[i] # Nil) \/ hasRightElement(n.children[key[1]], Tail(key))
      [] n.type = "short" -> IF ~matches(n, key, 0) THEN lessThan(key, n.key)
                             ELSE hasRightElement(n.val, from(key, Len(n.key)))
      [] n.type \in {"value", "nil"} -> FALSE
-----------------------------------------------------------------------------
(* VerifyRangeProof.  entries is a sequence of pairs; withProof is FALSE for *)
(* a proof that is nil.  The result says whether the range is accepted and   *)
(* whether there are more elements on the right.                             *)
accept(more) == [ok |-> TRUE, more |-> more]
refuse == [ok |-> FALSE, more |-> FALSE]

(* The root of the entries alone, built in order. *)
addEntry(n, e) == stackInsert(n, Front(keybytesToHex(e[1])), e[2], <<>>).node
refRoot(ref) == IF ref.type = "hash" THEN ref.enc ELSE ref
builtRoot(entries) == refRoot(hashRec(FoldLeft(addEntry, emptyNode, entries), <<>>).node.ref)

(* Update of a trie without a database: a failed one changes nothing. *)
unlessFailed(n, r) == IF r.err THEN n ELSE r.node
refill(n, e) == unlessFailed(n, update({}, newTracer, n, e[1], e[2]))

noElements(p, key) == IF p.err \/ p.value # NoValue \/ hasRightElement(p.node, key) THEN refuse ELSE accept(FALSE)

oneElement(p, firstKey, entry) ==
    IF p.err \/ firstKey # entry[1] \/ p.value # entry[2] THEN refuse
    ELSE accept(hasRightElement(p.node, keybytesToHex(firstKey)))

compareRoot(root, full, lastKey) ==
    IF hash(full, TRUE).hashed.enc # root THEN refuse ELSE accept(hasRightElement(full, lastKey))
fillHole(root, hole, entries) ==
    IF hole.err THEN refuse ELSE compareRoot(root, FoldLeft(refill, hole.node, entries), keybytesToHex(Last(entries)[1]))
cutHole(root, both, left, right, entries) ==
    IF both.err THEN refuse ELSE fillHole(root, unsetFork(both.node, left, right), entries)
bothEdges(root, left, firstKey, lastKey, entries, db) ==
    IF left.err THEN refuse
    ELSE cutHole(root, proofToPath(db, root, left.node, lastKey, TRUE), keybytesToHex(firstKey), keybytesToHex(lastKey), entries)
someElements(root, firstKey, lastKey, entries, db) ==
    IF ~lessThan(firstKey, lastKey) THEN refuse
    ELSE bothEdges(root, proofToPath(db, root, Nil, firstKey, TRUE), firstKey, lastKey, entries, db)

VerifyRangeProof(root, firstKey, lastKey, entries, withProof, db) ==
    CASE \E i \in 1..(Len(entries) - 1) : ~lessThan(entries[i][1], entries[i + 1][1]) -> refuse
      [] \E i \in 1..Len(entries) : entries[i][2] = NoValue -> refuse
      [] OTHER -> CASE ~withProof -> IF builtRoot(entries) = root THEN accept(FALSE) ELSE refuse
                    [] withProof /\ entries = <<>> -> noElements(proofToPath(db, root, Nil, firstKey, TRUE), keybytesToHex(firstKey))
                    [] withProof /\ Len(entries) = 1 /\ firstKey = lastKey -> oneElement(proofToPath(db, root, Nil, firstKey, FALSE), firstKey, entries[1])
                    [] OTHER -> someElements(root, firstKey, lastKey, entries, db)

-----------------------------------------------------------------------------
(* A peer holds a trie and sends the entries of a range with the proofs of   *)
(* its two edges; what arrives may be something else.                        *)

atMost(a, b) == a = b \/ lessThan(a, b)
inRange(K) == {k \in K : atMost(first, k) /\ atMost(k, last)}
sorted(K) == SortSeq(SetToSeq(K), lessThan)
present == {k \in ProofKeys : state[k] # NoValue}
honest == LET K == sorted(inRange(present)) IN [i \in 1..Len(K) |-> <<K[i], state[K[i]]>>]
edges == Prove(rootOf(state), first) \cup Prove(rootOf(state), last)

(* The entries of a range of keys with some values, in order. *)
Claims == {LET K == sorted({k \in inRange(ProofKeys) : c[k] # NoValue}) IN [i \in 1..Len(K) |-> <<K[i], c[K[i]]>>] :
           c \in [inRange(ProofKeys) -> ProofValues \cup {NoValue}]}

ProofInit == /\ state \in [ProofKeys -> ProofValues \cup {NoValue}]
             /\ first \in EdgeKeys /\ last \in EdgeKeys /\ atMost(first, last)
             /\ claim = <<>>
             /\ proof = {}
             /\ outcome = [ask |-> "none"]

(* The answer to a request for one key, with a node of the proof missing or none. *)
AskOne ==
    /\ outcome.ask = "none" /\ first = last
    /\ \E without \in SUBSET Prove(rootOf(state), first) :
        /\ Cardinality(without) <= 1
        /\ proof' = Prove(rootOf(state), first) \ without
        /\ outcome' = [ask |-> "one", answer |-> IF rootOf(state) = Nil THEN [err |-> TRUE, value |-> NoValue]
                                                 ELSE VerifyProof(rootOf(state), keybytesToHex(first), proof')]
    /\ UNCHANGED <<state, first, last, claim>>

verify(withProof) ==
    outcome' = [ask |-> "range", withProof |-> withProof,
                answer |-> VerifyRangeProof(rootOf(state), first, last, claim', withProof, proof')]

(* Any entries with the true proofs. *)
AskRange ==
    /\ outcome.ask = "none"
    /\ claim' \in Claims
    /\ proof' = edges
    /\ verify(TRUE)
    /\ UNCHANGED <<state, first, last>>

(* The true entries with fewer nodes than needed, or with all of the trie.   *)
AskRangeWith ==
    /\ outcome.ask = "none"
    /\ claim' = honest
    /\ \/ \E e \in edges : proof' = edges \ {e}
       \/ proof' = {s[2] : s \in stored(rootOf(state))}
    /\ verify(TRUE)
    /\ UNCHANGED <<state, first, last>>

(* Any entries as the whole trie, without a proof. *)
AskAll ==
    /\ outcome.ask = "none" /\ first = last
    /\ claim' \in {LET K == sorted({k \in ProofKeys : c[k] # NoValue}) IN [i \in 1..Len(K) |-> <<K[i], c[K[i]]>>] :
                   c \in [ProofKeys -> ProofValues \cup {NoValue}]}
    /\ proof' = {}
    /\ verify(FALSE)
    /\ UNCHANGED <<state, first, last>>

ProofNext == AskOne \/ AskRange \/ AskRangeWith \/ AskAll \/ (outcome.ask # "none" /\ UNCHANGED proofVars)
ProofSpec == ProofInit /\ [][ProofNext]_proofVars

-----------------------------------------------------------------------------
entriesOf(K) == {<<k, state[k]>> : k \in K}
rightOf(k) == {x \in present : lessThan(k, x)}

(* What a verification accepts is true of the trie with the given root: the  *)
(* value of a key; that a range of it holds the given entries and no other,  *)
(* and whether there are more on its right; and the true answer with the     *)
(* proofs that it needs is accepted.                                         *)
ProofSound ==
    /\ outcome.ask = "one" =>
        LET r == outcome.answer
            known == IF first \in ProofKeys THEN state[first] ELSE NoValue
        IN  /\ ~r.err => r.value = known
            /\ present # {} /\ proof = Prove(rootOf(state), first) => ~r.err
    /\ outcome.ask = "range" =>
        LET r == outcome.answer
            all == ~outcome.withProof
            true == IF all THEN entriesOf(present) ELSE entriesOf(inRange(present))
        IN  /\ r.ok => /\ ToSet(claim) = true
                       /\ all => ~r.more
                       /\ ~all /\ claim = <<>> => rightOf(first) = {}
                       /\ ~all /\ claim # <<>> => (r.more <=> rightOf(Last(claim)[1]) # {})
            /\ all /\ ToSet(claim) = true => r.ok
            /\ ~all /\ claim = honest /\ edges \subseteq proof /\ present # {} =>
                (r.ok <=> IF claim = <<>> THEN rightOf(first) = {} ELSE first # last \/ Len(claim) = 1)
=============================================================================
