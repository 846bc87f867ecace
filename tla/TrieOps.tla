------------------------------ MODULE TrieOps -------------------------------
(***************************************************************************)
(* trie/node.go, trie/node_enc.go, trie/hasher.go and trie/encoding.go:    *)
(* the nodes of a Merkle Patricia trie in memory and as they are stored.   *)
(* A key byte has two nibbles below Radix (16 in the source); Radix also   *)
(* is the terminator.  An encoding is kept as a record of what it says,    *)
(* and its length is computed; a hash is the encoding that it stands for,  *)
(* which is what a hash without collisions amounts to.                     *)
(***************************************************************************)
EXTENDS Integers, Sequences, FiniteSets, FiniteSetsExt, SequencesExt

CONSTANTS Radix,          \* children of a full node, and the terminator
          HashLen,        \* bytes of a hash (32 in the source)
          ValueLen(_)     \* bytes of a value

-----------------------------------------------------------------------------
(* encoding.go                                                             *)

hasTerm(s) == s # <<>> /\ Last(s) = Radix

keybytesToHex(str) == [i \in 1..(2 * Len(str)) |-> IF i % 2 = 1 THEN str[(i + 1) \div 2] \div Radix ELSE str[i \div 2] % Radix]
                      \o <<Radix>>

(* One byte for two nibbles. *)
decodeNibbles(nibbles) == [i \in 1..(Len(nibbles) \div 2) |-> nibbles[2 * i - 1] * Radix + nibbles[2 * i]]

hexToKeybytes(hex) == decodeNibbles(IF hasTerm(hex) THEN Front(hex) ELSE hex)

(* The first byte holds the flags (2 for a value, 1 for an odd length) and, *)
(* when the length is odd, the first nibble.                                *)
hexToCompact(hex) ==
    LET flag == IF hasTerm(hex) THEN 2 ELSE 0
        h    == IF hasTerm(hex) THEN Front(hex) ELSE hex
    IN  IF Len(h) % 2 = 1 THEN <<(flag + 1) * Radix + h[1]>> \o decodeNibbles(Tail(h))
        ELSE <<flag * Radix>> \o decodeNibbles(h)

(* The nibbles without the flags, and without a terminator if they have none. *)
afterFlags(hex) == SubSeq(hex, 3 - (hex[1] % 2), IF hex[1] < 2 THEN Len(hex) - 1 ELSE Len(hex))

compactToHex(compact) == IF compact = <<>> THEN <<>> ELSE afterFlags(keybytesToHex(compact))

prefixLen(a, b) ==
    LET short == IF Len(a) < Len(b) THEN Len(a) ELSE Len(b)
        differ == {i \in 1..short : a[i] # b[i]}
    IN  IF differ = {} THEN short ELSE (CHOOSE i \in differ : \A j \in differ : i <= j) - 1

-----------------------------------------------------------------------------
(* node.go.  A node in memory; hash is the cached one, Nil if there is none. *)

Children == 0..Radix
Nil == [type |-> "nil"]
ValueNode(v) == [type |-> "value", v |-> v]
HashNode(enc) == [type |-> "hash", enc |-> enc]
ShortNode(key, val, hash, dirty) == [type |-> "short", key |-> key, val |-> val, hash |-> hash, dirty |-> dirty]
FullNode(children, hash, dirty) == [type |-> "full", children |-> children, hash |-> hash, dirty |-> dirty]
NoChildren == [i \in Children |-> Nil]
inner(n) == n.type \in {"short", "full"}

(* node_enc.go.  An encoding: a list of two or of Radix + 1 items, each of   *)
(* them nothing, a value, a hash or an embedded list.                        *)
ShortEnc(compact, ref) == [type |-> "short", key |-> compact, ref |-> ref]
FullEnc(refs) == [type |-> "full", refs |-> refs]

stringSize(n) == IF n = 1 THEN 1 ELSE n + 1

(* The length of an encoding; a list as short as a hash has one byte of      *)
(* header, and of a longer one only that it is longer matters.               *)
RECURSIVE encSize(_), refsSize(_, _)
refsSize(refs, i) == IF i > Radix THEN 0 ELSE encSize(refs[i]) + refsSize(refs, i + 1)
encSize(e) ==
    CASE e.type = "nil"   -> 1
      [] e.type = "value" -> stringSize(ValueLen(e.v))
      [] e.type = "hash"  -> HashLen + 1
      [] e.type = "short" -> 1 + stringSize(Len(e.key)) + encSize(e.ref)
      [] e.type = "full"  -> 1 + refsSize(e.refs, 0)

(* decodeNode with the hash it was found by, decodeRef for what it holds.    *)
RECURSIVE decodeNode(_, _)
decodeRef(r) == IF inner(r) THEN decodeNode(Nil, r) ELSE r
decodeShort(hash, key, ref) == ShortNode(key, IF hasTerm(key) THEN ref ELSE decodeRef(ref), hash, FALSE)
decodeFull(hash, refs) == FullNode([i \in Children |-> decodeRef(refs[i])], hash, FALSE)
decodeNode(hash, e) == IF e.type = "short" THEN decodeShort(hash, compactToHex(e.key), e.ref) ELSE decodeFull(hash, e.refs)

-----------------------------------------------------------------------------
(* hasher.go.  hash returns what stands for a node in its parent, and the   *)
(* node with its hash cached.                                               *)

toHash(collapsed, force) == IF encSize(collapsed) < HashLen /\ ~force THEN collapsed ELSE HashNode(collapsed)

RECURSIVE hash(_, _)
below(c) == IF inner(c) THEN hash(c, FALSE) ELSE [hashed |-> c, cached |-> c]
withHash(cached, h) == [hashed |-> h, cached |-> [cached EXCEPT !.hash = IF h.type = "hash" THEN h.enc ELSE Nil]]
hashShort(n, c, force) == withHash([n EXCEPT !.val = c.cached], toHash(ShortEnc(hexToCompact(n.key), c.hashed), force))
hashFull(n, c, force) == withHash([n EXCEPT !.children = [i \in Children |-> c[i].cached]],
                                  toHash(FullEnc([i \in Children |-> c[i].hashed]), force))
hash(n, force) ==
    IF n.hash # Nil THEN [hashed |-> HashNode(n.hash), cached |-> n]
    ELSE IF n.type = "short" THEN hashShort(n, below(n.val), force)
    ELSE hashFull(n, [i \in Children |-> below(n.children[i])], force)

(* The encoding of a node, and whether it has a hash of its own: proofHash. *)
collapse(n) == IF n.type = "short" THEN ShortEnc(hexToCompact(n.key), below(n.val).hashed)
               ELSE FullEnc([i \in Children |-> below(n.children[i]).hashed])
alone(collapsed) == [enc |-> collapsed, standalone |-> encSize(collapsed) >= HashLen]
proofHash(n) == alone(collapse(n))

-----------------------------------------------------------------------------
(* The trie by definition, from the pairs <<hex key, value>> in it.          *)

RECURSIVE trieOf(_)
suffixes(n, S) == {<<SubSeq(p[1], n + 1, Len(p[1])), p[2]>> : p \in S}
common(some, pairs) == Min({prefixLen(some[1], p[1]) : p \in pairs})
forked(pairs, some, c) ==
    IF c > 0 THEN ShortNode(SubSeq(some[1], 1, c), trieOf(suffixes(c, pairs)), Nil, TRUE)
    ELSE FullNode([i \in Children |-> trieOf(suffixes(1, {p \in pairs : p[1][1] = i}))], Nil, TRUE)
single(p) == IF p[1] = <<>> THEN ValueNode(p[2]) ELSE ShortNode(p[1], ValueNode(p[2]), Nil, TRUE)
trieFrom(pairs, some) == IF Cardinality(pairs) = 1 THEN single(some) ELSE forked(pairs, some, common(some, pairs))
trieOf(pairs) == IF pairs = {} THEN Nil ELSE trieFrom(pairs, CHOOSE p \in pairs : TRUE)

(* A content maps keys to values; the empty value says that there is none.  *)
NoValue == ""
pairsOf(content) == {<<keybytesToHex(k), content[k]>> : k \in {k \in DOMAIN content : content[k] # NoValue}}

(* The root of a content: its encoding, Nil when it is empty. *)
rootOfTrie(n) == IF n = Nil THEN Nil ELSE hash(n, TRUE).hashed.enc
rootOf(content) == rootOfTrie(trieOf(pairsOf(content)))

(* The nodes of a stored trie that have a hash, with the paths to them. *)
RECURSIVE storedBelow(_, _)
storedBelow(path, ref) ==
    CASE ref.type \in {"nil", "value"} -> {}
      [] ref.type = "hash" -> {<<path, ref.enc>>} \cup storedBelow(path, ref.enc)
      [] ref.type = "short" -> storedBelow(path \o compactToHex(ref.key), ref.ref)
      [] ref.type = "full" -> UNION {storedBelow(Append(path, i), ref.refs[i]) : i \in Children}
stored(root) == IF root = Nil THEN {} ELSE storedBelow(<<>>, HashNode(root))

-----------------------------------------------------------------------------
(***************************************************************************)
(* trie/trie.go, trie/tracer.go and trie/committer.go: reading, inserting, *)
(* deleting and committing, as operators on a node, on the tracer that     *)
(* records what happens to which path, and on the set of encodings that    *)
(* the database holds.  A result carries the tracer as the call leaves it. *)
(***************************************************************************)

-----------------------------------------------------------------------------
(* tracer.go                                                               *)

newTracer == [inserts |-> {}, deletes |-> {}, accessList |-> <<>>]

onRead(tr, path, enc) == [tr EXCEPT !.accessList = (path :> enc) @@ @]

onInsert(tr, path) == IF path \in tr.deletes THEN [tr EXCEPT !.deletes = @ \ {path}]
                      ELSE [tr EXCEPT !.inserts = @ \cup {path}]

onDelete(tr, path) == IF path \in tr.inserts THEN [tr EXCEPT !.inserts = @ \ {path}]
                      ELSE [tr EXCEPT !.deletes = @ \cup {path}]

prevOf(tr, path) == IF path \in DOMAIN tr.accessList THEN tr.accessList[path] ELSE Nil

(* A node set maps paths to what is written there, Nil for a deletion, and  *)
(* to what was there before.                                                *)
markDeletions(tr) == [path \in tr.deletes \cap DOMAIN tr.accessList |-> [enc |-> Nil, prev |-> tr.accessList[path]]]

-----------------------------------------------------------------------------
(* trie.go                                                                 *)

(* resolveAndTrack: the node that a hash stands for, read from the database. *)
resolveAndTrack(db, tr, n, prefix) ==
    IF n.enc \in db THEN [err |-> FALSE, node |-> decodeNode(n.enc, n.enc), tr |-> onRead(tr, prefix, n.enc)]
    ELSE [err |-> TRUE, node |-> Nil, tr |-> tr]

(* Mutant: the last child of a branch is joined without being loaded.        *)
resolveNot(db, tr, n, prefix) == [err |-> FALSE, node |-> n, tr |-> tr]

resolve(db, tr, n, prefix) ==
    IF n.type = "hash" THEN resolveAndTrack(db, tr, n, prefix) ELSE [err |-> FALSE, node |-> n, tr |-> tr]

from(key, n) == SubSeq(key, n + 1, Len(key))
upTo(key, n) == SubSeq(key, 1, n)

(* What a lookup returns: what it found, the node with what was read from    *)
(* the database in it, whether anything was, and the tracer.                 *)
found(item, node, did, tr) == [item |-> item, node |-> node, didResolve |-> did, err |-> FALSE, tr |-> tr]
notRead(n, tr) == [item |-> NoValue, node |-> n, didResolve |-> TRUE, err |-> TRUE, tr |-> tr]
nodeOf(r, old, new) == IF ~r.err /\ r.didResolve THEN new ELSE old
relinkShort(n, r) == [r EXCEPT !.node = nodeOf(r, n, [n EXCEPT !.val = r.node])]
relinkFull(n, i, r) == [r EXCEPT !.node = nodeOf(r, n, [n EXCEPT !.children[i] = r.node])]
matches(n, key, pos) == Len(key) - pos >= Len(n.key) /\ SubSeq(key, pos + 1, pos + Len(n.key)) = n.key

(* get; pos is the number of nibbles of the key already used.               *)
RECURSIVE get(_, _, _, _, _)
getFrom(db, n, key, pos, c) ==
    IF c.err THEN notRead(n, c.tr) ELSE [get(db, c.tr, c.node, key, pos) EXCEPT !.didResolve = TRUE]
get(db, tr, n, key, pos) ==
    CASE n.type = "nil" -> found(NoValue, Nil, FALSE, tr)
      [] n.type = "value" -> found(n.v, n, FALSE, tr)
      [] n.type = "short" -> IF ~matches(n, key, pos) THEN found(NoValue, n, FALSE, tr)
                             ELSE relinkShort(n, get(db, tr, n.val, key, pos + Len(n.key)))
      [] n.type = "full" -> relinkFull(n, key[pos + 1], get(db, tr, n.children[key[pos + 1]], key, pos + 1))
      [] n.type = "hash" -> getFrom(db, n, key, pos, resolveAndTrack(db, tr, n, upTo(key, pos)))

(* getNode: the encoding of the node at a path, read from the database.      *)
RECURSIVE getNode(_, _, _, _, _)
hashAt(n) == IF n.type = "hash" THEN n.enc ELSE IF inner(n) THEN n.hash ELSE Nil
readBlob(db, tr, n, h) ==
    IF h = Nil THEN [notRead(n, tr) EXCEPT !.didResolve = FALSE]
    ELSE IF h \notin db THEN notRead(n, tr)
    ELSE found(h, n, TRUE, tr)
getNodeFrom(db, n, path, pos, c) ==
    IF c.err THEN notRead(n, c.tr) ELSE [getNode(db, c.tr, c.node, path, pos) EXCEPT !.didResolve = TRUE]
getNode(db, tr, n, path, pos) ==
    IF n.type = "nil" THEN found(Nil, Nil, FALSE, tr)
    ELSE IF pos >= Len(path) THEN readBlob(db, tr, n, hashAt(n))
    ELSE CASE n.type = "value" -> found(Nil, Nil, FALSE, tr)
           [] n.type = "short" -> IF ~matches(n, path, pos) THEN found(Nil, n, FALSE, tr)
                                  ELSE relinkShort(n, getNode(db, tr, n.val, path, pos + Len(n.key)))
           [] n.type = "full" -> relinkFull(n, path[pos + 1], getNode(db, tr, n.children[path[pos + 1]], path, pos + 1))
           [] n.type = "hash" -> getNodeFrom(db, n, path, pos, resolveAndTrack(db, tr, n, upTo(path, pos)))

changed(node, tr) == [dirty |-> TRUE, node |-> node, err |-> FALSE, tr |-> tr]
unchanged(node, tr) == [dirty |-> FALSE, node |-> node, err |-> FALSE, tr |-> tr]
failed(node, tr) == [dirty |-> FALSE, node |-> node, err |-> TRUE, tr |-> tr]

(* A change below n that failed or changed nothing leaves n as it was. *)
orElse(n, r, new) == IF ~r.dirty \/ r.err THEN [r EXCEPT !.dirty = FALSE, !.node = n] ELSE changed(new, r.tr)

(* insert: every node on the way is new and dirty, and the paths where a     *)
(* node appears that was not there are reported to the tracer.               *)
RECURSIVE insert(_, _, _, _, _, _)
branchOf(n, key, match, old, new) ==
    FullNode([NoChildren EXCEPT ![n.key[match + 1]] = old, ![key[match + 1]] = new], Nil, TRUE)
splitAt(n, prefix, key, match, old, new) ==
    IF match = 0 THEN changed(branchOf(n, key, 0, old, new.node), new.tr)
    ELSE changed(ShortNode(upTo(key, match), branchOf(n, key, match, old, new.node), Nil, TRUE),
                 onInsert(new.tr, prefix \o upTo(key, match)))
splitFrom(db, n, prefix, key, value, match, old) ==
    splitAt(n, prefix, key, match, old.node, insert(db, old.tr, Nil, prefix \o upTo(key, match + 1), from(key, match + 1), value))
shortened(n, r) == orElse(n, r, ShortNode(n.key, r.node, Nil, TRUE))
insertShort(db, tr, n, prefix, key, value, match) ==
    IF match = Len(n.key) THEN shortened(n, insert(db, tr, n.val, prefix \o upTo(key, match), from(key, match), value))
    ELSE splitFrom(db, n, prefix, key, value, match,
                  insert(db, tr, Nil, prefix \o upTo(n.key, match + 1), from(n.key, match + 1), n.val))
insertFull(n, i, r) == orElse(n, r, FullNode([n.children EXCEPT ![i] = r.node], Nil, TRUE))
insertFrom(db, prefix, key, value, c) ==
    IF c.err THEN failed(Nil, c.tr)
    ELSE LET r == insert(db, c.tr, c.node, prefix, key, value) IN orElse(c.node, r, r.node)
insert(db, tr, n, prefix, key, value) ==
    IF key = <<>> THEN [changed(value, tr) EXCEPT !.dirty = n # value]
    ELSE CASE n.type = "short" -> insertShort(db, tr, n, prefix, key, value, prefixLen(key, n.key))
           [] n.type = "full" -> insertFull(n, key[1], insert(db, tr, n.children[key[1]], Append(prefix, key[1]), Tail(key), value))
           [] n.type = "nil" -> changed(ShortNode(key, value, Nil, TRUE), onInsert(tr, prefix))
           [] n.type = "hash" -> insertFrom(db, prefix, key, value, resolveAndTrack(db, tr, n, prefix))

(* delete: a full node left with one child becomes a short node, and a short *)
(* node above a short node swallows it.                                      *)
RECURSIVE delete(_, _, _, _, _)
swallow(key, child, tr, path) ==
    IF child.type = "short" THEN changed(ShortNode(key \o child.key, child.val, Nil, TRUE), onDelete(tr, path))
    ELSE changed(ShortNode(key, child, Nil, TRUE), tr)
deleteShort(n, prefix, r) ==
    IF ~r.dirty \/ r.err THEN orElse(n, r, n) ELSE swallow(n.key, r.node, r.tr, prefix \o n.key)
(* The only child that is left, as it was read: an inner node stays a hash.  *)
deleteTwig(kids, prefix, pos, c) ==
    IF c.err THEN failed(Nil, c.tr)
    ELSE swallow(<<pos>>, IF c.node.type = "short" THEN c.node ELSE kids[pos], c.tr, Append(prefix, pos))
reduceTo(db, tr, prefix, kids, pos) ==
    IF pos = Radix THEN changed(ShortNode(<<pos>>, kids[pos], Nil, TRUE), tr)
    ELSE deleteTwig(kids, prefix, pos, resolve(db, tr, kids[pos], Append(prefix, pos)))
reduce(db, tr, prefix, kids, left) ==
    IF Cardinality(left) > 1 THEN changed(FullNode(kids, Nil, TRUE), tr)
    ELSE reduceTo(db, tr, prefix, kids, CHOOSE pos \in left : TRUE)
deleteChild(db, prefix, n, i, r) ==
    IF ~r.dirty \/ r.err THEN orElse(n, r, n)
    ELSE IF r.node # Nil THEN changed(FullNode([n.children EXCEPT ![i] = r.node], Nil, TRUE), r.tr)
    ELSE reduce(db, r.tr, prefix, [n.children EXCEPT ![i] = Nil], {j \in Children \ {i} : n.children[j] # Nil})
deleteFrom(db, prefix, key, c) ==
    IF c.err THEN failed(Nil, c.tr)
    ELSE LET r == delete(db, c.tr, c.node, prefix, key) IN orElse(c.node, r, r.node)
deleteMatch(db, tr, n, prefix, key, match) ==
    IF match < Len(n.key) THEN unchanged(n, tr)
    ELSE IF match = Len(key) THEN changed(Nil, onDelete(tr, prefix))
    ELSE deleteShort(n, prefix, delete(db, tr, n.val, prefix \o n.key, from(key, Len(n.key))))
delete(db, tr, n, prefix, key) ==
    CASE n.type = "short" -> deleteMatch(db, tr, n, prefix, key, prefixLen(key, n.key))
      [] n.type = "full" ->
            deleteChild(db, prefix, n, key[1], delete(db, tr, n.children[key[1]], Append(prefix, key[1]), Tail(key)))
      [] n.type = "value" -> changed(Nil, tr)
      [] n.type = "nil" -> unchanged(Nil, tr)
      [] n.type = "hash" -> deleteFrom(db, prefix, key, resolveAndTrack(db, tr, n, prefix))

(* update: an empty value deletes. *)
update(db, tr, root, key, value) ==
    IF value # NoValue THEN insert(db, tr, root, <<>>, keybytesToHex(key), ValueNode(value))
    ELSE delete(db, tr, root, <<>>, keybytesToHex(key))

-----------------------------------------------------------------------------
(* committer.go                                                            *)

(* Mutant: a node that is embedded from now on stays in the database.        *)
storeKept(tr, path, hashed, collapsed, nodes) ==
    IF hashed = Nil THEN [ref |-> collapsed, nodes |-> nodes]
    ELSE [ref |-> HashNode(hashed), nodes |-> (path :> [enc |-> collapsed, prev |-> prevOf(tr, path)]) @@ nodes]

(* store: a node with a hash is written, one that its parent embeds is       *)
(* deleted if the database had one at its path.                              *)
store(tr, path, hashed, collapsed, nodes) ==
    IF hashed = Nil
    THEN [ref |-> collapsed,
          nodes |-> IF path \in DOMAIN tr.accessList THEN (path :> [enc |-> Nil, prev |-> tr.accessList[path]]) @@ nodes ELSE nodes]
    ELSE [ref |-> HashNode(hashed), nodes |-> (path :> [enc |-> collapsed, prev |-> prevOf(tr, path)]) @@ nodes]

RECURSIVE commit(_, _, _)
as(ref) == [ref |-> ref, nodes |-> <<>>]
commitShort(tr, path, n, c) == store(tr, path, n.hash, ShortEnc(hexToCompact(n.key), c.ref), c.nodes)
commitFull(tr, path, n, c) == store(tr, path, n.hash, FullEnc([i \in Children |-> c[i].ref]),
                                    FoldFunction(LAMBDA x, nodes : x.nodes @@ nodes, <<>>, c))
commitChildren(tr, path, n) ==
    [i \in Children |-> IF i = Radix \/ n.children[i].type \in {"nil", "hash"} THEN as(n.children[i])
                        ELSE commit(tr, Append(path, i), n.children[i])]
commit(tr, path, n) ==
    IF n.type = "hash" THEN as(n)
    ELSE IF n.hash # Nil /\ ~n.dirty THEN as(HashNode(n.hash))
    ELSE IF n.type = "short"
         THEN commitShort(tr, path, n, IF n.val.type = "full" THEN commit(tr, path \o n.key, n.val) ELSE as(n.val))
    ELSE commitFull(tr, path, n, commitChildren(tr, path, n))

(* Commit: the deletions first, nothing for a trie whose root is clean.      *)
commitHashed(tr, n) ==
    IF ~n.dirty THEN [root |-> n.hash, nodes |-> <<>>]
    ELSE [root |-> n.hash, nodes |-> commit(tr, <<>>, n).nodes @@ markDeletions(tr)]
Commit(tr, n) ==
    IF n = Nil THEN [root |-> Nil, nodes |-> markDeletions(tr)] ELSE commitHashed(tr, hash(n, TRUE).cached)

-----------------------------------------------------------------------------
(***************************************************************************)
(* trie/stacktrie.go: a trie built from keys that come in order, which     *)
(* hashes and writes a subtree as soon as no key can fall into it any      *)
(* more.  A node is empty, a leaf, an extension, a branch, or hashed, when *)
(* only what stands for it in its parent is left.                          *)
(***************************************************************************)

emptyNode == [type |-> "empty"]
newLeaf(key, value) == [type |-> "leaf", key |-> key, val |-> value]
newExt(key, child) == [type |-> "ext", key |-> key, child |-> child]
branchNode(children) == [type |-> "branch", children |-> children]
hashedNode(ref) == [type |-> "hashed", ref |-> ref]
Nibbles == 0..(Radix - 1)

getDiffIndex(st1, key) == prefixLen(st1.key, key)

(* hashRec: the hashed node, and the nodes written on the way with their     *)
(* paths; a short encoding is kept to be embedded and not written.           *)
RECURSIVE hashRec(_, _)
embed(path, enc, h, deeper) ==
    [node |-> hashedNode(h), w |-> deeper \cup (IF h.type = "hash" THEN {<<path, enc>>} ELSE {})]
finish(path, enc, deeper) == embed(path, enc, toHash(enc, FALSE), deeper)
hashExt(n, path, c) == finish(path, ShortEnc(hexToCompact(n.key), c.node.ref), c.w)
hashBranch(path, c) == finish(path, FullEnc([i \in Children |-> IF i = Radix THEN Nil ELSE c[i].node.ref]),
                              UNION {c[i].w : i \in Nibbles})
hashedAway == [node |-> hashedNode(Nil), w |-> {}]
hashRec(n, path) ==
    CASE n.type = "hashed" -> [node |-> n, w |-> {}]
      [] n.type = "empty" -> hashedAway
      [] n.type = "leaf" -> finish(path, ShortEnc(hexToCompact(Append(n.key, Radix)), ValueNode(n.val)), {})
      [] n.type = "ext" -> hashExt(n, path, hashRec(n.child, path \o n.key))
      [] n.type = "branch" -> hashBranch(path, [i \in Nibbles |-> IF n.children[i] = Nil THEN hashedAway
                                                                  ELSE hashRec(n.children[i], Append(path, i))])

(* The branch with the part that was there, hashed, and the new leaf; an     *)
(* extension above it if the keys have a common prefix.                      *)
fork(key, diff, orig, newIdx, leaf) ==
    branchNode([i \in Nibbles |-> IF i = key[diff + 1] THEN orig ELSE IF i = newIdx THEN leaf ELSE Nil])
split(key, diff, orig, newIdx, leaf) ==
    IF diff = 0 THEN fork(key, diff, orig, newIdx, leaf) ELSE newExt(SubSeq(key, 1, diff), fork(key, diff, orig, newIdx, leaf))
splitOff(n, diff, key, value, orig) ==
    [node |-> split(n.key, diff, orig.node, key[diff + 1], newLeaf(SubSeq(key, diff + 2, Len(key)), value)), w |-> orig.w]

RECURSIVE stackInsert(_, _, _, _)
(* A branch: the last child before the new one is complete, and hashed.      *)
addChild(kids, idx, w, new) == [node |-> branchNode([kids EXCEPT ![idx] = new.node]), w |-> w \cup new.w]
intoBranch(kids, key, value, prefix, w) ==
    addChild(kids, key[1], w, IF kids[key[1]] = Nil THEN [node |-> newLeaf(Tail(key), value), w |-> {}]
                              ELSE stackInsert(kids[key[1]], Tail(key), value, Append(prefix, key[1])))
unresolve(kids, key, value, prefix, i, h) == intoBranch([kids EXCEPT ![i] = h.node], key, value, prefix, h.w)
insertBranch(kids, key, value, prefix, elder) ==
    IF elder = {} THEN intoBranch(kids, key, value, prefix, {})
    ELSE unresolve(kids, key, value, prefix, Max(elder), hashRec(kids[Max(elder)], Append(prefix, Max(elder))))
extend(n, new) == [node |-> newExt(n.key, new.node), w |-> new.w]
insertExt(n, key, value, prefix, diff) ==
    IF diff = Len(n.key)
    THEN extend(n, stackInsert(n.child, SubSeq(key, diff + 1, Len(key)), value, prefix \o SubSeq(key, 1, diff)))
    ELSE splitOff(n, diff, key, value,
                  IF diff < Len(n.key) - 1
                  THEN hashRec(newExt(SubSeq(n.key, diff + 2, Len(n.key)), n.child), prefix \o SubSeq(n.key, 1, diff + 1))
                  ELSE hashRec(n.child, prefix \o n.key))
insertLeaf(n, key, value, prefix, diff) ==
    splitOff(n, diff, key, value,
             hashRec(newLeaf(SubSeq(n.key, diff + 2, Len(n.key)), n.val), prefix \o SubSeq(n.key, 1, diff + 1)))
stackInsert(n, key, value, prefix) ==
    CASE n.type = "empty" -> [node |-> newLeaf(key, value), w |-> {}]
      [] n.type = "branch" ->
            insertBranch(n.children, key, value, prefix, {i \in Nibbles : i < key[1] /\ n.children[i] # Nil})
      [] n.type = "ext" -> insertExt(n, key, value, prefix, getDiffIndex(n, key))
      [] n.type = "leaf" -> insertLeaf(n, key, value, prefix, getDiffIndex(n, key))
=============================================================================
