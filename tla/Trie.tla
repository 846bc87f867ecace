-------------------------------- MODULE Trie --------------------------------
(***************************************************************************)
(* trie/trie.go: a trie that is opened at a root, read, changed, hashed    *)
(* and committed, and opened again.  The database keeps encodings by hash; *)
(* it may lose one.  content is what the trie was told, paths what a store *)
(* by path holds after applying the node sets of the commits.              *)
(***************************************************************************)
EXTENDS TrieOps

CONSTANTS Keys,           \* keys, as sequences of bytes
          Values,         \* values other than the empty one
          MaxSteps,       \* operations on a trie before its commit
          MaxCommits,     \* commits
          MayLose         \* the database may lose an encoding

VARIABLES root, tracer, committed, db, head, content, paths, nodes, lost, errors, steps, commits

vars == <<root, tracer, committed, db, head, content, paths, nodes, lost, errors, steps, commits>>

(* A database with the committed trie of some content. *)
Init == /\ content \in [Keys -> Values \cup {NoValue}]
        /\ head = rootOf(content)
        /\ \E all \in {stored(head)} :
            /\ paths = [p \in {s[1] : s \in all} |-> (CHOOSE s \in all : s[1] = p)[2]]
            /\ db = {s[2] : s \in all}
        /\ root = Nil
        /\ tracer = newTracer
        /\ committed = TRUE
        /\ nodes = <<>>
        /\ lost = {}
        /\ errors = FALSE
        /\ steps = 0
        /\ commits = 0

usable == ~committed /\ steps < MaxSteps /\ steps' = steps + 1
kept == UNCHANGED <<committed, db, head, paths, nodes, lost, commits>>

(* Update and Delete: a failed one leaves the root alone.                    *)
Update(key, value) ==
    /\ usable
    /\ \E r \in {update(db, tracer, root, key, value)} :
        /\ tracer' = r.tr
        /\ root' = IF r.err THEN root ELSE r.node
        /\ content' = IF r.err THEN content ELSE [content EXCEPT ![key] = value]
        /\ errors' = (errors \/ r.err)
    /\ kept

Get(key) ==
    /\ usable
    /\ \E r \in {get(db, tracer, root, keybytesToHex(key), 0)} :
        /\ tracer' = r.tr
        /\ root' = nodeOf(r, root, r.node)
        /\ errors' = (errors \/ r.err)
    /\ kept /\ UNCHANGED content

GetNode(path) ==
    /\ usable
    /\ \E r \in {getNode(db, tracer, root, compactToHex(path), 0)} :
        /\ tracer' = r.tr
        /\ root' = nodeOf(r, root, r.node)
    /\ kept /\ UNCHANGED <<content, errors>>

Hash ==
    /\ usable
    /\ root # Nil
    /\ root' = hash(root, TRUE).cached
    /\ kept /\ UNCHANGED <<content, tracer, errors>>

(* Commit, and the database that takes the written nodes.                    *)
CommitTrie ==
    /\ ~committed
    /\ \E c \in {Commit(tracer, root)} :
        LET deleted == {p \in DOMAIN c.nodes : c.nodes[p].enc = Nil}
            written == DOMAIN c.nodes \ deleted
        IN  /\ nodes' = c.nodes
            /\ head' = c.root
            /\ db' = db \cup {c.nodes[p].enc : p \in written}
            /\ paths' = [p \in (DOMAIN paths \ deleted) \cup written |-> IF p \in written THEN c.nodes[p].enc ELSE paths[p]]
    /\ root' = Nil
    /\ committed' = TRUE
    /\ tracer' = newTracer
    /\ commits' = commits + 1
    /\ UNCHANGED <<content, lost, errors, steps>>

(* New at the committed root: nothing is read for the empty one, and there   *)
(* is no trie if the root is missing.                                        *)
New ==
    /\ committed /\ commits < MaxCommits
    /\ head # Nil => head \in db
    /\ \E r \in {IF head = Nil THEN [node |-> Nil, tr |-> newTracer] ELSE resolveAndTrack(db, newTracer, HashNode(head), <<>>)} :
        root' = r.node /\ tracer' = r.tr
    /\ committed' = FALSE
    /\ steps' = 0
    /\ nodes' = <<>>
    /\ UNCHANGED <<db, head, content, paths, lost, errors, commits>>

(* The database loses an encoding. *)
Lose(enc) ==
    /\ MayLose /\ lost = {} /\ committed
    /\ db' = db \ {enc}
    /\ lost' = {enc}
    /\ UNCHANGED <<root, tracer, committed, head, content, paths, nodes, errors, steps, commits>>

Next == \/ \E k \in Keys, v \in Values \cup {NoValue} : Update(k, v)
        \/ \E k \in Keys : Get(k)
        \/ \E p \in DOMAIN paths : GetNode(hexToCompact(p))
        \/ Hash
        \/ CommitTrie
        \/ New
        \/ \E e \in db : Lose(e)
        \/ (committed /\ (commits = MaxCommits \/ (head # Nil /\ head \notin db)) /\ UNCHANGED vars)

Spec == Init /\ [][Next]_vars

-----------------------------------------------------------------------------
(* The root says what the content says, whatever the history of inserts,     *)
(* deletes, reads, hashings and reopenings: its hash is that of the trie     *)
(* built from the content alone, every read returns the content or fails on  *)
(* a lost node, and no operation fails unless a node was lost.               *)
readsBack(k, r) == IF r.err THEN lost # {} ELSE r.item = content[k]
TrieSound ==
    /\ errors => lost # {}
    /\ \E true \in {rootOf(content)} :
        /\ committed => head = true
        /\ ~committed =>
            /\ (root = Nil <=> true = Nil)
            /\ root # Nil => hash(root, TRUE).hashed.enc = true
            /\ \A k \in Keys : readsBack(k, get(db, tracer, root, keybytesToHex(k), 0))
            /\ (true = head /\ (inner(root) => ~root.dirty)) =>
                \A s \in stored(head) : \E r \in {getNode(db, tracer, root, s[1], 0)} : r.err \/ r.item = s[2]

(* A node set is exact: a store by path that applies it holds the nodes of   *)
(* the new trie that have a hash, each at its path, and no other; and the    *)
(* value it gives as the previous one is what was there.  (A failed change   *)
(* leaves its deletions with the tracer.)                                    *)
StoredExactly == committed /\ ~errors => {<<p, paths[p]>> : p \in DOMAIN paths} = stored(head)
PreviousKept == ~errors => \A p \in DOMAIN nodes' : nodes'[p].prev = IF p \in DOMAIN paths THEN paths[p] ELSE Nil
NodeSetsExact == []StoredExactly /\ [][PreviousKept]_nodes

-----------------------------------------------------------------------------
(***************************************************************************)
(* trie/stacktrie.go: a stack trie that is fed keys in order, and hashed   *)
(* or committed at the end.                                                *)
(***************************************************************************)

CONSTANTS OrderedKeys,    \* the keys that may come, in their order, none a prefix of another
          StackValues     \* values, none empty

VARIABLES st, emitted, next, inserted, result

stackVars == <<st, emitted, next, inserted, result>>

StackInit == /\ st = emptyNode
             /\ emitted = {}
             /\ next = 1
             /\ inserted = [k \in ToSet(OrderedKeys) |-> NoValue]
             /\ result = "none"

(* Update of the next key, or of a later one. *)
StackUpdate(i, value) ==
    /\ result = "none" /\ i \in next..Len(OrderedKeys)
    /\ \E r \in {stackInsert(st, Front(keybytesToHex(OrderedKeys[i])), value, <<>>)} :
        st' = r.node /\ emitted' = emitted \cup r.w
    /\ next' = i + 1
    /\ inserted' = [inserted EXCEPT ![OrderedKeys[i]] = value]
    /\ UNCHANGED result

(* Hash and Commit: the root is hashed whatever its length, and Commit writes *)
(* it; the root of an empty trie is not a node.                              *)
StackHash ==
    /\ result = "none"
    /\ \E r \in {hashRec(st, <<>>)} : st' = r.node /\ emitted' = emitted \cup r.w
    /\ result' = "hashed"
    /\ UNCHANGED <<next, inserted>>

StackCommit ==
    /\ result = "none"
    /\ \E r \in {hashRec(st, <<>>)} :
        /\ st' = r.node
        /\ emitted' = emitted \cup r.w \cup (IF r.node.ref.type \in {"hash", "nil"} THEN {} ELSE {<<(<<>>), r.node.ref>>})
    /\ result' = "committed"
    /\ UNCHANGED <<next, inserted>>

StackNext == \/ \E i \in 1..Len(OrderedKeys), v \in StackValues : StackUpdate(i, v)
             \/ StackHash
             \/ StackCommit
             \/ (result # "none" /\ UNCHANGED stackVars)

StackSpec == StackInit /\ [][StackNext]_stackVars

-----------------------------------------------------------------------------
stackRoot == IF st.ref.type = "hash" THEN st.ref.enc ELSE st.ref

(* A trie built in order and forgotten on the way has the root of the trie   *)
(* with the same content, and has written exactly the nodes of that trie     *)
(* that have a hash, at their paths (Hash leaves out a short root).          *)
builtFrom(true) ==
    /\ stackRoot = true
    /\ result = "hashed" => emitted = {s \in stored(true) : encSize(s[2]) >= HashLen}
    /\ result = "committed" => emitted = stored(true)
StackSound ==
    /\ result # "none" => builtFrom(rootOf(inserted))
    /\ result = "none" => \A a, b \in emitted : a[1] = b[1] => a = b
=============================================================================
