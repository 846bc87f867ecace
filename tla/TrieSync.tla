------------------------------ MODULE TrieSync ------------------------------
(***************************************************************************)
(* trie/sync.go, with the leaf callback of core/state/sync.go: the         *)
(* scheduler that downloads a state.  It asks for nodes and for codes,     *)
(* takes the answers in any order, and keeps a node until everything below *)
(* it is complete, since a node in the database is taken as the sign that  *)
(* all of its subtree is there.  The state to download is given as nodes   *)
(* with their children; the database keeps nodes by hash.                  *)
(***************************************************************************)
EXTENDS Integers, Sequences, FiniteSets, FiniteSetsExt, SequencesExt

CONSTANTS Roots,          \* state roots; a new synchronisation may start from another one
          Kids,           \* the children of a node: pairs of a path below it and a hash
          Accounts,       \* the account in a node, at most one: path below it, storage root, code
          EmptyRoot, EmptyCode,
          maxFetchesPerDepth,
          MaxAsked,       \* the arguments of Missing
          MaxCrashes

VARIABLES syncRoot, nodeReqs, codeReqs, queue, fetches, memNodes, memCodes, dbNodes, dbCodes, asked, crashes

syncVars == <<syncRoot, nodeReqs, codeReqs, queue, fetches, memNodes, memCodes, dbNodes, dbCodes, asked, crashes>>

NoParent == <<-1>>
Depths == 0..8
without(f, S) == [x \in DOMAIN f \ S |-> f[x]]
(* The scheduler, as a value that the calls inside of a handler pass on. *)
sched == [nodeReqs |-> nodeReqs, codeReqs |-> codeReqs, queue |-> queue, fetches |-> fetches,
          memNodes |-> memNodes, memCodes |-> memCodes]
becomes(s) == /\ nodeReqs' = s.nodeReqs /\ codeReqs' = s.codeReqs /\ queue' = s.queue
              /\ fetches' = s.fetches /\ memNodes' = s.memNodes /\ memCodes' = s.memCodes

-----------------------------------------------------------------------------
nodeRequest(hash, parent) == [hash |-> hash, data |-> FALSE, parent |-> parent, deps |-> 0]
(* An item of the queue: a node, or a code with the path it was found at. *)
nodeItem(path) == [path |-> path, code |-> EmptyCode]
codeItem(hash, path) == [path |-> path, code |-> hash]
isNode(x) == x.code = EmptyCode

scheduleNodeRequest(s, path, req) ==
    [s EXCEPT !.nodeReqs = (path :> req) @@ @, !.queue = @ \cup {nodeItem(path)}]

(* A second request for a code only adds its parent to the first. *)
scheduleCodeRequest(s, hash, path, parent) ==
    IF hash \in DOMAIN s.codeReqs THEN [s EXCEPT !.codeReqs[hash].parents = Append(@, parent)]
    ELSE [s EXCEPT !.codeReqs = (hash :> [path |-> path, parents |-> <<parent>>]) @@ @, !.queue = @ \cup {codeItem(hash, path)}]

AddSubTrie(s, root, path, parent) ==
    IF root = EmptyRoot \/ path \in DOMAIN s.memNodes \/ root \in dbNodes THEN s
    ELSE LET linked == IF parent = NoParent THEN s ELSE [s EXCEPT !.nodeReqs[parent].deps = @ + 1]
         IN  scheduleNodeRequest(linked, path, nodeRequest(root, parent))

AddCodeEntry(s, hash, path, parent) ==
    IF hash = EmptyCode \/ hash \in s.memCodes \/ hash \in dbCodes THEN s
    ELSE scheduleCodeRequest([s EXCEPT !.nodeReqs[parent].deps = @ + 1], hash, path, parent)

(* onAccount: the storage trie and the code of an account. *)
onAccount(s, path, account) ==
    AddCodeEntry(AddSubTrie(s, account.root, path \o account.path, path), account.code, path \o account.path, path)

NewSync(root) ==
    LET s == [nodeReqs |-> <<>>, codeReqs |-> <<>>, queue |-> {}, fetches |-> [d \in Depths |-> 0],
              memNodes |-> <<>>, memCodes |-> {}]
    IN  AddSubTrie(s, root, <<>>, NoParent)

(* commitNodeRequest: a complete node goes to the batch, and may complete    *)
(* its parent.                                                               *)
RECURSIVE commitNodeRequest(_, _)
commitNodeRequest(s, path) ==
    LET req  == s.nodeReqs[path]
        done == [s EXCEPT !.memNodes = (path :> req.hash) @@ @, !.nodeReqs = without(@, {path}), !.fetches[Len(path)] = @ - 1]
        told == [done EXCEPT !.nodeReqs[req.parent].deps = @ - 1]
    IN  IF req.parent = NoParent THEN done
        ELSE IF told.nodeReqs[req.parent].deps = 0 THEN commitNodeRequest(told, req.parent)
        ELSE told

(* Mutant: only the first of several parents hears of the code.              *)
commitCodeFirst(s, hash) ==
    LET req == s.codeReqs[hash]
        p == req.parents[1]
        done == [s EXCEPT !.memCodes = @ \cup {hash}, !.codeReqs = without(@, {hash}), !.fetches[Len(req.path)] = @ - 1,
                          !.nodeReqs[p].deps = @ - 1]
    IN  IF done.nodeReqs[p].deps = 0 THEN commitNodeRequest(done, p) ELSE done

commitCodeRequest(s, hash) ==
    LET req == s.codeReqs[hash]
        done == [s EXCEPT !.memCodes = @ \cup {hash}, !.codeReqs = without(@, {hash}), !.fetches[Len(req.path)] = @ - 1]
        tell(t, p) == LET less == [t EXCEPT !.nodeReqs[p].deps = @ - 1]
                      IN  IF less.nodeReqs[p].deps = 0 THEN commitNodeRequest(less, p) ELSE less
    IN  FoldLeft(tell, done, req.parents)

(* children: the callback for an account, and the children that neither the  *)
(* batch nor the database has.                                               *)
missingKids(s, path, hash) ==
    {<<path \o k[1], k[2]>> : k \in {k \in Kids[hash] : (path \o k[1]) \notin DOMAIN s.memNodes /\ k[2] \notin dbNodes}}

-----------------------------------------------------------------------------
SyncInit == /\ syncRoot \in Roots
            /\ dbNodes = {} /\ dbCodes = {}
            /\ LET s == NewSync(syncRoot)
               IN  /\ nodeReqs = s.nodeReqs /\ codeReqs = s.codeReqs /\ queue = s.queue
                   /\ fetches = s.fetches /\ memNodes = s.memNodes /\ memCodes = s.memCodes
            /\ asked = {}
            /\ crashes = 0

(* The queue gives the deepest item, and of these the first path. *)
before(a, b) ==
    \/ Len(a) > Len(b)
    \/ Len(a) = Len(b) /\ \E i \in 1..Len(a) : a[i] < b[i] /\ \A j \in 1..(i - 1) : a[j] = b[j]
peeked(q) == {x \in q : \A y \in q : ~before(y.path, x.path)}

(* The loop of Missing: the items taken and the fetches, up to max. *)
RECURSIVE take(_, _, _, _)
take(q, f, taken, max) ==
    LET x == CHOOSE x \in peeked(q) : TRUE
    IN  IF q = {} \/ (max # 0 /\ Cardinality(taken) >= max) \/ f[Len(x.path)] > maxFetchesPerDepth
        THEN [queue |-> q, fetches |-> f, taken |-> taken]
        ELSE take(q \ {x}, [f EXCEPT ![Len(x.path)] = @ + 1], taken \cup {x}, max)

Missing(max) ==
    /\ LET r == take(queue, fetches, {}, max)
       IN  /\ r.taken # {}
           /\ queue' = r.queue
           /\ fetches' = r.fetches
           /\ asked' = asked \cup r.taken
    /\ UNCHANGED <<syncRoot, nodeReqs, codeReqs, memNodes, memCodes, dbNodes, dbCodes, crashes>>

(* The answer to a request, or the same answer once more: a node that is not *)
(* requested, or was processed before, is refused.                           *)
ProcessNode(path, again) ==
    /\ nodeItem(path) \in asked
    /\ asked' = IF again THEN asked ELSE asked \ {nodeItem(path)}
    /\ IF path \notin DOMAIN nodeReqs \/ nodeReqs[path].data
       THEN ~again /\ UNCHANGED <<nodeReqs, codeReqs, queue, fetches, memNodes, memCodes>>
       ELSE LET got  == [sched EXCEPT !.nodeReqs[path].data = TRUE]
                hash == nodeReqs[path].hash
                told == FoldSet(LAMBDA a, s : onAccount(s, path, a), got, Accounts[hash])
                kids == missingKids(told, path, hash)
                more == [told EXCEPT !.nodeReqs[path].deps = @ + Cardinality(kids)]
            IN  becomes(IF kids = {} /\ told.nodeReqs[path].deps = 0 THEN commitNodeRequest(told, path)
                        ELSE FoldSet(LAMBDA k, s : scheduleNodeRequest(s, k[1], nodeRequest(k[2], path)), more, kids))
    /\ UNCHANGED <<syncRoot, dbNodes, dbCodes, crashes>>

ProcessCode(x, again) ==
    /\ x \in asked /\ ~isNode(x)
    /\ asked' = IF again THEN asked ELSE asked \ {x}
    /\ IF x.code \notin DOMAIN codeReqs
       THEN ~again /\ UNCHANGED <<nodeReqs, codeReqs, queue, fetches, memNodes, memCodes>>
       ELSE becomes(commitCodeRequest(sched, x.code))
    /\ UNCHANGED <<syncRoot, dbNodes, dbCodes, crashes>>

(* Commit, and the batch written at once. *)
CommitSync ==
    /\ DOMAIN memNodes # {} \/ memCodes # {}
    /\ dbNodes' = dbNodes \cup {memNodes[p] : p \in DOMAIN memNodes}
    /\ dbCodes' = dbCodes \cup memCodes
    /\ memNodes' = <<>>
    /\ memCodes' = {}
    /\ UNCHANGED <<syncRoot, nodeReqs, codeReqs, queue, fetches, asked, crashes>>

(* The process stops; a new one synchronises to the same or another root.    *)
Restart(root) ==
    /\ crashes < MaxCrashes
    /\ becomes(NewSync(root))
    /\ syncRoot' = root
    /\ asked' = {}
    /\ crashes' = crashes + 1
    /\ UNCHANGED <<dbNodes, dbCodes>>

Pending == DOMAIN nodeReqs # {} \/ DOMAIN codeReqs # {}
finished == ~Pending /\ DOMAIN memNodes = {} /\ memCodes = {} /\ asked = {}

AskNext == \E max \in MaxAsked : Missing(max)
AnswerNext == \E x \in asked, again \in BOOLEAN : IF isNode(x) THEN ProcessNode(x.path, again) ELSE ProcessCode(x, again)
DeliverNext == \E x \in asked : IF isNode(x) THEN ProcessNode(x.path, FALSE) ELSE ProcessCode(x, FALSE)
SyncNext == \/ AskNext
            \/ AnswerNext
            \/ CommitSync
            \/ \E root \in Roots : Restart(root)
            \/ (finished /\ UNCHANGED syncVars)

(* The caller asks for what is missing, every request is answered in the     *)
(* end, and what is complete is written.                                     *)
SyncFair == /\ WF_syncVars(AskNext)
            /\ WF_syncVars(DeliverNext)
            /\ WF_syncVars(CommitSync)
SyncSpec == SyncInit /\ [][SyncNext]_syncVars /\ SyncFair

-----------------------------------------------------------------------------
complete(hash, nodes, codes) ==
    /\ \A k \in Kids[hash] : k[2] \in nodes
    /\ \A a \in Accounts[hash] : (a.root = EmptyRoot \/ a.root \in nodes) /\ (a.code = EmptyCode \/ a.code \in codes)

(* A node reaches the database only with all that is below it, in whatever   *)
(* order the answers come and wherever the process stops; and a request      *)
(* waits for exactly the requests that were made for what is below it, each  *)
(* of them on the way: nothing is complete too early or waits for nothing.   *)
SyncClosed ==
    /\ \A h \in dbNodes : complete(h, dbNodes, dbCodes)
    /\ \A p \in DOMAIN memNodes :
        complete(memNodes[p], dbNodes \cup {memNodes[q] : q \in DOMAIN memNodes}, dbCodes \cup memCodes)
    /\ \A p \in DOMAIN nodeReqs :
        /\ nodeReqs[p].deps = Cardinality({q \in DOMAIN nodeReqs : nodeReqs[q].parent = p})
                              + Cardinality({c \in DOMAIN codeReqs : p \in ToSet(codeReqs[c].parents)})
        /\ ~nodeReqs[p].data => nodeItem(p) \in queue \cup asked
        /\ nodeReqs[p].data => nodeReqs[p].deps > 0
    /\ \A c \in DOMAIN codeReqs : codeItem(c, codeReqs[c].path) \in queue \cup asked
    /\ \A x \in queue : isNode(x) => x.path \in DOMAIN nodeReqs
    /\ ~Pending => syncRoot \in dbNodes \cup {memNodes[p] : p \in DOMAIN memNodes}

(* The number of fetches on a level is the number of requests of that level  *)
(* that have been given out and are not complete.                            *)
FetchesCounted ==
    \A d \in Depths : fetches[d] =
        Cardinality({p \in DOMAIN nodeReqs : Len(p) = d /\ nodeItem(p) \notin queue})
        + Cardinality({c \in DOMAIN codeReqs : Len(codeReqs[c].path) = d /\ codeItem(c, codeReqs[c].path) \notin queue})
=============================================================================
