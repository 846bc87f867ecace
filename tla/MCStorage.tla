----------------------------- MODULE MCStorage -----------------------------
(* The models of the storage layer for TLC.  A behaviour is a behaviour of   *)
(* one of them, chosen at the start; the freezer has variables of its own,   *)
(* the others share x1 .. x8 and leave those they do not need empty.         *)
EXTENDS Freezer

CONSTANTS goroutine1, goroutine2, goroutine3

VARIABLES unit, x1, x2, x3, x4, x5, x6, x7, x8

lent == <<x1, x2, x3, x4, x5, x6, x7, x8>>
mcvars == <<unit, vars, lent>>

MCTables == <<"hashes", "bodies">>
MCSizes  == [hashes |-> {1}, bodies |-> {2}]

(* Two side branches, of which one is frozen over and one stays.             *)
Chain == INSTANCE ChainDB WITH MaxNum <- 3, Forks <- [s |-> 1, r |-> 2], Threshold <- 0,
           BatchLimit <- 1, Kind <- "body",
           kv <- x1, anc <- x2, shi <- x3, fz <- x4, reader <- x5, crashes <- x6,
           Blocks <- 4, NumCPU <- 2, FlushEvery <- 2, MaxStops <- 2,
           disk <- x1, job <- x2, rlpCh <- x3, hashesCh <- x4, lookup <- x5, proc <- x6, stops <- x7
(* Prefixes that end in the largest byte, and one that is all of it.         *)
KV == INSTANCE KeyValue WITH TopByte <- 2, Tables <- {<<1, 2>>, <<2, 2>>, <<2, 0>>},
        UserKeys <- {<<>>, <<2>>}, Values <- {1}, MaxWrites <- 1,
        db <- x1, open <- x2, batch <- x3, ref <- x4,
        Closers <- {goroutine1, goroutine2}, Users <- {goroutine3},
        flavour <- x1, meter <- x2, closer <- x3, user <- x4, quit <- x5, closed <- x6,
        engine <- x7, badUse <- x8
(* Two states that share an account subtree, and two accounts that share a   *)
(* storage trie.                                                             *)
Nodes == INSTANCE HashDB WITH
           Kids <- [r1 |-> {"a"}, r2 |-> {"a", "b"}, a |-> {}, b |-> {}, s |-> {}],
           Storage <- [r1 |-> {}, r2 |-> {}, a |-> {"s"}, b |-> {"s"}, s |-> {}],
           Roots <- {"r1", "r2"}, BatchLimit <- 2, MaxRefs <- 1,
           dirties <- x1, oldest <- x2, newest <- x3, disk <- x4, held <- x5, op <- x6,
           reader <- x7, crashes <- x8

MCInit ==
  /\ Init
  /\ \/ unit = "files" /\ x1 = 0 /\ x2 = 0 /\ x3 = 0 /\ x4 = 0 /\ x5 = 0 /\ x6 = 0 /\ x7 = 0 /\ x8 = 0
     \/ unit = "chain" /\ Chain!Init /\ x7 = 0 /\ x8 = 0
     \/ unit = "index" /\ Chain!IndexInit /\ x8 = 0
     \/ unit = "tables" /\ KV!Init /\ x5 = 0 /\ x6 = 0 /\ x7 = 0 /\ x8 = 0
     \/ unit = "engine" /\ KV!CloseInit
     \/ unit = "nodes" /\ Nodes!Init

(* Bounds: after the last crash no Sync starts, since what it covers only    *)
(* matters to a crash.  A tail above what Sync covered is only cut while no  *)
(* Sync runs; a crash then comes between operations, and the freezer, which  *)
(* promises nothing any more, is only opened.                                *)
TailAhead == wr'.op = "tail" /\ Only({"idle"}) /\ wr'.n > synced.hi
Losing    == lost' /\ ~lost
Files  == /\ unit = "files" /\ (lost => ~Only({"idle"})) /\ Next /\ UNCHANGED <<unit, lent>>
          /\ crashes = MaxCrashes => ~syncing'.on
          /\ TailAhead /\ crashes < MaxCrashes => ~syncing.on
          /\ Losing => Only({"idle"}) /\ ~syncing.on
OtherUnits ==
  \/ unit = "chain" /\ Chain!Next /\ UNCHANGED <<x7, x8>>
  \/ unit = "index" /\ Chain!IndexNext /\ UNCHANGED x8
  \/ unit = "tables" /\ KV!Next /\ UNCHANGED <<x5, x6, x7, x8>>
  \/ unit = "engine" /\ KV!CloseNext
  \/ unit = "nodes" /\ Nodes!Next

MCNext == Files \/ (OtherUnits /\ UNCHANGED <<unit, vars>>)

(* The fairness of ChainDB and KeyValue, one conjunct for the conditions of  *)
(* different models, of which only one ever runs.                            *)
MCFairness ==
  /\ WF_lent(\/ unit = "chain" /\ Chain!FreezeStep /\ UNCHANGED <<x7, x8>>
             \/ unit = "index" /\ Chain!Working /\ UNCHANGED x8
             \/ unit = "engine" /\ KV!Closing)
  /\ WF_lent(\/ unit = "chain" /\ Chain!ReadLive /\ UNCHANGED <<x7, x8>>
             \/ unit = "engine" /\ KV!Gather)
  /\ WF_lent(\/ unit = "chain" /\ Chain!ReadReturns /\ UNCHANGED <<x7, x8>>
             \/ unit = "engine" /\ KV!End(goroutine3))
  /\ WF_lent(unit = "chain" /\ Chain!NewDatabaseWithFreezer /\ UNCHANGED <<x7, x8>>)
  /\ SF_lent(\/ unit = "chain" /\ Chain!FreezeRange /\ UNCHANGED <<x7, x8>>
             \/ unit = "engine" /\ KV!Quits)

MCSpec == MCInit /\ [][MCNext]_mcvars /\ MCFairness

-----------------------------------------------------------------------------
(* Freezer: every item reads back as it was written, all tables end and      *)
(* start at the same item between operations, and a crash at any moment      *)
(* leaves files that open again.                                             *)
FilesSound == TypeOK /\ ReadsBack /\ TablesAligned /\ AlwaysOpens

(* ChainDB: every canonical block is readable in full from one store or the  *)
(* other at every moment, also by a reader that is between the two, and the  *)
(* stores fit together after a crash.                                        *)
BlocksSound == unit = "chain" =>
                 Chain!CanonicalReadable /\ Chain!RangesExact
                 /\ Chain!ReaderFinds /\ Chain!StoresFit

(* ChainDB: the stored tail passes no block that the indexer has not.        *)
(* KeyValue: a table reads back its own writes and nothing else, whatever    *)
(* the engine's key ranges; a closed engine is not touched.  HashDB: every   *)
(* node of a state in use is in the cache or on disk and can be found, and   *)
(* the flush list runs through the whole cache.                              *)
TablesSound == /\ unit = "index" => Chain!TailExact
               /\ unit = "tables" => KV!TablesSeparate
               /\ unit = "engine" => KV!ClosedUntouched
               /\ unit = "nodes" => Nodes!NodesSound

(* What must happen in the end: old blocks reach the ancient store, an       *)
(* indexing job returns, and so does every Close of a database.              *)
StorageProgress ==
  /\ <>[](unit = "chain" => Chain!CaughtUp)
  /\ (unit = "index" /\ Chain!On) ~> (unit = "index" => x2 = Chain!NoJob)
  /\ \A c \in {goroutine1, goroutine2} : (unit = "engine" /\ x3[c] = "wait") ~> (unit = "engine" => x3[c] = "done")
=============================================================================
