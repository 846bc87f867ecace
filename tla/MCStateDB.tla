----------------------------- MODULE MCStateDB -----------------------------
(***************************************************************************)
(* Small instances of StateDB and SnapshotTree for TLC.  Of the state,     *)
(* "objects" calls the setters that make, change and destroy accounts;     *)
(* "fields" calls the others, with a precompile whose touches persist;     *)
(* "nested" takes revisions inside revisions.  Of the snapshot tree,       *)
(* "crashes" stops, crashes, disables or rebuilds once on a chain of three *)
(* blocks; "branches" has a side branch and every depth of Cap.            *)
(***************************************************************************)
EXTENDS StateDB, TLC

CONSTANTS a1, a2, k1
VARIABLES instance,
          obj, smap, layers, cache, db, dbRoot, dbMarker, dbJournal, dbDisabled, gen, writer, faults

Fields == INSTANCE StateDB WITH Ripemd <- a1, Ops <- {"nonce", "code", "balance", "refund", "other"},
                                MaxJournal <- 2
Nested == INSTANCE StateDB WITH Ripemd <- a1, Ops <- {"balance", "code"}, MaxJournal <- 2,
                                MaxRevisions <- 2

\* Two accounts, 1 and 3, with a slot each.  b2 destroys account 1 and b3 makes
\* it again; b3 writes the slot that b2 wrote.  c2 deletes the slot of account 1
\* and leaves account 3 alone, so that a bloom filter rules keys out.
SnapParent == [b1 |-> "g", b2 |-> "b1", b3 |-> "b2", c2 |-> "b1"]
SnapDiff ==
    [b1 |-> [destruct |-> {}, acct |-> 1 :> 2, stor |-> 1 :> (2 :> 2)],
     b2 |-> [destruct |-> {1}, acct |-> 3 :> 3, stor |-> 3 :> (4 :> 3)],
     b3 |-> [destruct |-> {}, acct |-> 1 :> 4, stor |-> (1 :> (2 :> 4)) @@ (3 :> (4 :> 4))],
     c2 |-> [destruct |-> {}, acct |-> 1 :> 5, stor |-> 1 :> (2 :> 0)]]
Crashes == INSTANCE SnapshotTree
    WITH Key <- 1..4, Owner <- <<1, 1, 3, 3>>, Genesis <- "g", GenesisState <- <<1, 1, 1, 0>>,
         Parent <- SnapParent, Diff <- SnapDiff, Block <- {"g", "b1", "b2", "b3"},
         ReadKeys <- {2}, Depths <- {1}, MaxObjects <- 5, MaxFaults <- 1
Branches == INSTANCE SnapshotTree
    WITH Key <- 1..4, Owner <- <<1, 1, 3, 3>>, Genesis <- "g", GenesisState <- <<1, 1, 1, 0>>,
         Parent <- SnapParent, Diff <- SnapDiff, Block <- {"g", "b1", "b2", "b3", "c2"},
         ReadKeys <- {}, Depths <- 0..2, MaxObjects <- 6, MaxFaults <- 0
snapVars == <<obj, smap, layers, cache, db, dbRoot, dbMarker, dbJournal, dbDisabled, gen, writer, faults>>
allVars == <<instance, vars, snapVars>>

MCInit ==
    /\ Init /\ Crashes!Init
    /\ instance \in {"objects", "fields", "nested"} \cup
                    IF \A a \in Addr : disk[a] = NoObj THEN {"crashes", "branches"} ELSE {}
MCNext ==
    /\ UNCHANGED instance
    /\ \/ /\ UNCHANGED snapVars
          /\ \/ instance = "objects" /\ Next
             \/ instance = "fields" /\ Fields!Next
             \/ instance = "nested" /\ Nested!Next
       \/ /\ UNCHANGED vars
          /\ \/ instance = "crashes" /\ Crashes!Next
             \/ instance = "branches" /\ Branches!Next
MCSpec == MCInit /\ [][MCNext]_allVars

(* Layers, readers, iterators and what is on disk agree with the state of every
   root, on the chain and with a side branch. *)
SnapshotSound ==
    /\ instance = "crashes" => Crashes!SnapshotSound
    /\ instance = "branches" => Branches!SnapshotSound
=============================================================================
