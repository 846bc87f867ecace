------------------------------ MODULE KeyValue ------------------------------
(***************************************************************************)
(* The key-value layer: the in-memory database (ethdb/memorydb) with its   *)
(* batches and iterators, the prefixed tables over it (core/rawdb          *)
(* table.go), and the key ranges the two disk engines are asked for when   *)
(* they iterate (ethdb/pebble, ethdb/leveldb).  A byte is 0 .. TopByte,    *)
(* TopByte standing for 0xff.                                              *)
(***************************************************************************)
EXTENDS Integers, Sequences, FiniteSets, FiniteSetsExt, SequencesExt

CONSTANTS TopByte,    \* the largest byte
          Tables,     \* the prefixes of the tables
          UserKeys,   \* the keys their users write
          Values,
          MaxWrites   \* bound: writes held in a batch

VARIABLES db,     \* the map
          open,   \* Close has not been called
          batch,  \* batch[p]: the writes of the batch of table p
          ref     \* history: ref[p], the map the user of table p should see

vars == <<db, open, batch, ref>>

Absent == "absent"
Empty  == [k \in {} |-> Absent]

-----------------------------------------------------------------------------
(***************************************************************************)
(* Byte order, and the keys of the database under a prefix from a start    *)
(* on: collected and sorted in memory, or as a half-open range of an       *)
(* ordered engine.  None as an upper bound means no bound.                 *)
(***************************************************************************)
None == <<>>

Less(a, b) ==
    \/ Len(a) < Len(b) /\ IsPrefix(a, b)
    \/ \E i \in 1 .. Min({Len(a), Len(b)}) :
         a[i] < b[i] /\ \A j \in 1 .. i - 1 : a[j] = b[j]

AtLeast(a, b) == ~Less(a, b)

sorted(keys) == SetToSortSeq(keys, Less)

NewIterator(d, prefix, start) ==
    sorted({k \in DOMAIN d : IsPrefix(prefix, k) /\ AtLeast(k, prefix \o start)})

\* Mutant: the last byte is incremented, 0xff or not.
upperBoundLast(prefix) ==
    Append(SubSeq(prefix, 1, Len(prefix) - 1), (Last(prefix) + 1) % (TopByte + 1))

upperBound(prefix) ==
    LET low == {i \in DOMAIN prefix : prefix[i] # TopByte}
        i   == Max(low)
    IN IF low = {} THEN None ELSE Append(SubSeq(prefix, 1, i - 1), prefix[i] + 1)

InRange(k, from, limit) == AtLeast(k, from) /\ (limit = None \/ Less(k, limit))

engineIterator(d, prefix, start) ==
    sorted({k \in DOMAIN d : InRange(k, prefix \o start, upperBound(prefix))})

\* The limit a table compacts to: its prefix plus one, carried over 0xff.
compactLimit(prefix) ==
    LET low == {i \in DOMAIN prefix : prefix[i] # TopByte}
        i   == Max(low)
    IN IF low = {} THEN None
       ELSE [j \in DOMAIN prefix |-> IF j < i THEN prefix[j]
                                     ELSE IF j = i THEN prefix[j] + 1 ELSE 0]

-----------------------------------------------------------------------------
(***************************************************************************)
(* Reads and writes of a table: its prefix goes in front of every key, and *)
(* comes off again in iterators and replayed batches.                      *)
(***************************************************************************)
put(d, k, v) == [x \in DOMAIN d \cup {k} |-> IF x = k THEN v ELSE d[x]]
drop(d, k)   == [x \in DOMAIN d \ {k} |-> d[x]]

apply(d, w) == IF w.del THEN drop(d, w.key) ELSE put(d, w.key, w.val)

RECURSIVE applyAll(_, _)
applyAll(d, ws) == IF ws = <<>> THEN d ELSE applyAll(apply(d, Head(ws)), Tail(ws))

trim(p, k) == SubSeq(k, Len(p) + 1, Len(k))

tableGet(p, k) == IF p \o k \in DOMAIN db THEN db[p \o k] ELSE Absent

tableIterator(p, prefix, start) ==
    LET keys == NewIterator(db, p \o prefix, start)
    IN [i \in DOMAIN keys |-> trim(p, keys[i])]

Init == /\ db = Empty /\ open = TRUE
        /\ batch = [p \in Tables |-> <<>>]
        /\ ref = [p \in Tables |-> Empty]

Writes == [key : UserKeys, val : Values, del : {FALSE}]
            \cup [key : UserKeys, val : {Absent}, del : {TRUE}]

under(p, w) == [w EXCEPT !.key = p \o @]

Put(p, w) == /\ open
             /\ db' = apply(db, under(p, w))
             /\ ref' = [ref EXCEPT ![p] = apply(@, w)]
             /\ UNCHANGED <<open, batch>>

BatchPut(p, w) == /\ open
                  /\ Len(batch[p]) < MaxWrites
                  /\ batch' = [batch EXCEPT ![p] = Append(@, under(p, w))]
                  /\ UNCHANGED <<db, open, ref>>

unprefixed(p, ws) == [i \in DOMAIN ws |-> [ws[i] EXCEPT !.key = trim(p, @)]]

Write(p) == /\ open /\ batch[p] # <<>>
            /\ db' = applyAll(db, batch[p])
            /\ ref' = [ref EXCEPT ![p] = applyAll(@, unprefixed(p, batch[p]))]
            /\ UNCHANGED <<open, batch>>

Reset(p) == /\ batch[p] # <<>>
            /\ batch' = [batch EXCEPT ![p] = <<>>]
            /\ UNCHANGED <<db, open, ref>>

\* Replay of a table's batch into another table.
Replay(p, q) ==
    /\ open /\ batch[p] # <<>>
    /\ LET ws == unprefixed(p, batch[p])
       IN /\ db' = applyAll(db, [i \in DOMAIN ws |-> under(q, ws[i])])
          /\ ref' = [ref EXCEPT ![q] = applyAll(@, ws)]
    /\ UNCHANGED <<open, batch>>

\* After Close every access reports an error and changes nothing.
Close == /\ open
         /\ open' = FALSE
         /\ db' = Empty
         /\ UNCHANGED <<batch, ref>>

Next == \/ Close
        \/ \E p \in Tables : \/ Write(p) \/ Reset(p)
                             \/ \E w \in Writes : Put(p, w) \/ BatchPut(p, w)
                             \/ \E q \in Tables \ {p} : Replay(p, q)

Spec == Init /\ [][Next]_vars

-----------------------------------------------------------------------------
(***************************************************************************)
(* Each table is a map of its own.  Whatever the users of the other tables *)
(* write, directly, in batches or by replaying them, a table reads back    *)
(* exactly its own writes; an iterator over it yields its keys in byte     *)
(* order from the start on, none of another table, with the map in memory  *)
(* and with the ranges the disk engines get; and compacting it leaves out  *)
(* none of its keys.  Prefixes that end in 0xff are the hard case.         *)
(***************************************************************************)
Expected(p, start) == sorted({k \in DOMAIN ref[p] : AtLeast(k, start)})

TablesSeparate ==
    open =>
        \A p \in Tables :
            /\ \A k \in UserKeys :
                 tableGet(p, k) = IF k \in DOMAIN ref[p] THEN ref[p][k] ELSE Absent
            /\ \A start \in UserKeys :
                 /\ tableIterator(p, <<>>, start) = Expected(p, start)
                 /\ engineIterator(db, p, start) = NewIterator(db, p, start)
            /\ \A k \in DOMAIN ref[p] : InRange(p \o k, p, compactLimit(p))

-----------------------------------------------------------------------------
(***************************************************************************)
(* Closing a disk database (ethdb/pebble, ethdb/leveldb).  A goroutine     *)
(* gathers statistics from the engine until Close asks it to stop over     *)
(* quitChan and waits for its answer; Close holds quitLock meanwhile.      *)
(* Pebble's reads and writes take quitLock for reading and refuse once     *)
(* closed; leveldb's go to the engine, which refuses by itself.            *)
(***************************************************************************)

CONSTANTS Closers,   \* goroutines that call Close
          Users      \* goroutines that read or write

VARIABLES flavour,  \* the engine, "pebble" or "leveldb"
          meter,    \* the statistics goroutine
          closer,   \* closer[c]: where a call of Close stands
          user,     \* user[u]: where a read or write stands
          quit,     \* quitChan: "open" or "nil"
          closed,   \* Database.closed (pebble)
          engine,   \* "open" or "closed"
          badUse    \* history: the engine was used after it was closed

closeVars == <<flavour, meter, closer, user, quit, closed, engine, badUse>>

CloseInit == /\ flavour \in {"pebble", "leveldb"}
             /\ meter = "gather" /\ closer = [c \in Closers |-> "idle"]
             /\ user = [u \in Users |-> "idle"]
             /\ quit = "open" /\ closed = FALSE /\ engine = "open" /\ badUse = FALSE

Writer  == {c \in Closers : closer[c] \notin {"idle", "wait", "done"}}
Readers == {u \in Users : user[u] = "locked"}

uses == badUse' = (badUse \/ engine = "closed")

-----------------------------------------------------------------------------
(***************************************************************************)
(* meter: gather, then wait for the quit request or the timer.  leveldb's  *)
(* statistics are texts whose parsing may fail; the loop then ends and the *)
(* goroutine still waits for the quit request.                             *)
(***************************************************************************)
gatherPebble == {"select"}
gatherLevel  == {"select", "broken"}

Gather == /\ meter = "gather"
          /\ meter' \in IF flavour = "pebble" THEN gatherPebble ELSE gatherLevel
          /\ uses
          /\ UNCHANGED <<flavour, closer, user, quit, closed, engine>>

Timer == /\ meter = "select" /\ meter' = "gather"
         /\ UNCHANGED <<flavour, closer, user, quit, closed, engine, badUse>>

\* The hand-over of errc on quitChan, an unbuffered channel.
Quit(c) == /\ meter \in {"select", "broken"} /\ closer[c] = "quit"
           /\ meter' = "answer"
           /\ closer' = [closer EXCEPT ![c] = "answer"]
           /\ UNCHANGED <<flavour, user, quit, closed, engine, badUse>>

Answer(c) == /\ meter = "answer" /\ closer[c] = "answer"
             /\ meter' = "gone"
             /\ closer' = [closer EXCEPT ![c] = "engine"]
             /\ quit' = "nil"
             /\ UNCHANGED <<flavour, user, closed, engine, badUse>>

-----------------------------------------------------------------------------
CallClose(c) == /\ closer[c] = "idle" /\ closer' = [closer EXCEPT ![c] = "wait"]
                /\ UNCHANGED <<flavour, meter, user, quit, closed, engine, badUse>>

closeLevel  == IF quit = "open" THEN "quit" ELSE "engine"
closePebble == IF closed THEN "done" ELSE closeLevel

Lock(c) ==
    /\ closer[c] = "wait" /\ Writer = {} /\ Readers = {}
    /\ closer' = [closer EXCEPT ![c] = IF flavour = "pebble" THEN closePebble ELSE closeLevel]
    /\ closed' = TRUE
    /\ UNCHANGED <<flavour, meter, user, quit, engine, badUse>>

CloseEngine(c) ==
    /\ closer[c] = "engine"
    /\ closer' = [closer EXCEPT ![c] = "done"]
    /\ engine' = "closed"
    /\ badUse' = (badUse \/ (flavour = "pebble" /\ engine = "closed"))
    /\ UNCHANGED <<flavour, meter, user, quit, closed>>

\* Has, Get, Put, Delete and the Write of a batch.
beginPebble(u) ==
    /\ flavour = "pebble"
    /\ Writer = {} /\ \A c \in Closers : closer[c] # "wait"
    /\ user' = [user EXCEPT ![u] = IF closed THEN "idle" ELSE "locked"]

beginLevel(u) == flavour = "leveldb" /\ user' = [user EXCEPT ![u] = "free"]

Begin(u) ==
    /\ user[u] = "idle"
    /\ beginPebble(u) \/ beginLevel(u)
    /\ UNCHANGED <<flavour, meter, closer, quit, closed, engine, badUse>>

End(u) == /\ user[u] \in {"locked", "free"}
          /\ user' = [user EXCEPT ![u] = "idle"]
          /\ badUse' = (badUse \/ (flavour = "pebble" /\ engine = "closed"))
          /\ UNCHANGED <<flavour, meter, closer, quit, closed, engine>>

\* What the one caller of Close that holds or can take quitLock does next.
Closing == \E c \in Closers : Lock(c) \/ Answer(c) \/ CloseEngine(c)
Quits   == \E c \in Closers : Quit(c)

CloseNext == \/ Gather \/ Timer \/ Closing \/ Quits
        \/ \E c \in Closers : CallClose(c)
        \/ \E u \in Users : Begin(u) \/ End(u)

\* Goroutines run; a select that can always take the quit case takes it.
CloseSpec == /\ CloseInit /\ [][CloseNext]_closeVars
        /\ WF_closeVars(Gather) /\ \A u \in Users : WF_closeVars(End(u))
        /\ WF_closeVars(Closing) /\ SF_closeVars(Quits)

-----------------------------------------------------------------------------
(***************************************************************************)
(* The engine is not touched once it is closed: not by the statistics      *)
(* goroutine and, with pebble, neither by a read or write that was on its  *)
(* way nor by a second Close.                                              *)
(***************************************************************************)
ClosedUntouched == ~badUse
=============================================================================
