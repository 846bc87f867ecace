---------------------------- MODULE AncientStore ----------------------------
(***************************************************************************)
(* What the freezer promises to the rest of the node: an append-only list  *)
(* of items 0, 1, 2, ... of which a window is visible.  Items enter at the *)
(* head, the head and the tail can be cut, and a restart never loses an    *)
(* item that was on disk when Sync returned, nor brings back an item that  *)
(* was below the tail at that moment.  All this holds until a crash finds  *)
(* the tail above the head that Sync has covered.                          *)
(***************************************************************************)
EXTENDS Integers

CONSTANT MaxItems

VARIABLES lo,    \* first visible item (Tail)
          hi,    \* one past the last item (Ancients)
          slo,   \* the tail the last completed Sync covers
          shi,   \* the head the last completed Sync covers
          sound  \* FALSE once nothing is promised any more

avars == <<lo, hi, slo, shi, sound>>

AInit == lo = 0 /\ hi = 0 /\ slo = 0 /\ shi = 0 /\ sound = TRUE

AAppend == /\ \E n \in hi + 1 .. MaxItems : hi' = n
           /\ UNCHANGED <<lo, slo, shi>>

ATruncateHead == \E n \in lo .. hi - 1 :
    /\ hi' = n
    /\ shi' \in 0 .. n
    /\ UNCHANGED <<lo, slo>>

ATruncateTail == /\ \E n \in lo + 1 .. hi : lo' = n
                 /\ UNCHANGED <<hi, slo, shi>>

ASync == /\ shi' \in shi .. hi
         /\ slo' \in slo .. lo
         /\ UNCHANGED <<lo, hi>>

ARestart == /\ hi' \in shi .. hi
            /\ lo' \in slo .. lo
            /\ UNCHANGED <<slo, shi>>

AReset == lo' = 0 /\ hi' = 0 /\ slo' = 0 /\ shi' = 0

ABreak == lo > shi /\ sound' = FALSE /\ UNCHANGED <<lo, hi, slo, shi>>

ANext == \/ sound /\ sound' /\ (AAppend \/ ATruncateHead \/ ATruncateTail \/ ASync \/ ARestart \/ AReset)
         \/ sound /\ ABreak
         \/ ~sound /\ ~sound'

ASpec == AInit /\ [][ANext]_avars
=============================================================================
