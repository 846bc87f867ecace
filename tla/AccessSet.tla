----------------------------- MODULE AccessSet -----------------------------
(***************************************************************************)
(* What a journaled access list promises: a set of addresses <<a>> and     *)
(* slots <<a, s>> that only grows by recorded additions, and from which    *)
(* undoing the last recorded addition removes that element and no other.   *)
(***************************************************************************)
EXTENDS Integers, Sequences

CONSTANTS Address, Slot

VARIABLES set, journal

new(x) == IF x \in set THEN <<>> ELSE <<x>>

SInit == set = {} /\ journal = <<>>

SAddAddress(a) == /\ set' = set \cup {<<a>>}
                  /\ journal' = journal \o new(<<a>>)

SAddSlot(a, s) == /\ set' = set \cup {<<a>>, <<a, s>>}
                  /\ journal' = journal \o new(<<a>>) \o new(<<a, s>>)

SUndo == /\ journal # <<>>
         /\ set' = set \ {journal[Len(journal)]}
         /\ journal' = SubSeq(journal, 1, Len(journal) - 1)

SNext == \/ \E a \in Address : SAddAddress(a) \/ \E s \in Slot : SAddSlot(a, s)
         \/ SUndo

SSpec == SInit /\ [][SNext]_<<set, journal>>
=============================================================================
