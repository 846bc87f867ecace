--------------------------- MODULE AccessListOps ---------------------------
(***************************************************************************)
(* Access lists (accesslist/accessList.go): a map from addresses to        *)
(* positions in an array of slot sets, -1 for an address without slots.    *)
(***************************************************************************)
EXTENDS Integers, Sequences, FiniteSets, FiniteSetsExt

NewAccessList == [addresses |-> <<>>, slots |-> <<>>]

ContainsAddress(al, a) == a \in DOMAIN al.addresses

slotsOf(al, a) == IF al.addresses[a] = -1 THEN {} ELSE al.slots[al.addresses[a] + 1]

point(al, a, i) == [x \in DOMAIN al.addresses \cup {a} |-> IF x = a THEN i ELSE al.addresses[x]]

AddAddress(al, a) == IF ContainsAddress(al, a) THEN al ELSE [al EXCEPT !.addresses = point(al, a, -1)]

AddSlot(al, a, s) ==
    IF ~ContainsAddress(al, a) \/ al.addresses[a] = -1
    THEN [addresses |-> point(al, a, Len(al.slots)), slots |-> Append(al.slots, {s})]
    ELSE [al EXCEPT !.slots[al.addresses[a] + 1] = @ \cup {s}]

DeleteAddress(al, a) ==
    [al EXCEPT !.addresses = [x \in DOMAIN al.addresses \ {a} |-> al.addresses[x]]]

DeleteSlot(al, a, s) ==
    LET idx  == al.addresses[a]
        rest == al.slots[idx + 1] \ {s}
    IN IF rest = {}
       THEN [addresses |-> point(al, a, -1), slots |-> SubSeq(al.slots, 1, idx)]
       ELSE [al EXCEPT !.slots[idx + 1] = rest]

\* The set the list stands for.
Contents(al) == {<<a>> : a \in DOMAIN al.addresses}
                  \cup UNION {{<<a, s>> : s \in slotsOf(al, a)} : a \in DOMAIN al.addresses}

\* Mutant: an address without slots is forgotten.
CombineSlots(total, part, a) ==
    FoldSet(LAMBDA s, al : AddSlot(al, a, s), total, slotsOf(part, a))

(***************************************************************************)
(* One address of CombineTrueAccessList; the list is walked in the order   *)
(* of a map, that is in any order.                                         *)
(***************************************************************************)
CombineAddress(total, part, a) ==
    FoldSet(LAMBDA s, al : AddSlot(al, a, s), AddAddress(total, a), slotsOf(part, a))

CombineTrueAccessList(total, part) ==
    FoldSet(LAMBDA a, al : CombineAddress(al, part, a), total, DOMAIN part.addresses)

(***************************************************************************)
(* ConflictDetection.  tempUser is tempNew with one slot of the user's     *)
(* list appended, so the lengths differ as soon as the user lists a slot   *)
(* of the address; Slots[-1] panics when the user lists none.              *)
(***************************************************************************)
detectAddress(part, user, a) ==
    LET tempNew  == Cardinality(slotsOf(part, a))
        tempUser == IF slotsOf(user, a) = {} THEN 0 ELSE tempNew + 1
    IN IF ~ContainsAddress(user, a) THEN "conflict"
       ELSE IF part.addresses[a] = -1 THEN "ok"
       ELSE IF user.addresses[a] = -1 THEN "panic"
       ELSE IF tempNew # tempUser THEN "conflict" ELSE "ok"

ConflictDetection(part, user) ==
    LET found == {detectAddress(part, user, a) : a \in DOMAIN part.addresses} \ {"ok"}
    IN IF found = {} THEN {"ok"} ELSE found

(***************************************************************************)
(* GetTrueAccessList: what one instruction touches.  Storage instructions  *)
(* touch a slot of the running contract; account instructions and calls    *)
(* an address on the stack.                                                *)
(***************************************************************************)
GetTrueAccessList(op, self, top) ==
    CASE op = "storage" -> AddSlot(NewAccessList, self, top)
      [] op = "account" -> AddAddress(NewAccessList, top)
      [] OTHER          -> NewAccessList
=============================================================================
