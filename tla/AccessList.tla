----------------------------- MODULE AccessList -----------------------------
(***************************************************************************)
(* A transaction's access lists: the one StateDB journals, and the list of *)
(* what its instructions really touched.                                   *)
(***************************************************************************)
EXTENDS AccessListOps, TLAPS

CONSTANTS Address, Slot,
          MaxJournal,  \* bound: journal entries
          MaxTouch     \* bound: instructions

VARIABLES list,      \* StateDB.AccessList
          journal,   \* its entries: <<a>> an address, <<a, s>> a slot
          total,     \* TrueAccessList
          seen,      \* history: what was touched
          strayed,   \* history: ConflictDetection accepted something not listed
          touches

vars == <<list, journal, total, seen, strayed, touches>>

Init == /\ list = NewAccessList /\ journal = <<>>
        /\ total = NewAccessList /\ seen = {}
        /\ strayed = FALSE /\ touches = 0

entry(x) == IF x \in Contents(list) THEN <<>> ELSE <<x>>

AddAddressToAccessList ==
    /\ Len(journal) < MaxJournal
    /\ \E a \in Address : /\ list' = AddAddress(list, a)
                          /\ journal' = journal \o entry(<<a>>)
    /\ UNCHANGED <<total, seen, strayed, touches>>

\* Mutant: only the slot is journaled.
AddSlotOneEntry ==
    /\ Len(journal) < MaxJournal
    /\ \E a \in Address, s \in Slot : /\ list' = AddSlot(list, a, s)
                                      /\ journal' = journal \o entry(<<a, s>>)
    /\ UNCHANGED <<total, seen, strayed, touches>>

AddSlotToAccessList ==
    /\ Len(journal) < MaxJournal
    /\ \E a \in Address, s \in Slot : /\ list' = AddSlot(list, a, s)
                                      /\ journal' = journal \o entry(<<a>>) \o entry(<<a, s>>)
    /\ UNCHANGED <<total, seen, strayed, touches>>

\* accessListAddAccountChange.revert, accessListAddSlotChange.revert
Revert ==
    /\ journal # <<>>
    /\ LET ch == journal[Len(journal)]
       IN list' = IF Len(ch) = 1 THEN DeleteAddress(list, ch[1])
                                 ELSE DeleteSlot(list, ch[1], ch[2])
    /\ journal' = SubSeq(journal, 1, Len(journal) - 1)
    /\ UNCHANGED <<total, seen, strayed, touches>>

(***************************************************************************)
(* One instruction of Run: what it touches is compared with the user's     *)
(* list and added to the true one.                                         *)
(***************************************************************************)
Touch ==
    /\ touches < MaxTouch
    /\ \E op \in {"storage", "account"}, self \in Address :
       \E top \in IF op = "storage" THEN Slot ELSE Address :
          LET part == GetTrueAccessList(op, self, top)
          IN /\ strayed' = (strayed \/ ("ok" \in ConflictDetection(part, list)
                                        /\ ~(Contents(part) \subseteq Contents(list))))
             /\ total' = CombineTrueAccessList(total, part)
             /\ seen' = seen \cup Contents(part)
    /\ touches' = touches + 1
    /\ UNCHANGED <<list, journal>>

Next == AddAddressToAccessList \/ AddSlotToAccessList \/ Revert \/ Touch

Spec == Init /\ [][Next]_vars

Indexed(al) ==
    /\ DOMAIN al.addresses \subseteq Address
    /\ \A i \in DOMAIN al.slots :
          /\ al.slots[i] # {} /\ al.slots[i] \subseteq Slot
          /\ \E a \in DOMAIN al.addresses : al.addresses[a] = i - 1
    /\ \A a, b \in DOMAIN al.addresses :
          /\ al.addresses[a] \in -1 .. Len(al.slots) - 1
          /\ al.addresses[a] = al.addresses[b] => a = b \/ al.addresses[a] = -1

Abstract == INSTANCE AccessSet WITH set <- Contents(list)

(***************************************************************************)
(* The indexed list with its two kinds of journal entries behaves as the   *)
(* journaled set: no sequence of additions and reverts makes DeleteSlot    *)
(* drop another address's slots or a revert restore too much.              *)
(***************************************************************************)
ImplementsAccessSet == Abstract!SSpec

(***************************************************************************)
(* In both lists every array position is the slot set of exactly one       *)
(* address and none is empty, which DeleteSlot relies on when it cuts the  *)
(* array; TrueAccessList holds exactly what the instructions touched; and  *)
(* an instruction that ConflictDetection accepts touches only what the     *)
(* user listed.                                                            *)
(***************************************************************************)
ListsSound == /\ Indexed(list) /\ Indexed(total)
              /\ Contents(total) = seen
              /\ ~strayed
-----------------------------------------------------------------------------
(***************************************************************************)
(* Proofs.  ListsSound alone is not inductive: that DeleteSlot may cut the *)
(* array when an address loses its last slot depends on the order of the   *)
(* journal (JournalOK).                                                    *)
(***************************************************************************)

\* A list with the types of its Go fields, whose array is indexed as it should.
ListOK(al) ==
    /\ \E D \in SUBSET Address : al \in [addresses : [D -> Int], slots : Seq(SUBSET Slot)]
    /\ Indexed(al)

\* The fields of such a list.
LEMMA Fields ==
    ASSUME NEW al, ListOK(al)
    PROVE  /\ al = [addresses |-> al.addresses, slots |-> al.slots]
           /\ DOMAIN al.addresses \subseteq Address
           /\ al.addresses = [x \in DOMAIN al.addresses |-> al.addresses[x]]
           /\ \A x \in DOMAIN al.addresses : al.addresses[x] \in -1 .. Len(al.slots) - 1
           /\ al.slots \in Seq(SUBSET Slot) /\ Len(al.slots) \in Nat /\ DOMAIN al.slots = 1 .. Len(al.slots)
           /\ \A x \in DOMAIN al.addresses : slotsOf(al, x) \subseteq Slot
<1>1. PICK D \in SUBSET Address : al \in [addresses : [D -> Int], slots : Seq(SUBSET Slot)]
  BY Zenon DEF ListOK
<1>2. /\ al = [addresses |-> al.addresses, slots |-> al.slots]
      /\ al.addresses \in [D -> Int] /\ al.slots \in Seq(SUBSET Slot)
  BY <1>1, Zenon
<1>3. \A x \in DOMAIN al.addresses : al.addresses[x] \in -1 .. Len(al.slots) - 1
  BY Zenon DEF ListOK, Indexed
<1>4. Len(al.slots) \in Nat /\ DOMAIN al.slots = 1 .. Len(al.slots)
  BY <1>2
<1>5. ASSUME NEW x \in DOMAIN al.addresses PROVE slotsOf(al, x) \subseteq Slot
  <2>1. CASE al.addresses[x] = -1
    BY <2>1, Zenon DEF slotsOf
  <2>2. CASE al.addresses[x] # -1
    <3>1. al.addresses[x] + 1 \in 1 .. Len(al.slots)
      BY <1>3, <1>4, <2>2
    <3> QED
      BY <1>2, <2>2, <3>1 DEF slotsOf
  <2> QED
    BY <2>1, <2>2, Zenon
<1> QED
  BY <1>2, <1>3, <1>4, <1>5, Zenon

\* What Contents holds.
LEMMA InContents ==
    ASSUME NEW al
    PROVE  /\ \A x : <<x>> \in Contents(al) <=> x \in DOMAIN al.addresses
           /\ \A x, s : <<x, s>> \in Contents(al) <=> x \in DOMAIN al.addresses /\ s \in slotsOf(al, x)
           /\ \A e \in Contents(al) : \/ \E x \in DOMAIN al.addresses : e = <<x>>
                                      \/ \E x \in DOMAIN al.addresses : \E s \in slotsOf(al, x) : e = <<x, s>>
<1>1. \A e : e \in Contents(al) <=> \/ \E x \in DOMAIN al.addresses : e = <<x>>
                                    \/ \E x \in DOMAIN al.addresses : \E s \in slotsOf(al, x) : e = <<x, s>>
  BY DEF Contents
<1>2. \A x, y, s : <<x>> # <<y, s>>
  BY Zenon
<1>3. \A x, y : <<x>> = <<y>> => x = y
  BY Zenon
<1>4. \A x, y, r, s : <<x, r>> = <<y, s>> => x = y /\ r = s
  BY Zenon
<1>5. \A x : <<x>> \in Contents(al) <=> x \in DOMAIN al.addresses
  BY <1>1, <1>2, <1>3
<1>6. \A x, s : <<x, s>> \in Contents(al) <=> x \in DOMAIN al.addresses /\ s \in slotsOf(al, x)
  BY <1>1, <1>2, <1>4
<1> QED
  BY <1>1, <1>5, <1>6, Zenon

\* AddAddress of an address that is not listed yet.
LEMMA AddAddressIs ==
    ASSUME NEW al, ListOK(al), NEW a \in Address, a \notin DOMAIN al.addresses
    PROVE  LET bl == AddAddress(al, a)
           IN  /\ ListOK(bl)
               /\ DOMAIN bl.addresses = DOMAIN al.addresses \cup {a}
               /\ bl.addresses[a] = -1 /\ slotsOf(bl, a) = {}
               /\ \A x \in DOMAIN al.addresses : /\ bl.addresses[x] = al.addresses[x]
                                                 /\ slotsOf(bl, x) = slotsOf(al, x)
<1> DEFINE bl == AddAddress(al, a)
           f == al.addresses
           q == al.slots
<1>1. /\ al = [addresses |-> f, slots |-> q] /\ q \in Seq(SUBSET Slot) /\ DOMAIN f \subseteq Address /\ Len(q) \in Nat
      /\ \A x \in DOMAIN f : f[x] \in -1 .. Len(q) - 1
  BY Fields, Zenon
<1>2. bl = [addresses |-> [x \in DOMAIN f \cup {a} |-> IF x = a THEN -1 ELSE f[x]], slots |-> q]
  BY <1>1, Zenon DEF AddAddress, ContainsAddress, point
<1>3. /\ bl.slots = q /\ bl.addresses[a] = -1 /\ DOMAIN bl.addresses = DOMAIN f \cup {a}
      /\ \A x \in DOMAIN f : bl.addresses[x] = f[x]
  BY <1>2
<1>4. \E D \in SUBSET Address : bl \in [addresses : [D -> Int], slots : Seq(SUBSET Slot)]
  <2>1. DOMAIN f \cup {a} \in SUBSET Address
    BY <1>1, Zenon
  <2>2. bl \in [addresses : [DOMAIN f \cup {a} -> Int], slots : Seq(SUBSET Slot)]
    BY <1>1, <1>2
  <2> QED
    BY <2>1, <2>2, Zenon
<1> HIDE DEF bl
<1>5. Indexed(bl)
  <2>1. /\ \A i \in DOMAIN q : /\ q[i] # {} /\ q[i] \subseteq Slot
                              /\ \E x \in DOMAIN f : f[x] = i - 1
        /\ \A x, y \in DOMAIN f : f[x] = f[y] => x = y \/ f[x] = -1
    BY Zenon DEF ListOK, Indexed
  <2>2. DOMAIN bl.addresses \subseteq Address
    BY <1>1, <1>3, Zenon
  <2>3. \A i \in DOMAIN q : \E x \in DOMAIN bl.addresses : bl.addresses[x] = i - 1
    BY <1>3, <2>1, Zenon
  <2>4. \A x, y \in DOMAIN bl.addresses : bl.addresses[x] = bl.addresses[y] => x = y \/ bl.addresses[x] = -1
    BY <1>3, <2>1, Zenon
  <2>5. \A x \in DOMAIN bl.addresses : bl.addresses[x] \in -1 .. Len(q) - 1
    BY <1>1, <1>3
  <2> QED
    BY <1>3, <2>1, <2>2, <2>3, <2>4, <2>5, SMTT(30) DEF Indexed
<1>6. slotsOf(bl, a) = {} /\ \A x \in DOMAIN f : slotsOf(bl, x) = slotsOf(al, x)
  BY <1>1, <1>3, Zenon DEF slotsOf
<1> QED
  BY <1>3, <1>4, <1>5, <1>6, Zenon DEF bl, ListOK

\* AddSlot of a listed address.
LEMMA AddSlotIs ==
    ASSUME NEW al, ListOK(al), NEW a \in DOMAIN al.addresses, NEW s \in Slot
    PROVE  LET bl == AddSlot(al, a, s)
           IN  /\ ListOK(bl)
               /\ DOMAIN bl.addresses = DOMAIN al.addresses
               /\ slotsOf(bl, a) = slotsOf(al, a) \cup {s}
               /\ bl.addresses[a] = IF al.addresses[a] = -1 THEN Len(al.slots) ELSE al.addresses[a]
               /\ \A x \in DOMAIN al.addresses \ {a} : /\ bl.addresses[x] = al.addresses[x]
                                                       /\ slotsOf(bl, x) = slotsOf(al, x)
<1> DEFINE bl == AddSlot(al, a, s)
           f == al.addresses
           q == al.slots
<1>1. /\ al = [addresses |-> f, slots |-> q] /\ q \in Seq(SUBSET Slot) /\ DOMAIN f \subseteq Address /\ Len(q) \in Nat
      /\ \A x \in DOMAIN f : f[x] \in -1 .. Len(q) - 1
      /\ f = [x \in DOMAIN f |-> f[x]] /\ DOMAIN q = 1 .. Len(q)
  BY Fields, Zenon
<1>2. /\ \A i \in DOMAIN q : /\ q[i] # {} /\ q[i] \subseteq Slot
                            /\ \E x \in DOMAIN f : f[x] = i - 1
      /\ \A x, y \in DOMAIN f : f[x] = f[y] => x = y \/ f[x] = -1
  BY Zenon DEF ListOK, Indexed
<1>3. CASE f[a] = -1
  <2>1. bl = [addresses |-> [x \in DOMAIN f \cup {a} |-> IF x = a THEN Len(q) ELSE f[x]], slots |-> Append(q, {s})]
    BY <1>1, <1>3, Zenon DEF AddSlot, ContainsAddress, point
  <2>2. /\ bl.slots = Append(q, {s}) /\ bl.addresses[a] = Len(q) /\ DOMAIN bl.addresses = DOMAIN f
        /\ \A x \in DOMAIN f \ {a} : bl.addresses[x] = f[x]
    BY <2>1
  <2>3. /\ Append(q, {s}) \in Seq(SUBSET Slot) /\ Len(Append(q, {s})) = Len(q) + 1
        /\ DOMAIN Append(q, {s}) = 1 .. Len(q) + 1
        /\ Append(q, {s})[Len(q) + 1] = {s} /\ \A i \in 1 .. Len(q) : Append(q, {s})[i] = q[i]
    BY <1>1
  <2>4. bl \in [addresses : [DOMAIN f -> Int], slots : Seq(SUBSET Slot)]
    BY <1>1, <2>1, <2>3, SMTT(30)
  <2> HIDE DEF bl
  <2>5. Indexed(bl)
    <3>1. ASSUME NEW i \in 1 .. Len(q) + 1
          PROVE  /\ bl.slots[i] # {} /\ bl.slots[i] \subseteq Slot
                 /\ \E x \in DOMAIN bl.addresses : bl.addresses[x] = i - 1
      <4>1. CASE i \in 1 .. Len(q)
        <5>1. PICK x \in DOMAIN f : f[x] = i - 1
          BY <1>1, <1>2, <4>1, Zenon
        <5>2. x # a
          BY <1>3, <4>1, <5>1
        <5> QED
          BY <1>1, <1>2, <2>2, <2>3, <4>1, <5>1, <5>2
      <4>2. CASE i = Len(q) + 1
        <5>1. bl.slots[i] = {s} /\ bl.addresses[a] = i - 1 /\ a \in DOMAIN bl.addresses
          BY <1>1, <2>2, <2>3, <4>2
        <5> QED
          BY <5>1, Zenon
      <4> QED
        BY <1>1, <4>1, <4>2
    <3>2. \A x, y \in DOMAIN f : bl.addresses[x] = bl.addresses[y] => x = y \/ bl.addresses[x] = -1
      BY <1>1, <1>2, <2>2
    <3>3. \A x \in DOMAIN f : bl.addresses[x] \in -1 .. Len(q)
      BY <1>1, <2>2
    <3>4. Len(bl.slots) - 1 = Len(q) /\ DOMAIN bl.slots = 1 .. Len(q) + 1
      BY <1>1, <2>2, <2>3
    <3> QED
      BY <1>1, <2>2, <3>1, <3>2, <3>3, <3>4, SMTT(30) DEF Indexed
  <2>6. ASSUME NEW x \in DOMAIN f \ {a} PROVE slotsOf(bl, x) = slotsOf(al, x)
    <3>1. f[x] = -1 \/ f[x] + 1 \in 1 .. Len(q)
      BY <1>1
    <3> QED
      BY <2>2, <2>3, <3>1, Zenon DEF slotsOf
  <2>7. slotsOf(bl, a) = {s} /\ slotsOf(al, a) = {}
    BY <1>1, <1>3, <2>2, <2>3, SMTT(30) DEF slotsOf
  <2> QED
    BY <1>1, <1>3, <2>2, <2>4, <2>5, <2>6, <2>7, SMTT(30) DEF bl, ListOK
<1>4. CASE f[a] # -1
  <2> DEFINE k == f[a] + 1
  <2>1. k \in 1 .. Len(q)
    BY <1>1, <1>4
  <2>2. bl = [addresses |-> f, slots |-> [q EXCEPT ![k] = q[k] \cup {s}]]
    BY <1>1, <1>4, Zenon DEF AddSlot, ContainsAddress
  <2>3. /\ bl.addresses = f /\ bl.slots \in Seq(SUBSET Slot) /\ Len(bl.slots) = Len(q) /\ DOMAIN bl.slots = 1 .. Len(q)
        /\ bl.slots[k] = q[k] \cup {s} /\ \A i \in 1 .. Len(q) : i # k => bl.slots[i] = q[i]
    BY <1>1, <2>1, <2>2
  <2>4. bl \in [addresses : [DOMAIN f -> Int], slots : Seq(SUBSET Slot)]
    BY <1>1, <2>2, <2>3
  <2> HIDE DEF bl
  <2>5. Indexed(bl)
    <3>1. \A i \in 1 .. Len(q) : bl.slots[i] # {} /\ bl.slots[i] \subseteq Slot
      BY <1>1, <1>2, <2>1, <2>3, SMTT(30)
    <3> QED
      BY <1>1, <1>2, <2>3, <3>1 DEF Indexed
  <2>6. ASSUME NEW x \in DOMAIN f \ {a} PROVE slotsOf(bl, x) = slotsOf(al, x)
    <3>1. f[x] # f[a]
      BY <1>2, <1>4, Zenon
    <3>2. f[x] = -1 \/ (f[x] + 1 \in 1 .. Len(q) /\ f[x] + 1 # k)
      BY <1>1, <3>1
    <3> QED
      BY <2>3, <3>2, Zenon DEF slotsOf
  <2>7. slotsOf(bl, a) = slotsOf(al, a) \cup {s}
    BY <1>4, <2>3, Zenon DEF slotsOf
  <2> QED
    BY <1>1, <1>4, <2>3, <2>4, <2>5, <2>6, <2>7, Zenon DEF bl, ListOK
<1> QED
  BY <1>3, <1>4, Zenon

\* AddSlot of an address that is not listed adds the address first.
LEMMA AddSlotAddsAddress ==
    ASSUME NEW al, ListOK(al), NEW a \in Address, NEW s
    PROVE  AddSlot(al, a, s) = AddSlot(AddAddress(al, a), a, s)
<1> DEFINE bl == AddAddress(al, a)
<1>1. CASE a \in DOMAIN al.addresses
  BY <1>1, Zenon DEF AddAddress, ContainsAddress
<1>2. CASE a \notin DOMAIN al.addresses
  <2>1. /\ DOMAIN bl.addresses = DOMAIN al.addresses \cup {a} /\ bl.addresses[a] = -1
        /\ \A x \in DOMAIN al.addresses : bl.addresses[x] = al.addresses[x]
    BY <1>2, AddAddressIs, Zenon
  <2>2. bl.slots = al.slots
    BY <1>2, Fields DEF AddAddress, ContainsAddress
  <2> HIDE DEF bl
  <2>3. point(al, a, Len(al.slots)) = point(bl, a, Len(bl.slots))
    BY <1>2, <2>1, <2>2, Zenon DEF point
  <2>4. AddSlot(bl, a, s) = [addresses |-> point(bl, a, Len(bl.slots)), slots |-> Append(bl.slots, {s})]
    BY <2>1, Zenon DEF AddSlot, ContainsAddress
  <2>5. AddSlot(al, a, s) = [addresses |-> point(al, a, Len(al.slots)), slots |-> Append(al.slots, {s})]
    BY <1>2, Zenon DEF AddSlot, ContainsAddress
  <2> QED
    BY <2>2, <2>3, <2>4, <2>5, Zenon DEF bl
<1> QED
  BY <1>1, <1>2, Zenon

\* DeleteAddress of an address without slots.
LEMMA DeleteAddressIs ==
    ASSUME NEW al, ListOK(al), NEW a \in DOMAIN al.addresses, slotsOf(al, a) = {}
    PROVE  LET bl == DeleteAddress(al, a)
           IN  /\ ListOK(bl)
               /\ DOMAIN bl.addresses = DOMAIN al.addresses \ {a}
               /\ \A x \in DOMAIN bl.addresses : /\ bl.addresses[x] = al.addresses[x]
                                                 /\ slotsOf(bl, x) = slotsOf(al, x)
<1> DEFINE bl == DeleteAddress(al, a)
           f == al.addresses
           q == al.slots
<1>1. /\ al = [addresses |-> f, slots |-> q] /\ q \in Seq(SUBSET Slot) /\ DOMAIN f \subseteq Address /\ Len(q) \in Nat
      /\ \A x \in DOMAIN f : f[x] \in -1 .. Len(q) - 1
      /\ DOMAIN q = 1 .. Len(q)
  BY Fields, Zenon
<1>2. /\ \A i \in DOMAIN q : /\ q[i] # {} /\ q[i] \subseteq Slot
                            /\ \E x \in DOMAIN f : f[x] = i - 1
      /\ \A x, y \in DOMAIN f : f[x] = f[y] => x = y \/ f[x] = -1
  BY Zenon DEF ListOK, Indexed
<1>3. f[a] = -1
  <2>1. f[a] # -1 => f[a] + 1 \in DOMAIN q
    BY <1>1
  <2> QED
    BY <1>2, <2>1, Zenon DEF slotsOf
<1>4. bl = [addresses |-> [x \in DOMAIN f \ {a} |-> f[x]], slots |-> q]
  BY <1>1 DEF DeleteAddress
<1>5. /\ bl.slots = q /\ DOMAIN bl.addresses = DOMAIN f \ {a}
      /\ \A x \in DOMAIN f \ {a} : bl.addresses[x] = f[x]
  BY <1>4
<1>6. bl \in [addresses : [DOMAIN f \ {a} -> Int], slots : Seq(SUBSET Slot)]
  BY <1>1, <1>4
<1> HIDE DEF bl
<1>7. Indexed(bl)
  <2>1. ASSUME NEW i \in DOMAIN q PROVE \E x \in DOMAIN bl.addresses : bl.addresses[x] = i - 1
    <3>1. PICK x \in DOMAIN f : f[x] = i - 1
      BY <1>2, Zenon
    <3>2. i - 1 # -1
      BY <1>1
    <3> QED
      BY <1>3, <1>5, <3>1, <3>2, Zenon
  <2> QED
    BY <1>1, <1>2, <1>5, <2>1, SMTT(30) DEF Indexed
<1>8. \A x \in DOMAIN bl.addresses : slotsOf(bl, x) = slotsOf(al, x)
  BY <1>5, Zenon DEF slotsOf
<1> QED
  BY <1>1, <1>5, <1>6, <1>7, <1>8, SMTT(30) DEF bl, ListOK

\* The front of a sequence.
LEMMA CutSeq ==
    ASSUME NEW S, NEW q \in Seq(S), NEW n \in 0 .. Len(q)
    PROVE  LET r == SubSeq(q, 1, n)
           IN  r \in Seq(S) /\ Len(r) = n /\ DOMAIN r = 1 .. n /\ \A i \in 1 .. n : r[i] = q[i]
OBVIOUS

\* DeleteSlot, when an address that loses its last slot is the last of the
\* array.
LEMMA DeleteSlotIs ==
    ASSUME NEW al, ListOK(al), NEW a \in DOMAIN al.addresses, NEW s \in slotsOf(al, a),
           slotsOf(al, a) = {s} => al.addresses[a] = Len(al.slots) - 1
    PROVE  LET bl == DeleteSlot(al, a, s)
           IN  /\ ListOK(bl)
               /\ DOMAIN bl.addresses = DOMAIN al.addresses
               /\ slotsOf(bl, a) = slotsOf(al, a) \ {s}
               /\ bl.addresses[a] \in {-1, al.addresses[a]}
               /\ \A x \in DOMAIN al.addresses \ {a} : /\ bl.addresses[x] = al.addresses[x]
                                                       /\ slotsOf(bl, x) = slotsOf(al, x)
<1> DEFINE bl == DeleteSlot(al, a, s)
           f == al.addresses
           q == al.slots
           k == f[a] + 1
<1>1. /\ al = [addresses |-> f, slots |-> q] /\ q \in Seq(SUBSET Slot) /\ DOMAIN f \subseteq Address /\ Len(q) \in Nat
      /\ \A x \in DOMAIN f : f[x] \in -1 .. Len(q) - 1
      /\ f = [x \in DOMAIN f |-> f[x]] /\ DOMAIN q = 1 .. Len(q)
  BY Fields, Zenon
<1>2. /\ \A i \in DOMAIN q : /\ q[i] # {} /\ q[i] \subseteq Slot
                            /\ \E x \in DOMAIN f : f[x] = i - 1
      /\ \A x, y \in DOMAIN f : f[x] = f[y] => x = y \/ f[x] = -1
  BY Zenon DEF ListOK, Indexed
<1>3. f[a] # -1 /\ slotsOf(al, a) = q[k]
  BY Zenon DEF slotsOf
<1>4. k \in 1 .. Len(q) /\ f[a] \in Nat
  BY <1>1, <1>3
<1>5. CASE q[k] \ {s} = {}
  <2>1. f[a] = Len(q) - 1
    BY <1>3, <1>5, Zenon
  <2> DEFINE r == SubSeq(q, 1, f[a])
             g == [x \in DOMAIN f \cup {a} |-> IF x = a THEN -1 ELSE f[x]]
  <2>2. bl = [addresses |-> g, slots |-> r]
    BY <1>5, Zenon DEF DeleteSlot, point
  <2>3. r \in Seq(SUBSET Slot) /\ Len(r) = f[a] /\ DOMAIN r = 1 .. f[a] /\ \A i \in 1 .. f[a] : r[i] = q[i]
    <3>1. f[a] \in 0 .. Len(q)
      BY <1>1, <1>4, <2>1
    <3> QED
      BY <1>1, <3>1, CutSeq
  <2> HIDE DEF r
  <2>4. /\ bl.slots = r /\ DOMAIN bl.addresses = DOMAIN f /\ bl.addresses[a] = -1
        /\ \A x \in DOMAIN f \ {a} : bl.addresses[x] = f[x]
    BY <2>2
  <2>5. bl \in [addresses : [DOMAIN f -> Int], slots : Seq(SUBSET Slot)]
    BY <1>1, <2>2, <2>3
  <2> HIDE DEF bl
  <2>6. \A x \in DOMAIN f \ {a} : f[x] \in -1 .. f[a] - 1
    BY <1>1, <1>2, <1>3, <1>4, <2>1, SMTT(30)
  <2>7. Indexed(bl)
    <3>1. ASSUME NEW i \in 1 .. f[a]
          PROVE  /\ r[i] # {} /\ r[i] \subseteq Slot
                 /\ \E x \in DOMAIN bl.addresses : bl.addresses[x] = i - 1
      <4>1. i \in DOMAIN q /\ i - 1 # f[a] /\ r[i] = q[i]
        BY <1>1, <1>4, <2>1, <2>3
      <4>2. PICK x \in DOMAIN f : f[x] = i - 1
        BY <1>2, <4>1, Zenon
      <4> QED
        BY <1>2, <2>4, <4>1, <4>2, Zenon
    <3>2. \A x, y \in DOMAIN bl.addresses : bl.addresses[x] = bl.addresses[y] => x = y \/ bl.addresses[x] = -1
      BY <1>2, <2>4, Zenon
    <3>3. \A x \in DOMAIN bl.addresses : bl.addresses[x] \in -1 .. f[a] - 1
      BY <1>4, <2>4, <2>6
    <3> QED
      BY <1>1, <2>3, <2>4, <3>1, <3>2, <3>3, SMTT(30) DEF Indexed
  <2>8. ASSUME NEW x \in DOMAIN f \ {a} PROVE slotsOf(bl, x) = slotsOf(al, x)
    <3>1. f[x] = -1 \/ f[x] + 1 \in 1 .. f[a]
      BY <1>4, <2>6
    <3> QED
      BY <2>3, <2>4, <3>1, Zenon DEF slotsOf
  <2>9. slotsOf(bl, a) = {} /\ q[k] \ {s} = {}
    BY <1>5, <2>4, Zenon DEF slotsOf
  <2> QED
    BY <1>1, <1>3, <2>4, <2>5, <2>7, <2>8, <2>9, SMTT(30) DEF bl, ListOK
<1>6. CASE q[k] \ {s} # {}
  <2>1. bl = [addresses |-> f, slots |-> [q EXCEPT ![k] = q[k] \ {s}]]
    BY <1>1, <1>6, Zenon DEF DeleteSlot
  <2>2. /\ bl.addresses = f /\ bl.slots \in Seq(SUBSET Slot) /\ Len(bl.slots) = Len(q) /\ DOMAIN bl.slots = 1 .. Len(q)
        /\ bl.slots[k] = q[k] \ {s} /\ \A i \in 1 .. Len(q) : i # k => bl.slots[i] = q[i]
    BY <1>1, <1>4, <2>1
  <2>3. bl \in [addresses : [DOMAIN f -> Int], slots : Seq(SUBSET Slot)]
    BY <1>1, <2>1, <2>2
  <2> HIDE DEF bl
  <2>4. Indexed(bl)
    <3>1. \A i \in 1 .. Len(q) : bl.slots[i] # {} /\ bl.slots[i] \subseteq Slot
      BY <1>1, <1>2, <1>4, <1>6, <2>2, Zenon
    <3> QED
      BY <1>1, <1>2, <2>2, <3>1, SMTT(30) DEF Indexed
  <2>5. ASSUME NEW x \in DOMAIN f \ {a} PROVE slotsOf(bl, x) = slotsOf(al, x)
    <3>1. f[x] # f[a]
      BY <1>2, <1>3, Zenon
    <3>2. f[x] = -1 \/ (f[x] + 1 \in 1 .. Len(q) /\ f[x] + 1 # k)
      BY <1>1, <1>4, <3>1
    <3> QED
      BY <2>2, <3>2, Zenon DEF slotsOf
  <2>6. slotsOf(bl, a) = q[k] \ {s}
    BY <1>3, <2>2, Zenon DEF slotsOf
  <2> QED
    BY <1>1, <1>3, <2>2, <2>3, <2>4, <2>5, <2>6, Zenon DEF bl, ListOK
<1> QED
  BY <1>5, <1>6, Zenon

-----------------------------------------------------------------------------
(* The journal. *)

\* The journal J holds every element of C once.
Records(J, C) ==
    /\ J \in Seq(C)
    /\ \A i, j \in 1 .. Len(J) : J[i] = J[j] => i = j
    /\ \A e \in C : \E i \in 1 .. Len(J) : J[i] = e

\* Before the entry e there is one of R.
After(J, R, e) == \A i \in 1 .. Len(J) : J[i] = e => \E j \in 1 .. i - 1 : J[j] \in R

\* A new element is recorded at the end.
LEMMA PushRecords ==
    ASSUME NEW C, NEW J, Records(J, C), NEW e, e \notin C
    PROVE  Records(J \o <<e>>, C \cup {e})
<1> DEFINE K == J \o <<e>>
           n == Len(J)
<1>1. /\ J \in Seq(C) /\ n \in Nat /\ \A i \in 1 .. n : J[i] \in C
      /\ \A i, j \in 1 .. n : J[i] = J[j] => i = j
      /\ \A d \in C : \E i \in 1 .. n : J[i] = d
  BY DEF Records
<1>2. J \in Seq(C \cup {e}) /\ <<e>> \in Seq(C \cup {e})
  BY <1>1
<1>3. K \in Seq(C \cup {e}) /\ Len(K) = n + 1 /\ K[n + 1] = e /\ \A i \in 1 .. n : K[i] = J[i]
  BY <1>2
<1> HIDE DEF K, n
<1>4. \A i, j \in 1 .. n + 1 : K[i] = K[j] => i = j
  BY <1>1, <1>3
<1>5. \A d \in C \cup {e} : \E i \in 1 .. n + 1 : K[i] = d
  BY <1>1, <1>3
<1> QED
  BY <1>3, <1>4, <1>5, Zenon DEF Records, K

\* What an entry comes after, once another is recorded.
LEMMA PushAfter ==
    ASSUME NEW C, NEW J, Records(J, C), NEW e, NEW R, NEW d,
           d # e => After(J, R, d),
           d = e => e \notin C /\ \E r \in R : r \in C
    PROVE  After(J \o <<e>>, R, d)
<1> DEFINE K == J \o <<e>>
           n == Len(J)
<1>1. /\ n \in Nat /\ \A i \in 1 .. n : J[i] \in C
      /\ \A c \in C : \E i \in 1 .. n : J[i] = c
  BY DEF Records
<1>2. J \in Seq(C \cup {e}) /\ <<e>> \in Seq(C \cup {e})
  BY DEF Records
<1>3. Len(K) = n + 1 /\ K[n + 1] = e /\ \A i \in 1 .. n : K[i] = J[i]
  BY <1>2
<1>4. d # e => \A i \in 1 .. n : J[i] = d => \E j \in 1 .. i - 1 : J[j] \in R
  BY Zenon DEF After
<1> HIDE DEF K, n
<1> SUFFICES ASSUME NEW i \in 1 .. n + 1, K[i] = d PROVE \E j \in 1 .. i - 1 : K[j] \in R
  BY <1>3, Zenon DEF After, K
<1>5. CASE d # e
  <2>1. i \in 1 .. n /\ J[i] = d
    BY <1>1, <1>3, <1>5
  <2>2. PICK j \in 1 .. i - 1 : J[j] \in R
    BY <1>4, <1>5, <2>1, Zenon
  <2>3. j \in 1 .. n
    BY <1>1, <2>1
  <2> QED
    BY <1>3, <2>2, <2>3, Zenon
<1>6. CASE d = e
  <2>1. i = n + 1
    BY <1>1, <1>3, <1>6
  <2>2. PICK r \in R : r \in C
    BY <1>6, Zenon
  <2>3. PICK j \in 1 .. n : J[j] = r
    BY <1>1, <2>2, Zenon
  <2> QED
    BY <1>1, <1>3, <2>1, <2>2, <2>3
<1> QED
  BY <1>5, <1>6, Zenon

\* The last entry is undone.
LEMMA PopRecords ==
    ASSUME NEW C, NEW J, Records(J, C), J # <<>>
    PROVE  /\ J[Len(J)] \in C
           /\ Records(SubSeq(J, 1, Len(J) - 1), C \ {J[Len(J)]})
<1> DEFINE n == Len(J)
           K == SubSeq(J, 1, n - 1)
           e == J[n]
<1>1. /\ J \in Seq(C) /\ n \in Nat \ {0} /\ \A i \in 1 .. n : J[i] \in C
      /\ \A i, j \in 1 .. n : J[i] = J[j] => i = j
      /\ \A d \in C : \E i \in 1 .. n : J[i] = d
  BY DEF Records
<1>2. K \in Seq(C) /\ Len(K) = n - 1 /\ \A i \in 1 .. n - 1 : K[i] = J[i]
  <2>1. n - 1 \in 0 .. Len(J)
    BY <1>1
  <2> QED
    BY <1>1, <2>1, CutSeq, ZenonT(40)
<1> HIDE DEF K, n, e
<1>3. e \in C
  BY <1>1 DEF e
<1>4. \A i \in 1 .. n - 1 : K[i] \in C \ {e}
  BY <1>1, <1>2 DEF e
<1>5. K \in Seq(C \ {e})
  BY <1>1, <1>2, <1>4
<1>6. \A i, j \in 1 .. n - 1 : K[i] = K[j] => i = j
  BY <1>1, <1>2
<1>7. \A d \in C \ {e} : \E i \in 1 .. n - 1 : K[i] = d
  <2> TAKE d \in C \ {e}
  <2>1. PICK i \in 1 .. n : J[i] = d
    BY <1>1, Zenon
  <2>2. i # n
    BY <2>1, Zenon DEF e
  <2>3. i \in 1 .. n - 1
    BY <1>1, <2>2
  <2> QED
    BY <1>2, <2>1, <2>3, Zenon
<1> QED
  BY <1>2, <1>3, <1>5, <1>6, <1>7, SMTT(30) DEF Records, K, e, n

\* What an entry comes after, once the last one is undone.
LEMMA PopAfter ==
    ASSUME NEW C, NEW J, Records(J, C), J # <<>>, NEW R, NEW d, After(J, R, d)
    PROVE  After(SubSeq(J, 1, Len(J) - 1), R, d)
<1> DEFINE n == Len(J)
           K == SubSeq(J, 1, n - 1)
<1>1. J \in Seq(C) /\ n \in Nat \ {0} /\ n - 1 \in 0 .. Len(J)
  BY DEF Records
<1>2. Len(K) = n - 1 /\ \A i \in 1 .. n - 1 : K[i] = J[i]
  BY <1>1, CutSeq, Zenon
<1>3. \A i \in 1 .. n : J[i] = d => \E j \in 1 .. i - 1 : J[j] \in R
  BY Zenon DEF After
<1> HIDE DEF K, n
<1> SUFFICES ASSUME NEW i \in 1 .. n - 1, K[i] = d PROVE \E j \in 1 .. i - 1 : K[j] \in R
  BY <1>2, Zenon DEF After, K, n
<1>4. i \in 1 .. n /\ J[i] = d
  BY <1>1, <1>2
<1>5. PICK j \in 1 .. i - 1 : J[j] \in R
  BY <1>3, <1>4, Zenon
<1>6. j \in 1 .. n - 1
  BY <1>1
<1> QED
  BY <1>2, <1>5, <1>6, Zenon

\* What comes before another entry is not the last one.
LEMMA BeforeLast ==
    ASSUME NEW C, NEW J, Records(J, C), J # <<>>, NEW R, NEW d \in C, After(J, R, d)
    PROVE  \E r \in R : r \in C /\ r # J[Len(J)]
<1> DEFINE n == Len(J)
<1>1. /\ J \in Seq(C) /\ n \in Nat \ {0} /\ \A i \in 1 .. n : J[i] \in C
      /\ \A i, j \in 1 .. n : J[i] = J[j] => i = j
  BY DEF Records
<1>2. PICK i \in 1 .. n : J[i] = d
  BY Zenon DEF Records
<1>3. PICK j \in 1 .. i - 1 : J[j] \in R
  BY <1>2, Zenon DEF After
<1>4. j \in 1 .. n /\ j # n /\ n \in 1 .. n
  BY <1>1
<1> QED
  BY <1>1, <1>3, <1>4, Zenon

SlotsAt(x) == {<<x, s>> : s \in Slot}

\* Addresses and slots are told apart.
LEMMA Tuples ==
    /\ \A x, y, s : <<x>> # <<y, s>>
    /\ \A x, y : <<x>> = <<y>> => x = y
    /\ \A x, y, r, s : <<x, r>> = <<y, s>> => x = y /\ r = s
    /\ \A x : \A e \in SlotsAt(x) : \E s \in Slot : e = <<x, s>>
    /\ \A x : \A s \in Slot : <<x, s>> \in SlotsAt(x)
BY Zenon DEF SlotsAt

\* A set with the elements of a list.
LEMMA SameElements ==
    ASSUME NEW al, NEW C,
           \A x : <<x>> \in C <=> x \in DOMAIN al.addresses,
           \A x, s : <<x, s>> \in C <=> x \in DOMAIN al.addresses /\ s \in slotsOf(al, x),
           \A e \in C : (\E x : e = <<x>>) \/ (\E x, s : e = <<x, s>>)
    PROVE  Contents(al) = C
<1>1. \A e \in C : e \in Contents(al)
  <2> TAKE e \in C
  <2>1. CASE \E x : e = <<x>>
    BY <2>1, InContents, ZenonT(40)
  <2>2. CASE \E x, s : e = <<x, s>>
    <3>1. PICK x, s : e = <<x, s>>
      BY <2>2, Zenon
    <3> QED
      BY <3>1, InContents, Zenon
  <2> QED
    BY <2>1, <2>2, Zenon
<1>2. \A e \in Contents(al) : e \in C
  <2> TAKE e \in Contents(al)
  <2>1. CASE \E x \in DOMAIN al.addresses : e = <<x>>
    BY <2>1, Zenon
  <2>2. CASE \E x \in DOMAIN al.addresses : \E s \in slotsOf(al, x) : e = <<x, s>>
    <3>1. PICK x \in DOMAIN al.addresses : \E s \in slotsOf(al, x) : e = <<x, s>>
      BY <2>2, Zenon
    <3> QED
      BY <3>1
  <2> QED
    BY <2>1, <2>2, InContents
<1> QED
  BY <1>1, <1>2, Zenon

\* The elements of Contents are addresses and slots.
LEMMA ElementKinds ==
    ASSUME NEW al, NEW e \in Contents(al)
    PROVE  (\E x : e = <<x>>) \/ (\E x, s : e = <<x, s>>)
BY InContents

\* What AddAddress adds to the set a list stands for.
LEMMA AddedAddress ==
    ASSUME NEW al, ListOK(al), NEW a \in Address, a \notin DOMAIN al.addresses
    PROVE  Contents(AddAddress(al, a)) = Contents(al) \cup {<<a>>}
<1> DEFINE bl == AddAddress(al, a)
<1>0. /\ DOMAIN bl.addresses = DOMAIN al.addresses \cup {a} /\ slotsOf(bl, a) = {}
      /\ \A x \in DOMAIN al.addresses : slotsOf(bl, x) = slotsOf(al, x)
  BY AddAddressIs
<1> HIDE DEF bl
<1> DEFINE C == Contents(al) \cup {<<a>>}
<1>1. \A x : <<x>> \in C <=> x \in DOMAIN bl.addresses
  BY <1>0, InContents, Tuples, Zenon
<1>2. \A x, s : <<x, s>> \in C <=> x \in DOMAIN bl.addresses /\ s \in slotsOf(bl, x)
  BY <1>0, InContents, Tuples, Zenon
<1>3. \A e \in C : (\E x : e = <<x>>) \/ (\E x, s : e = <<x, s>>)
  BY ElementKinds, Zenon
<1> HIDE DEF C
<1>4. Contents(bl) = C
  BY <1>1, <1>2, <1>3, SameElements, Zenon
<1> QED
  BY <1>4, Zenon DEF C, bl

\* What AddSlot of a listed address adds.
LEMMA AddedSlot ==
    ASSUME NEW al, ListOK(al), NEW a \in DOMAIN al.addresses, NEW s \in Slot
    PROVE  Contents(AddSlot(al, a, s)) = Contents(al) \cup {<<a, s>>}
<1> DEFINE bl == AddSlot(al, a, s)
           e == <<a, s>>
           f == al.addresses
           g == bl.addresses
<1>0. /\ DOMAIN g = DOMAIN f /\ slotsOf(bl, a) = slotsOf(al, a) \cup {s}
      /\ \A x \in DOMAIN f \ {a} : slotsOf(bl, x) = slotsOf(al, x)
  BY AddSlotIs
<1> HIDE DEF bl, e, f, g
<1> DEFINE C == Contents(al) \cup {e}
<1>1. \A x : <<x>> \in C <=> x \in DOMAIN g
  BY <1>0, InContents, Tuples, Zenon DEF e, f
<1>2. \A x, r : <<x, r>> \in C <=> x \in DOMAIN g /\ r \in slotsOf(bl, x)
  <2>1. \A x, r : <<x, r>> \in C <=> <<x, r>> \in Contents(al) \/ (x = a /\ r = s)
    BY Tuples, Zenon DEF e
  <2>2. \A x, r : <<x, r>> \in Contents(al) <=> x \in DOMAIN f /\ r \in slotsOf(al, x)
    BY InContents, Zenon DEF f
  <2>3. a \in DOMAIN f
    BY Zenon DEF f
  <2> HIDE DEF C
  <2> QED
    BY <1>0, <2>1, <2>2, <2>3, Zenon
<1>3. \A d \in C : (\E x : d = <<x>>) \/ (\E x, r : d = <<x, r>>)
  BY ElementKinds, Zenon DEF e
<1> HIDE DEF C
<1>4. Contents(bl) = C
  BY <1>1, <1>2, <1>3, SameElements, Zenon DEF g
<1> QED
  BY <1>4, Zenon DEF C, bl, e

\* The journal of a list: an address comes before its slots, and some slot of
\* an address before every slot of an address with a later position in the
\* array.
JournalOK(J, al) ==
    /\ Records(J, Contents(al))
    /\ \A x \in DOMAIN al.addresses : \A s \in slotsOf(al, x) : After(J, {<<x>>}, <<x, s>>)
    /\ \A x, y \in DOMAIN al.addresses :
          0 <= al.addresses[x] /\ al.addresses[x] < al.addresses[y] =>
             \A s \in slotsOf(al, y) : After(J, SlotsAt(x), <<y, s>>)

\* An address with a position has slots.
LEMMA PositionHasSlots ==
    ASSUME NEW al, ListOK(al), NEW x \in DOMAIN al.addresses
    PROVE  (al.addresses[x] # -1) <=> (slotsOf(al, x) # {})
<1>1. /\ al.addresses[x] \in -1 .. Len(al.slots) - 1 /\ Len(al.slots) \in Nat
      /\ DOMAIN al.slots = 1 .. Len(al.slots)
  BY Fields, Zenon
<1>2. \A i \in DOMAIN al.slots : al.slots[i] # {}
  BY Zenon DEF ListOK, Indexed
<1>3. al.addresses[x] # -1 => al.addresses[x] + 1 \in DOMAIN al.slots
  BY <1>1
<1> QED
  BY <1>2, <1>3, Zenon DEF slotsOf

\* AddAddress with its entry.
LEMMA JournalAddress ==
    ASSUME NEW al, NEW J, ListOK(al), JournalOK(J, al), NEW a \in Address, a \notin DOMAIN al.addresses
    PROVE  LET bl == AddAddress(al, a)
           IN  /\ JournalOK(J \o <<<<a>>>>, bl)
               /\ Contents(bl) = Contents(al) \cup {<<a>>}
<1> DEFINE bl == AddAddress(al, a)
           K == J \o <<<<a>>>>
<1>1. /\ ListOK(bl) /\ DOMAIN bl.addresses = DOMAIN al.addresses \cup {a}
      /\ bl.addresses[a] = -1 /\ slotsOf(bl, a) = {}
      /\ \A x \in DOMAIN al.addresses : bl.addresses[x] = al.addresses[x] /\ slotsOf(bl, x) = slotsOf(al, x)
  BY AddAddressIs, Zenon
<1> HIDE DEF bl
<1>2. Contents(bl) = Contents(al) \cup {<<a>>}
  BY AddedAddress, Zenon DEF bl
<1>3. Records(J, Contents(al)) /\ <<a>> \notin Contents(al)
  BY InContents, Zenon DEF JournalOK
<1>4. Records(K, Contents(bl))
  BY <1>2, <1>3, PushRecords, SMTT(30)
<1>5. ASSUME NEW R, NEW x, NEW s, After(J, R, <<x, s>>) PROVE After(K, R, <<x, s>>)
  <2>1. <<x, s>> # <<a>>
    BY Tuples, Zenon
  <2> QED
    BY <1>3, <1>5, <2>1, PushAfter, SMTT(30)
<1> HIDE DEF K
<1>6. \A x \in DOMAIN bl.addresses : \A s \in slotsOf(bl, x) : After(K, {<<x>>}, <<x, s>>)
  BY <1>1, <1>5, Zenon DEF JournalOK
<1>7. ASSUME NEW x \in DOMAIN bl.addresses, NEW y \in DOMAIN bl.addresses,
             0 <= bl.addresses[x], bl.addresses[x] < bl.addresses[y], NEW s \in slotsOf(bl, y)
      PROVE  After(K, SlotsAt(x), <<y, s>>)
  <2>1. x \in DOMAIN al.addresses /\ y \in DOMAIN al.addresses
    BY <1>1, <1>7
  <2>2. After(J, SlotsAt(x), <<y, s>>)
    BY <1>1, <1>7, <2>1, SMTT(30) DEF JournalOK
  <2> QED
    BY <1>5, <2>2, Zenon
<1>8. JournalOK(K, bl)
  BY <1>4, <1>6, <1>7, Zenon DEF JournalOK
<1> QED
  BY <1>2, <1>8, Zenon DEF bl, K

\* AddSlot with its entry.
LEMMA JournalSlot ==
    ASSUME NEW al, NEW J, ListOK(al), JournalOK(J, al), NEW a \in DOMAIN al.addresses, NEW s \in Slot,
           s \notin slotsOf(al, a)
    PROVE  LET bl == AddSlot(al, a, s)
           IN  /\ JournalOK(J \o <<<<a, s>>>>, bl)
               /\ Contents(bl) = Contents(al) \cup {<<a, s>>}
<1> DEFINE bl == AddSlot(al, a, s)
           e == <<a, s>>
           K == J \o <<e>>
           f == al.addresses
           g == bl.addresses
<1>1. /\ ListOK(bl) /\ DOMAIN g = DOMAIN f
      /\ slotsOf(bl, a) = slotsOf(al, a) \cup {s}
      /\ g[a] = IF f[a] = -1 THEN Len(al.slots) ELSE f[a]
      /\ \A x \in DOMAIN f \ {a} : g[x] = f[x] /\ slotsOf(bl, x) = slotsOf(al, x)
  BY AddSlotIs
<1>2. /\ \A x \in DOMAIN f : f[x] \in -1 .. Len(al.slots) - 1
      /\ Len(al.slots) \in Nat
      /\ \A x \in DOMAIN f : slotsOf(al, x) \subseteq Slot
  BY Fields, ZenonT(40)
<1> HIDE DEF bl, e, f, g
<1>3. Contents(bl) = Contents(al) \cup {e}
  BY AddedSlot, Zenon DEF bl, e
<1>4. Records(J, Contents(al)) /\ e \notin Contents(al) /\ <<a>> \in Contents(al)
  BY InContents, Zenon DEF JournalOK, e
<1>5. Records(K, Contents(bl))
  BY <1>3, <1>4, PushRecords
<1>6. \A R, d : /\ d # e /\ After(J, R, d) => After(K, R, d)
                /\ (\E r \in R : r \in Contents(al)) => After(K, R, e)
  BY <1>4, PushAfter, SMTT(30)
<1> HIDE DEF K
<1>7. ASSUME NEW x \in DOMAIN g, NEW r \in slotsOf(bl, x) PROVE After(K, {<<x>>}, <<x, r>>)
  <2>1. CASE <<x, r>> = e
    <3>1. x = a
      BY <2>1, Tuples, Zenon DEF e
    <3> QED
      BY <1>4, <1>6, <2>1, <3>1, SMTT(30)
  <2>2. CASE <<x, r>> # e
    <3>1. r \in slotsOf(al, x)
      BY <1>1, <1>7, <2>2, SMTT(30) DEF e
    <3>2. After(J, {<<x>>}, <<x, r>>)
      BY <1>1, <3>1, Zenon DEF JournalOK, f
    <3> QED
      BY <1>6, <2>2, <3>2, Zenon
  <2> QED
    BY <2>1, <2>2, Zenon
<1>8. ASSUME NEW x \in DOMAIN g, NEW y \in DOMAIN g, 0 <= g[x], g[x] < g[y], NEW r \in slotsOf(bl, y)
      PROVE  After(K, SlotsAt(x), <<y, r>>)
  <2>1. x \in DOMAIN f /\ y \in DOMAIN f /\ f[x] \in Int /\ f[y] \in Int
    BY <1>1, <1>2
  <2>2. f[x] = g[x]
    <3>1. CASE x = a /\ f[a] = -1
      <4>1. g[x] = Len(al.slots) /\ (y = a \/ g[y] = f[y]) /\ f[y] <= Len(al.slots) - 1
        BY <1>1, <1>2, <2>1, <3>1, SMTT(30)
      <4> QED
        BY <1>2, <1>8, <2>1, <3>1, <4>1, SMTT(30)
    <3>2. CASE ~(x = a /\ f[a] = -1)
      BY <1>1, <2>1, <3>2, SMTT(30)
    <3> QED
      BY <3>1, <3>2, Zenon
  <2>3. CASE <<y, r>> = e
    <3>1. f[x] # -1
      BY <1>8, <2>1, <2>2
    <3>2. slotsOf(al, x) # {}
      BY <2>1, <3>1, PositionHasSlots, SMTT(30) DEF f
    <3>3. PICK q \in slotsOf(al, x) : <<x, q>> \in Contents(al)
      BY <2>1, <3>2, InContents, SMTT(30) DEF f
    <3>4. <<x, q>> \in SlotsAt(x)
      BY <1>2, <2>1, Tuples, Zenon
    <3> QED
      BY <1>6, <2>3, <3>3, <3>4, SMTT(30)
  <2>4. CASE <<y, r>> # e
    <3>1. r \in slotsOf(al, y)
      BY <1>1, <1>8, <2>4, SMTT(30) DEF e
    <3>2. f[y] # -1
      BY <2>1, <3>1, PositionHasSlots, SMTT(30) DEF f
    <3>3. f[y] = g[y]
      BY <1>1, <2>1, <3>2, SMTT(30)
    <3>4. After(J, SlotsAt(x), <<y, r>>)
      BY <1>8, <2>1, <2>2, <3>1, <3>3, Zenon DEF JournalOK, f
    <3> QED
      BY <1>6, <2>4, <3>4, SMTT(30)
  <2> QED
    BY <2>3, <2>4, Zenon
<1>9. JournalOK(K, bl)
  BY <1>5, <1>7, <1>8, SMTT(30) DEF JournalOK, g
<1> QED
  BY <1>3, <1>9, Zenon DEF bl, K, e

\* Reverting the entry of an address.
LEMMA JournalDeleteAddress ==
    ASSUME NEW al, NEW J, ListOK(al), JournalOK(J, al), J # <<>>, NEW a, J[Len(J)] = <<a>>
    PROVE  LET bl == DeleteAddress(al, a)
           IN  /\ ListOK(bl) /\ JournalOK(SubSeq(J, 1, Len(J) - 1), bl)
               /\ Contents(bl) = Contents(al) \ {<<a>>}
<1> DEFINE bl == DeleteAddress(al, a)
           K == SubSeq(J, 1, Len(J) - 1)
<1>1. Records(J, Contents(al))
  BY Zenon DEF JournalOK
<1>2. a \in DOMAIN al.addresses
  <2>1. J[Len(J)] \in Contents(al)
    BY <1>1, PopRecords, Zenon
  <2>2. <<a>> \in Contents(al)
    BY <2>1, Zenon
  <2> QED
    BY <2>2, InContents, Zenon
<1>3. slotsOf(al, a) = {}
  <2> SUFFICES ASSUME NEW s \in slotsOf(al, a) PROVE FALSE
    BY Zenon
  <2>1. After(J, {<<a>>}, <<a, s>>)
    BY <1>2, Zenon DEF JournalOK
  <2>2. <<a, s>> \in Contents(al)
    BY <1>2, InContents, Zenon
  <2> QED
    BY <1>1, <2>1, <2>2, BeforeLast
<1>4. /\ ListOK(bl) /\ DOMAIN bl.addresses = DOMAIN al.addresses \ {a}
      /\ \A x \in DOMAIN bl.addresses : bl.addresses[x] = al.addresses[x] /\ slotsOf(bl, x) = slotsOf(al, x)
  BY <1>2, <1>3, DeleteAddressIs, Zenon
<1> HIDE DEF bl
<1>5. Contents(bl) = Contents(al) \ {<<a>>}
  <2> DEFINE C == Contents(al) \ {<<a>>}
  <2>1. \A x : <<x>> \in C <=> x \in DOMAIN bl.addresses
    BY <1>4, InContents, Tuples, Zenon
  <2>2. \A x, s : <<x, s>> \in C <=> x \in DOMAIN bl.addresses /\ s \in slotsOf(bl, x)
    <3>1. \A x, s : <<x, s>> \in C <=> x \in DOMAIN al.addresses /\ s \in slotsOf(al, x)
      BY InContents, Tuples, Zenon
    <3> HIDE DEF C
    <3> QED
      BY <1>3, <1>4, <3>1, Zenon
  <2>3. \A d \in C : (\E x : d = <<x>>) \/ (\E x, r : d = <<x, r>>)
    BY ElementKinds, Zenon
  <2> HIDE DEF C
  <2>4. Contents(bl) = C
    BY <2>1, <2>2, <2>3, SameElements, SMTT(30)
  <2> QED
    BY <2>4, Zenon DEF C
<1>6. Records(K, Contents(bl))
  BY <1>1, <1>5, PopRecords, ZenonT(40)
<1>7. \A R, d : After(J, R, d) => After(K, R, d)
  BY <1>1, PopAfter, Zenon
<1> HIDE DEF K
<1>8. JournalOK(K, bl)
  BY <1>4, <1>6, <1>7, Zenon DEF JournalOK
<1> QED
  BY <1>4, <1>5, <1>8, SMTT(30) DEF bl, K

\* Reverting the entry of a slot.
LEMMA JournalDeleteSlot ==
    ASSUME NEW al, NEW J, ListOK(al), JournalOK(J, al), J # <<>>, NEW a, NEW s, J[Len(J)] = <<a, s>>
    PROVE  LET bl == DeleteSlot(al, a, s)
           IN  /\ ListOK(bl) /\ JournalOK(SubSeq(J, 1, Len(J) - 1), bl)
               /\ Contents(bl) = Contents(al) \ {<<a, s>>}
<1> DEFINE bl == DeleteSlot(al, a, s)
           K == SubSeq(J, 1, Len(J) - 1)
           e == <<a, s>>
           f == al.addresses
           g == bl.addresses
<1>1. Records(J, Contents(al)) /\ J[Len(J)] = e
  BY Zenon DEF JournalOK
<1>2. a \in DOMAIN f /\ s \in slotsOf(al, a)
  <2>1. J[Len(J)] \in Contents(al)
    BY <1>1, PopRecords, Zenon
  <2>2. <<a, s>> \in Contents(al)
    BY <2>1, Zenon
  <2> QED
    BY <2>2, InContents, Zenon
<1>3. /\ \A x \in DOMAIN f : f[x] \in -1 .. Len(al.slots) - 1
      /\ Len(al.slots) \in Nat /\ DOMAIN al.slots = 1 .. Len(al.slots)
  BY Fields, Zenon
<1>4. ASSUME slotsOf(al, a) = {s} PROVE f[a] = Len(al.slots) - 1
  <2> SUFFICES ASSUME f[a] # Len(al.slots) - 1 PROVE FALSE
    BY Zenon
  <2>1. f[a] # -1
    BY <1>2, PositionHasSlots, Zenon
  <2>2. f[a] \in Int /\ 0 <= f[a] /\ f[a] < Len(al.slots) - 1 /\ Len(al.slots) \in DOMAIN al.slots
    BY <1>2, <1>3, <2>1, SMTT(30)
  <2>3. PICK y \in DOMAIN f : f[y] = Len(al.slots) - 1
    BY <2>2, Zenon DEF ListOK, Indexed
  <2>4. f[y] # -1
    BY <1>3, <2>2, <2>3, SMTT(30)
  <2>5. PICK r : r \in slotsOf(al, y)
    BY <2>4, PositionHasSlots, SMTT(30)
  <2>6. After(J, SlotsAt(a), <<y, r>>)
    BY <1>2, <2>2, <2>3, <2>5, SMTT(30) DEF JournalOK
  <2>7. <<y, r>> \in Contents(al)
    BY <2>3, <2>5, InContents, SMTT(30)
  <2>8. PICK d \in SlotsAt(a) : d \in Contents(al) /\ d # e
    BY <1>1, <2>6, <2>7, BeforeLast, SMTT(30)
  <2>9. PICK q \in Slot : d = <<a, q>>
    BY Tuples, Zenon
  <2>10. q \in slotsOf(al, a)
    BY <2>8, <2>9, InContents, SMTT(30)
  <2> QED
    BY <1>4, <2>8, <2>9, <2>10, Zenon
<1>5. /\ ListOK(bl) /\ DOMAIN g = DOMAIN f
      /\ slotsOf(bl, a) = slotsOf(al, a) \ {s}
      /\ g[a] \in {-1, f[a]}
      /\ \A x \in DOMAIN f \ {a} : g[x] = f[x] /\ slotsOf(bl, x) = slotsOf(al, x)
  BY <1>2, <1>4, DeleteSlotIs, SMTT(30)
<1> HIDE DEF bl, e, f, g
<1>6. Contents(bl) = Contents(al) \ {e}
  <2> DEFINE C == Contents(al) \ {e}
  <2>1. \A x : <<x>> \in C <=> x \in DOMAIN g
    BY <1>5, InContents, Tuples, Zenon DEF e, f
  <2>2. \A x, r : <<x, r>> \in C <=> x \in DOMAIN g /\ r \in slotsOf(bl, x)
    <3>1. \A x, r : <<x, r>> \in C <=> <<x, r>> \in Contents(al) /\ ~(x = a /\ r = s)
      BY Tuples, Zenon DEF e
    <3>2. \A x, r : <<x, r>> \in Contents(al) <=> x \in DOMAIN f /\ r \in slotsOf(al, x)
      BY InContents, Zenon DEF f
    <3> HIDE DEF C
    <3> QED
      BY <1>2, <1>5, <3>1, <3>2, Zenon
  <2>3. \A d \in C : (\E x : d = <<x>>) \/ (\E x, r : d = <<x, r>>)
    BY ElementKinds, Zenon
  <2> HIDE DEF C
  <2>4. Contents(bl) = C
    BY <2>1, <2>2, <2>3, SameElements, SMTT(30) DEF g
  <2> QED
    BY <2>4, SMTT(30) DEF C
<1>7. Records(K, Contents(bl))
  BY <1>1, <1>6, PopRecords, Zenon
<1>8. \A R, d : After(J, R, d) => After(K, R, d)
  BY <1>1, PopAfter, Zenon
<1> HIDE DEF K
<1>9. \A x \in DOMAIN g : slotsOf(bl, x) \subseteq slotsOf(al, x)
  BY <1>5, SMTT(30)
<1>10. \A x \in DOMAIN g : \A r \in slotsOf(bl, x) : After(K, {<<x>>}, <<x, r>>)
  BY <1>5, <1>8, <1>9, Zenon DEF JournalOK, f
<1>11. ASSUME NEW x \in DOMAIN g, NEW y \in DOMAIN g, 0 <= g[x], g[x] < g[y], NEW r \in slotsOf(bl, y)
       PROVE  After(K, SlotsAt(x), <<y, r>>)
  <2>1. x \in DOMAIN f /\ y \in DOMAIN f /\ f[x] \in Int /\ f[y] \in Int /\ r \in slotsOf(al, y)
    BY <1>3, <1>5, <1>9, SMTT(30)
  <2>2. f[x] = g[x] /\ f[y] = g[y]
    <3>1. (g[x] = -1 \/ g[x] = f[x]) /\ (g[y] = -1 \/ g[y] = f[y])
      BY <1>5, <2>1, SMTT(30)
    <3> QED
      BY <1>11, <2>1, <3>1, SMTT(30)
  <2>3. After(J, SlotsAt(x), <<y, r>>)
    BY <1>11, <2>1, <2>2, SMTT(30) DEF JournalOK, f
  <2> QED
    BY <1>8, <2>3, Zenon
<1>12. JournalOK(K, bl)
  BY <1>7, <1>10, <1>11, SMTT(30) DEF JournalOK, g
<1> QED
  BY <1>5, <1>6, <1>12, SMTT(30) DEF bl, K, e

\* A slot that is there is not added again.
LEMMA AddSlotPresent ==
    ASSUME NEW al, ListOK(al), NEW a \in DOMAIN al.addresses, NEW s \in slotsOf(al, a)
    PROVE  AddSlot(al, a, s) = al
<1> DEFINE f == al.addresses
           q == al.slots
           k == f[a] + 1
<1>1. /\ al = [addresses |-> f, slots |-> q] /\ q \in Seq(SUBSET Slot)
      /\ f[a] \in -1 .. Len(q) - 1 /\ Len(q) \in Nat /\ DOMAIN q = 1 .. Len(q)
  BY Fields, Zenon
<1>2. f[a] # -1 /\ s \in q[k]
  BY Zenon DEF slotsOf
<1>3. q[k] \cup {s} = q[k]
  BY <1>2, Zenon
<1>4. AddSlot(al, a, s) = [addresses |-> f, slots |-> [q EXCEPT ![k] = q[k] \cup {s}]]
  BY <1>1, <1>2, Zenon DEF AddSlot, ContainsAddress
<1>5. [q EXCEPT ![k] = q[k] \cup {s}] = q
  BY <1>1, <1>3
<1> QED
  BY <1>1, <1>4, <1>5, Zenon

\* AddAddress in any case.
LEMMA WithAddress ==
    ASSUME NEW al, ListOK(al), NEW a \in Address
    PROVE  /\ ListOK(AddAddress(al, a)) /\ a \in DOMAIN AddAddress(al, a).addresses
           /\ Contents(AddAddress(al, a)) = Contents(al) \cup {<<a>>}
<1>1. CASE a \in DOMAIN al.addresses
  <2>1. AddAddress(al, a) = al
    BY <1>1, Zenon DEF AddAddress, ContainsAddress
  <2>2. <<a>> \in Contents(al)
    BY <1>1, InContents, SMTT(30)
  <2> QED
    BY <1>1, <2>1, <2>2, Zenon
<1>2. CASE a \notin DOMAIN al.addresses
  BY <1>2, AddAddressIs, AddedAddress, SMTT(30)
<1> QED
  BY <1>1, <1>2, Zenon

\* AddSlot in any case.
LEMMA WithSlot ==
    ASSUME NEW al, ListOK(al), NEW a \in Address, NEW s \in Slot
    PROVE  /\ ListOK(AddSlot(al, a, s))
           /\ Contents(AddSlot(al, a, s)) = Contents(al) \cup {<<a>>, <<a, s>>}
<1> DEFINE bl == AddAddress(al, a)
<1>1. ListOK(bl) /\ a \in DOMAIN bl.addresses /\ Contents(bl) = Contents(al) \cup {<<a>>}
  BY WithAddress, Zenon
<1>2. AddSlot(al, a, s) = AddSlot(bl, a, s)
  BY AddSlotAddsAddress, Zenon
<1> HIDE DEF bl
<1>3. ListOK(AddSlot(bl, a, s)) /\ Contents(AddSlot(bl, a, s)) = Contents(bl) \cup {<<a, s>>}
  BY <1>1, AddSlotIs, AddedSlot, SMTT(30)
<1> QED
  BY <1>1, <1>2, <1>3, Zenon

\* The entry of an addition to a list.
EntryOf(al, x) == IF x \in Contents(al) THEN <<>> ELSE <<x>>

\* AddAddressToAccessList keeps the journal in order.
LEMMA StepAddress ==
    ASSUME NEW al, NEW J, ListOK(al), JournalOK(J, al), NEW a \in Address
    PROVE  JournalOK(J \o EntryOf(al, <<a>>), AddAddress(al, a))
<1>1. CASE a \in DOMAIN al.addresses
  <2>1. AddAddress(al, a) = al /\ EntryOf(al, <<a>>) = <<>>
    BY <1>1, InContents, Zenon DEF AddAddress, ContainsAddress, EntryOf
  <2>2. J \o <<>> = J
    BY DEF JournalOK, Records
  <2> QED
    BY <2>1, <2>2, Zenon
<1>2. CASE a \notin DOMAIN al.addresses
  <2>1. EntryOf(al, <<a>>) = <<<<a>>>>
    BY <1>2, InContents, Zenon DEF EntryOf
  <2> QED
    BY <1>2, <2>1, JournalAddress, SMTT(30)
<1> QED
  BY <1>1, <1>2, Zenon

\* So does AddSlotToAccessList, with its two entries.
LEMMA StepSlot ==
    ASSUME NEW al, NEW J, ListOK(al), JournalOK(J, al), NEW a \in Address, NEW s \in Slot
    PROVE  JournalOK(J \o EntryOf(al, <<a>>) \o EntryOf(al, <<a, s>>), AddSlot(al, a, s))
<1> DEFINE bl == AddAddress(al, a)
           K == J \o EntryOf(al, <<a>>)
<1>1. ListOK(bl) /\ a \in DOMAIN bl.addresses /\ Contents(bl) = Contents(al) \cup {<<a>>}
  BY WithAddress, Zenon
<1>2. JournalOK(K, bl)
  BY StepAddress, Zenon
<1>3. AddSlot(al, a, s) = AddSlot(bl, a, s)
  BY AddSlotAddsAddress, Zenon
<1> HIDE DEF bl, K
<1>4. EntryOf(al, <<a, s>>) = EntryOf(bl, <<a, s>>)
  BY <1>1, Tuples, Zenon DEF EntryOf
<1>5. CASE s \in slotsOf(bl, a)
  <2>1. AddSlot(bl, a, s) = bl
    BY <1>1, <1>5, AddSlotPresent, SMTT(30)
  <2>2. EntryOf(bl, <<a, s>>) = <<>>
    BY <1>1, <1>5, InContents, SMTT(30) DEF EntryOf
  <2>3. K \o <<>> = K
    BY <1>2 DEF JournalOK, Records
  <2> QED
    BY <1>2, <1>3, <1>4, <2>1, <2>2, <2>3, SMTT(30) DEF K
<1>6. CASE s \notin slotsOf(bl, a)
  <2>1. EntryOf(bl, <<a, s>>) = <<<<a, s>>>>
    BY <1>1, <1>6, InContents, SMTT(30) DEF EntryOf
  <2>2. JournalOK(K \o <<<<a, s>>>>, AddSlot(bl, a, s))
    BY <1>1, <1>2, <1>6, JournalSlot, SMTT(30)
  <2> QED
    BY <1>3, <1>4, <2>1, <2>2, Zenon DEF K
<1> QED
  BY <1>5, <1>6, Zenon

\* CombineAddress for an address without slots.
LEMMA CombineNoSlot ==
    ASSUME NEW al, NEW part, NEW a, slotsOf(part, a) = {}
    PROVE  CombineAddress(al, part, a) = AddAddress(al, a)
<1> DEFINE one == AddAddress(al, a)
           S == slotsOf(part, a)
           G(f) == [T \in SUBSET S |-> IF T = {} THEN one
                       ELSE AddSlot(f[T \ {CHOOSE x \in T : TRUE}], a, CHOOSE x \in T : TRUE)]
           g == [T \in SUBSET S |-> one]
           h == CHOOSE f : f = G(f)
<1>1. \A T \in SUBSET S : T = {}
  BY Zenon
<1>2. g = G(g)
  BY <1>1, SMTT(30)
<1>3. h = G(h)
  BY <1>2, Zenon
<1>4. CombineAddress(al, part, a) = h[S]
  BY Zenon DEF CombineAddress, FoldSet, MapThenFoldSet
<1> HIDE DEF h
<1>5. h[S] = one
  BY <1>3, Zenon
<1> QED
  BY <1>4, <1>5, Zenon

\* CombineAddress for an address with one slot.
LEMMA CombineOneSlot ==
    ASSUME NEW al, NEW part, NEW a, NEW s, slotsOf(part, a) = {s}
    PROVE  CombineAddress(al, part, a) = AddSlot(AddAddress(al, a), a, s)
<1> DEFINE one == AddAddress(al, a)
           S == slotsOf(part, a)
           G(f) == [T \in SUBSET S |-> IF T = {} THEN one
                       ELSE AddSlot(f[T \ {CHOOSE x \in T : TRUE}], a, CHOOSE x \in T : TRUE)]
           g == [T \in SUBSET S |-> IF T = {} THEN one ELSE AddSlot(one, a, s)]
           h == CHOOSE f : f = G(f)
<1>1. \A T \in SUBSET S : T # {} => T = {s} /\ (CHOOSE x \in T : TRUE) = s
  BY Zenon
<1>2. g = G(g)
  BY <1>1, SMTT(30)
<1>3. h = G(h)
  BY <1>2, Zenon
<1>4. CombineAddress(al, part, a) = h[S]
  BY Zenon DEF CombineAddress, FoldSet, MapThenFoldSet
<1> HIDE DEF h
<1>5. h[{}] = one /\ (CHOOSE x \in {s} : TRUE) = s
  BY <1>3, Zenon
<1>6. h[S] = AddSlot(one, a, s)
  BY <1>3, <1>5
<1> QED
  BY <1>4, <1>6, Zenon

\* CombineTrueAccessList for a list of one address.
LEMMA CombineOneAddress ==
    ASSUME NEW al, NEW part, NEW a, DOMAIN part.addresses = {a}
    PROVE  CombineTrueAccessList(al, part) = CombineAddress(al, part, a)
<1> DEFINE S == DOMAIN part.addresses
           G(f) == [T \in SUBSET S |-> IF T = {} THEN al
                       ELSE CombineAddress(f[T \ {CHOOSE x \in T : TRUE}], part, CHOOSE x \in T : TRUE)]
           g == [T \in SUBSET S |-> IF T = {} THEN al ELSE CombineAddress(al, part, a)]
           h == CHOOSE f : f = G(f)
<1>1. \A T \in SUBSET S : T # {} => T = {a} /\ (CHOOSE x \in T : TRUE) = a
  BY Zenon
<1>2. g = G(g)
  BY <1>1
<1>3. h = G(h)
  BY <1>2, Zenon
<1>4. CombineTrueAccessList(al, part) = h[S]
  BY Zenon DEF CombineTrueAccessList, FoldSet, MapThenFoldSet
<1> HIDE DEF h
<1>5. h[{}] = al /\ (CHOOSE x \in {a} : TRUE) = a
  BY <1>3, Zenon
<1>6. h[S] = CombineAddress(al, part, a)
  BY <1>3, <1>5, Zenon
<1> QED
  BY <1>4, <1>6, Zenon

\* The list before anything is added.
LEMMA NewListOK == ListOK(NewAccessList) /\ Contents(NewAccessList) = {} /\ DOMAIN NewAccessList.addresses = {}
<1> DEFINE al == NewAccessList
<1>1. al.addresses = <<>> /\ al.slots = <<>> /\ al = [addresses |-> <<>>, slots |-> <<>>]
  BY Zenon DEF NewAccessList
<1>2. <<>> = [x \in {} |-> 0] /\ DOMAIN <<>> = {} /\ <<>> \in Seq(SUBSET Slot)
  OBVIOUS
<1>3. DOMAIN al.addresses = {} /\ DOMAIN al.slots = {}
  BY <1>1, <1>2, Zenon
<1>4. <<>> \in [{} -> Int]
  BY <1>2, Zenon
<1>5. \E D \in SUBSET Address : al \in [addresses : [D -> Int], slots : Seq(SUBSET Slot)]
  <2>1. {} \in SUBSET Address /\ al \in [addresses : [{} -> Int], slots : Seq(SUBSET Slot)]
    BY <1>1, <1>2, <1>4, Zenon
  <2> QED
    BY <2>1, Zenon
<1>6. Indexed(al)
  BY <1>3, Zenon DEF Indexed
<1>7. Contents(al) = {}
  BY <1>3, Zenon DEF Contents
<1> QED
  BY <1>3, <1>5, <1>6, <1>7, Zenon DEF ListOK

\* The list of an instruction that touches an account.
LEMMA AccountTouched ==
    ASSUME NEW a \in Address
    PROVE  LET part == AddAddress(NewAccessList, a)
           IN  /\ DOMAIN part.addresses = {a} /\ part.addresses[a] = -1 /\ slotsOf(part, a) = {}
               /\ Contents(part) = {<<a>>}
BY NewListOK, AddAddressIs, AddedAddress

\* The list of an instruction that touches a slot.
LEMMA SlotTouched ==
    ASSUME NEW a \in Address, NEW s \in Slot
    PROVE  LET part == AddSlot(NewAccessList, a, s)
           IN  /\ DOMAIN part.addresses = {a} /\ part.addresses[a] # -1 /\ slotsOf(part, a) = {s}
               /\ Contents(part) = {<<a>>, <<a, s>>}
<1> DEFINE one == AddAddress(NewAccessList, a)
           part == AddSlot(one, a, s)
<1>1. DOMAIN one.addresses = {a} /\ slotsOf(one, a) = {} /\ Contents(one) = {<<a>>} /\ ListOK(one)
  BY AccountTouched, NewListOK, WithAddress, Zenon
<1>2. AddSlot(NewAccessList, a, s) = part
  BY NewListOK, AddSlotAddsAddress, SMTT(30)
<1> HIDE DEF one
<1>3. ListOK(part) /\ DOMAIN part.addresses = {a} /\ slotsOf(part, a) = {s} /\ Contents(part) = {<<a>>, <<a, s>>}
  BY <1>1, AddSlotIs, AddedSlot, SMTT(30)
<1> HIDE DEF part
<1>4. part.addresses[a] # -1
  BY <1>3, PositionHasSlots, Zenon
<1> QED
  BY <1>2, <1>3, <1>4, Zenon

\* CombineTrueAccessList adds what an instruction touched.
LEMMA CombineTouched ==
    ASSUME NEW al, ListOK(al), NEW part, NEW a \in Address, DOMAIN part.addresses = {a},
           \/ slotsOf(part, a) = {} /\ Contents(part) = {<<a>>}
           \/ \E s \in Slot : slotsOf(part, a) = {s} /\ Contents(part) = {<<a>>, <<a, s>>}
    PROVE  LET bl == CombineTrueAccessList(al, part)
           IN  ListOK(bl) /\ Contents(bl) = Contents(al) \cup Contents(part)
<1> DEFINE one == AddAddress(al, a)
           bl == CombineTrueAccessList(al, part)
<1>1. bl = CombineAddress(al, part, a)
  BY CombineOneAddress, Zenon
<1>2. ListOK(one) /\ a \in DOMAIN one.addresses /\ Contents(one) = Contents(al) \cup {<<a>>}
  BY WithAddress, Zenon
<1>3. CASE slotsOf(part, a) = {} /\ Contents(part) = {<<a>>}
  <2>1. CombineAddress(al, part, a) = one
    BY <1>3, CombineNoSlot, Zenon
  <2> HIDE DEF bl, one
  <2> QED
    BY <1>1, <1>2, <1>3, <2>1, Zenon DEF bl
<1>4. CASE \E s \in Slot : slotsOf(part, a) = {s} /\ Contents(part) = {<<a>>, <<a, s>>}
  <2>1. PICK s \in Slot : slotsOf(part, a) = {s} /\ Contents(part) = {<<a>>, <<a, s>>}
    BY <1>4, Zenon
  <2>2. CombineAddress(al, part, a) = AddSlot(one, a, s)
    BY <2>1, CombineOneSlot, SMTT(30)
  <2> HIDE DEF bl, one
  <2>3. ListOK(AddSlot(one, a, s)) /\ Contents(AddSlot(one, a, s)) = Contents(one) \cup {<<a, s>>}
    BY <1>2, AddSlotIs, AddedSlot, SMTT(30)
  <2> QED
    BY <1>1, <1>2, <2>1, <2>2, <2>3, SMTT(30) DEF bl
<1> QED
  BY <1>3, <1>4, Zenon

\* A set of one element.
LEMMA CountOne ==
    ASSUME NEW s
    PROVE  Cardinality({s}) = 1
<1> DEFINE G(f) == [T \in SUBSET {s} |-> IF T = {} THEN 0 ELSE 1 + f[T \ {CHOOSE x : x \in T}]]
           g == [T \in SUBSET {s} |-> IF T = {} THEN 0 ELSE 1]
           h == CHOOSE f : f = G(f)
<1>1. \A T \in SUBSET {s} : T # {} => T = {s} /\ (CHOOSE x : x \in T) = s
  BY Zenon
<1>2. g = G(g)
  BY <1>1
<1>3. h = G(h)
  BY <1>2, Zenon
<1>4. Cardinality({s}) = h[{s}]
  BY Zenon DEF Cardinality
<1> HIDE DEF h
<1>5. h[{}] = 0 /\ (CHOOSE x : x \in {s}) = s
  BY <1>3, Zenon
<1>6. h[{s}] = 1
  BY <1>3, <1>5
<1> QED
  BY <1>4, <1>6, Zenon

\* ConflictDetection accepts an instruction that touches a listed address and
\* no slot, and no other.
LEMMA AcceptedIsListed ==
    ASSUME NEW user, ListOK(user), NEW part, NEW a \in Address, DOMAIN part.addresses = {a},
           \/ slotsOf(part, a) = {} /\ Contents(part) = {<<a>>}
           \/ part.addresses[a] # -1 /\ \E s \in Slot : slotsOf(part, a) = {s},
           "ok" \in ConflictDetection(part, user)
    PROVE  Contents(part) \subseteq Contents(user)
<1> DEFINE d == detectAddress(part, user, a)
<1>1. {detectAddress(part, user, x) : x \in DOMAIN part.addresses} = {d}
  BY Zenon
<1>2. ConflictDetection(part, user) = IF {d} \ {"ok"} = {} THEN {"ok"} ELSE {d} \ {"ok"}
  BY <1>1, Zenon DEF ConflictDetection
<1>3. d = "ok"
  BY <1>2, Zenon
<1>4. a \in DOMAIN user.addresses
  BY <1>3, Zenon DEF detectAddress, ContainsAddress
<1>5. ~(part.addresses[a] # -1 /\ \E s \in Slot : slotsOf(part, a) = {s})
  <2> SUFFICES ASSUME part.addresses[a] # -1, NEW s \in Slot, slotsOf(part, a) = {s} PROVE FALSE
    BY Zenon
  <2>1. user.addresses[a] # -1
    BY <1>3, <1>4, SMTT(30) DEF detectAddress, ContainsAddress
  <2>2. slotsOf(user, a) # {}
    BY <1>4, <2>1, PositionHasSlots, SMTT(30)
  <2>3. Cardinality(slotsOf(part, a)) = 1
    BY CountOne, Zenon
  <2>4. d = IF Cardinality(slotsOf(part, a)) # Cardinality(slotsOf(part, a)) + 1 THEN "conflict" ELSE "ok"
    BY <1>4, <2>1, <2>2, SMTT(30) DEF detectAddress, ContainsAddress
  <2>5. d = "conflict"
    BY <2>3, <2>4
  <2> QED
    BY <1>3, <2>5, SMTT(30)
<1>6. <<a>> \in Contents(user)
  BY <1>4, InContents, Zenon
<1> QED
  BY <1>5, <1>6, Zenon

\* The inductive invariant.
ListInv == /\ ListOK(list) /\ JournalOK(journal, list)
           /\ ListOK(total) /\ Contents(total) = seen
           /\ strayed = FALSE

\* It holds of two new lists.
LEMMA InitListInv == Init => ListInv
<1> SUFFICES ASSUME Init PROVE ListInv
  BY Zenon
<1>1. /\ list = NewAccessList /\ journal = <<>> /\ total = NewAccessList /\ seen = {} /\ strayed = FALSE
  BY Zenon DEF Init
<1>2. ListOK(NewAccessList) /\ Contents(NewAccessList) = {} /\ DOMAIN NewAccessList.addresses = {}
  BY NewListOK, Zenon
<1>3. Records(<<>>, {})
  BY DEF Records
<1>4. JournalOK(<<>>, NewAccessList)
  BY <1>2, <1>3, Zenon DEF JournalOK
<1> QED
  BY <1>1, <1>2, <1>4, Zenon DEF ListInv

\* An entry of the journal is an address or a slot.
LEMMA LastEntry ==
    ASSUME NEW J, NEW al, JournalOK(J, al), J # <<>>
    PROVE  \/ \E a : J[Len(J)] = <<a>>
           \/ \E a, s : J[Len(J)] = <<a, s>>
<1>1. J[Len(J)] \in Contents(al)
  BY PopRecords, Zenon DEF JournalOK
<1> QED
  BY <1>1, ElementKinds, SMTT(30)

\* Reverting the last entry.
RevertEntry(al, ch) == IF Len(ch) = 1 THEN DeleteAddress(al, ch[1]) ELSE DeleteSlot(al, ch[1], ch[2])

\* Undoing it removes that element and keeps the rest of the journal in order.
LEMMA StepRevert ==
    ASSUME NEW al, NEW J, ListOK(al), JournalOK(J, al), J # <<>>
    PROVE  LET bl == RevertEntry(al, J[Len(J)])
           IN  /\ ListOK(bl) /\ JournalOK(SubSeq(J, 1, Len(J) - 1), bl)
               /\ Contents(bl) = Contents(al) \ {J[Len(J)]}
<1>1. CASE \E a : J[Len(J)] = <<a>>
  <2>1. PICK a : J[Len(J)] = <<a>>
    BY <1>1, Zenon
  <2>2. Len(<<a>>) = 1 /\ <<a>>[1] = a
    BY Zenon
  <2>3. RevertEntry(al, J[Len(J)]) = DeleteAddress(al, a)
    BY <2>1, <2>2, Zenon DEF RevertEntry
  <2> QED
    BY <2>1, <2>3, JournalDeleteAddress
<1>2. CASE \E a, s : J[Len(J)] = <<a, s>>
  <2>1. PICK a, s : J[Len(J)] = <<a, s>>
    BY <1>2, Zenon
  <2>2. Len(<<a, s>>) = 2 /\ <<a, s>>[1] = a /\ <<a, s>>[2] = s
    BY Zenon
  <2>3. RevertEntry(al, J[Len(J)]) = DeleteSlot(al, a, s)
    BY <2>1, <2>2 DEF RevertEntry
  <2> QED
    BY <2>1, <2>3, JournalDeleteSlot, SMTT(30)
<1> QED
  BY <1>1, <1>2, LastEntry, Zenon

\* Every instruction's list is as CombineTouched and AcceptedIsListed expect.
LEMMA StepTouch ==
    ASSUME ListInv, Touch
    PROVE  ListInv'
<1>1. PICK op \in {"storage", "account"}, self \in Address :
         \E top \in IF op = "storage" THEN Slot ELSE Address :
          LET part == GetTrueAccessList(op, self, top)
          IN /\ strayed' = (strayed \/ ("ok" \in ConflictDetection(part, list)
                                        /\ ~(Contents(part) \subseteq Contents(list))))
             /\ total' = CombineTrueAccessList(total, part)
             /\ seen' = seen \cup Contents(part)
  BY Zenon DEF Touch
<1>2. PICK top \in IF op = "storage" THEN Slot ELSE Address :
          LET part == GetTrueAccessList(op, self, top)
          IN /\ strayed' = (strayed \/ ("ok" \in ConflictDetection(part, list)
                                        /\ ~(Contents(part) \subseteq Contents(list))))
             /\ total' = CombineTrueAccessList(total, part)
             /\ seen' = seen \cup Contents(part)
  BY <1>1, Zenon
<1> DEFINE part == GetTrueAccessList(op, self, top)
           Touched(a) ==
              /\ DOMAIN part.addresses = {a}
              /\ \/ slotsOf(part, a) = {} /\ Contents(part) = {<<a>>}
                 \/ /\ part.addresses[a] # -1
                    /\ \E s \in Slot : slotsOf(part, a) = {s} /\ Contents(part) = {<<a>>, <<a, s>>}
<1>3. \E a \in Address : Touched(a)
  <2>1. CASE op = "storage"
    <3>1. top \in Slot /\ part = AddSlot(NewAccessList, self, top)
      BY <2>1, Zenon DEF GetTrueAccessList
    <3> HIDE DEF part
    <3>2. Touched(self)
      BY <3>1, SlotTouched, SMTT(30)
    <3> QED
      BY <3>2, Zenon
  <2>2. CASE op = "account"
    <3>1. top \in Address /\ part = AddAddress(NewAccessList, top)
      BY <2>2, Zenon DEF GetTrueAccessList
    <3> HIDE DEF part
    <3>2. Touched(top)
      BY <3>1, AccountTouched, Zenon
    <3> QED
      BY <3>1, <3>2, Zenon
  <2> QED
    BY <2>1, <2>2, SMTT(30)
<1>4. /\ strayed' = (strayed \/ ("ok" \in ConflictDetection(part, list)
                                /\ ~(Contents(part) \subseteq Contents(list))))
      /\ total' = CombineTrueAccessList(total, part)
      /\ seen' = seen \cup Contents(part)
      /\ list' = list /\ journal' = journal
  BY <1>2, Zenon DEF Touch
<1> HIDE DEF part
<1>5. PICK a \in Address : Touched(a)
  BY <1>3, SMTT(30)
<1>6. ListOK(CombineTrueAccessList(total, part))
      /\ Contents(CombineTrueAccessList(total, part)) = Contents(total) \cup Contents(part)
  BY <1>5, CombineTouched, SMTT(30) DEF ListInv
<1>7. "ok" \in ConflictDetection(part, list) => Contents(part) \subseteq Contents(list)
  BY <1>5, AcceptedIsListed, Zenon DEF ListInv
<1> QED
  BY <1>4, <1>6, <1>7, ZenonT(40) DEF ListInv

\* Every step keeps the invariant, and the addition or the revert it makes is
\* one of the set's.
LEMMA NextListInv ==
    ASSUME ListInv, [Next]_vars
    PROVE  ListInv' /\ [Abstract!SNext]_<<Contents(list), journal>>
<1>0. ListOK(list) /\ JournalOK(journal, list) /\ \A x : entry(x) = EntryOf(list, x)
  BY Zenon DEF ListInv, entry, EntryOf
<1>1. CASE AddAddressToAccessList
  <2>1. PICK a \in Address : list' = AddAddress(list, a) /\ journal' = journal \o entry(<<a>>)
    BY <1>1, Zenon DEF AddAddressToAccessList
  <2>2. UNCHANGED <<total, seen, strayed>>
    BY <1>1, Zenon DEF AddAddressToAccessList
  <2>3. /\ ListOK(list') /\ Contents(list') = Contents(list) \cup {<<a>>}
        /\ JournalOK(journal', list')
    BY <1>0, <2>1, WithAddress, StepAddress, SMTT(30)
  <2>4. ListInv'
    BY <2>2, <2>3, Zenon DEF ListInv
  <2>5. Abstract!SAddAddress(a)
    BY <2>1, <2>3, Zenon DEF Abstract!SAddAddress, Abstract!new, entry
  <2> QED
    BY <2>4, <2>5, Zenon DEF Abstract!SNext
<1>2. CASE AddSlotToAccessList
  <2>1. PICK a \in Address, s \in Slot : /\ list' = AddSlot(list, a, s)
                                         /\ journal' = journal \o entry(<<a>>) \o entry(<<a, s>>)
    BY <1>2, Zenon DEF AddSlotToAccessList
  <2>2. UNCHANGED <<total, seen, strayed>>
    BY <1>2, Zenon DEF AddSlotToAccessList
  <2>3. /\ ListOK(list') /\ Contents(list') = Contents(list) \cup {<<a>>, <<a, s>>}
        /\ JournalOK(journal', list')
    BY <1>0, <2>1, WithSlot, StepSlot
  <2>4. ListInv'
    BY <2>2, <2>3, Zenon DEF ListInv
  <2>5. Abstract!SAddSlot(a, s)
    BY <2>1, <2>3, Zenon DEF Abstract!SAddSlot, Abstract!new, entry
  <2> QED
    BY <2>4, <2>5, SMTT(30) DEF Abstract!SNext
<1>3. CASE Revert
  <2>1. /\ journal # <<>> /\ list' = RevertEntry(list, journal[Len(journal)])
        /\ journal' = SubSeq(journal, 1, Len(journal) - 1)
        /\ UNCHANGED <<total, seen, strayed>>
    BY <1>3, Zenon DEF Revert, RevertEntry
  <2>2. /\ ListOK(list') /\ JournalOK(journal', list')
        /\ Contents(list') = Contents(list) \ {journal[Len(journal)]}
    BY <1>0, <2>1, StepRevert, SMTT(30)
  <2>3. ListInv'
    BY <2>1, <2>2, Zenon DEF ListInv
  <2>4. Abstract!SUndo
    BY <2>1, <2>2, Zenon DEF Abstract!SUndo
  <2> QED
    BY <2>3, <2>4, Zenon DEF Abstract!SNext
<1>4. CASE Touch
  <2>1. ListInv'
    BY <1>4, StepTouch, Zenon
  <2>2. list' = list /\ journal' = journal
    BY <1>4, Zenon DEF Touch
  <2>3. UNCHANGED <<Contents(list), journal>>
    BY <2>2 DEF Contents, slotsOf
  <2> QED
    BY <2>1, <2>3, Zenon
<1>5. CASE UNCHANGED vars
  <2>1. list' = list /\ journal' = journal /\ UNCHANGED <<total, seen, strayed>>
    BY <1>5, Zenon DEF vars
  <2>2. UNCHANGED <<Contents(list), journal>>
    BY <2>1 DEF Contents, slotsOf
  <2>3. ListInv'
    BY <2>1, Zenon DEF ListInv
  <2> QED
    BY <2>2, <2>3, Zenon
<1> QED
  BY <1>1, <1>2, <1>3, <1>4, <1>5, SMTT(30) DEF Next

(***************************************************************************)
(* For any addresses and slots and any number of entries and instructions: *)
(* both lists stay well indexed, TrueAccessList holds exactly what was     *)
(* touched, and ConflictDetection accepts nothing that is not listed.      *)
(***************************************************************************)
THEOREM ListsStaySound == Spec => []ListsSound
<1>1. ListInv => ListsSound
  BY Zenon DEF ListInv, ListsSound, ListOK
<1>2. ListInv /\ [Next]_vars => ListInv'
  BY NextListInv, Zenon
<1> QED
  BY <1>1, <1>2, InitListInv, PTL DEF Spec

(***************************************************************************)
(* The journaled list (AddAddressToAccessList, AddSlotToAccessList and the *)
(* two reverts of journal.go) implements the journaled set.                *)
(***************************************************************************)
THEOREM ListImplementsSet == Spec => ImplementsAccessSet
<1>1. Init => Abstract!SInit
  BY NewListOK, Zenon DEF Init, Abstract!SInit
<1>2. ListInv /\ [Next]_vars => ListInv'
  BY NextListInv, Zenon
<1>3. ListInv /\ [Next]_vars => [Abstract!SNext]_<<Contents(list), journal>>
  BY NextListInv, Zenon
<1> QED
  BY <1>1, <1>2, <1>3, InitListInv, PTL DEF Spec, ImplementsAccessSet, Abstract!SSpec
=============================================================================
