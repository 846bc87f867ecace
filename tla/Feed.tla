-------------------------------- MODULE Feed --------------------------------
(***************************************************************************)
(* event.Feed (src/event/feed.go): a one-to-many event feed.  Senders take *)
(* the one-slot channel sendLock, merge the inbox of new subscriptions     *)
(* into sendCases, and deliver the value to every case of sendCases, first *)
(* by non-blocking attempts and then by a reflect.Select that also listens *)
(* on removeSub, the channel through which Unsubscribe interrupts a Send.  *)
(*                                                                         *)
(* sendCases is kept as a sequence, as in the code: during a Send its      *)
(* first `active` elements are the slice `cases` of channels that have not *)
(* received the value yet, and deactivate/delete move elements by index.   *)
(* The element sendCases[0] (the removeSub receive case) is implicit, so   *)
(* indices here start at 1 = firstSubSendCase.                             *)
(*                                                                         *)
(* A channel is abstracted to `room`, the number of values it can accept   *)
(* right now: free buffer slots, or 1 for an unbuffered channel whose      *)
(* reader is waiting.                                                      *)
(***************************************************************************)
EXTENDS Integers, Sequences, TLAPS

CONSTANTS Sender,    \* goroutines that call Send
          Chan,      \* channels, each subscribed at most once
          MaxSend,   \* number of Send calls each sender makes
          Buffer     \* what an idle channel can accept at most

NoOne == "noone"

ASSUME FeedAssumption == MaxSend \in Nat /\ Buffer \in Nat \ {0} /\ NoOne \notin Sender

VARIABLES pc,        \* per sender: where it is in Send
          count,     \* per sender: how many Sends it has started
          idx,       \* the loop variable i of the fast path
          lock,      \* holder of sendLock: a sender, or NoOne
          inbox,     \* f.inbox
          sendCases, \* f.sendCases without the removeSub case
          active,    \* len(cases) - 1 while a Send is in progress
          sub,       \* per channel: state of its subscription
          room,      \* per channel: values it can accept now
          got,       \* per channel: the values delivered to it, in order
          owed       \* history: channels subscribed when the Send was called

vars == <<pc, count, idx, lock, inbox, sendCases, active, sub, room, got, owed>>

Value == Sender \X (1..MaxSend)
Current(s) == <<s, count[s]>>

Init ==
    /\ pc = [s \in Sender |-> "idle"]
    /\ count = [s \in Sender |-> 0]
    /\ idx = 1
    /\ lock = NoOne
    /\ inbox = <<>>
    /\ sendCases = <<>>
    /\ active = 0
    /\ sub = [c \in Chan |-> "none"]
    /\ room \in [Chan -> {0, Buffer}]
    /\ got = [c \in Chan |-> <<>>]
    /\ owed = [s \in Sender |-> {}]

-----------------------------------------------------------------------------
(* caseList *)

Has(cs, c) == \E i \in DOMAIN cs : cs[i] = c

find(cs, c) == IF Has(cs, c) THEN CHOOSE i \in DOMAIN cs : cs[i] = c ELSE 0

delete(cs, i) == SubSeq(cs, 1, i - 1) \o SubSeq(cs, i + 1, Len(cs))

\* Mutant: the case is not moved.
deactivateNot(cs, i) == cs

\* Swap case i with the last active one; the caller then shrinks `active`.
deactivate(cs, i) == [cs EXCEPT ![i] = cs[active], ![active] = cs[i]]

-----------------------------------------------------------------------------
(* Subscriptions *)

Subscribe(c) ==
    /\ sub[c] = "none"
    /\ inbox' = Append(inbox, c)
    /\ sub' = [sub EXCEPT ![c] = "active"]
    /\ UNCHANGED <<pc, count, idx, lock, sendCases, active, room, got, owed>>

\* Mutant: sendCases is not searched.
UnsubscribeInboxOnly(c) ==
    /\ sub[c] = "active"
    /\ inbox' = SelectSeq(inbox, LAMBDA d : d # c)
    /\ sub' = [sub EXCEPT ![c] = "closed"]
    /\ owed' = [s \in Sender |-> owed[s] \ {c}]
    /\ UNCHANGED <<pc, count, idx, lock, sendCases, active, room, got>>

\* remove, first part: under f.mu, take the channel out of the inbox.
UnsubscribeInbox(c) ==
    /\ sub[c] = "active"
    /\ IF find(inbox, c) # 0
       THEN /\ inbox' = delete(inbox, find(inbox, c))
            /\ sub' = [sub EXCEPT ![c] = "closed"]
       ELSE /\ sub' = [sub EXCEPT ![c] = "removing"]
            /\ UNCHANGED inbox
    /\ owed' = [s \in Sender |-> owed[s] \ {c}]
    /\ UNCHANGED <<pc, count, idx, lock, sendCases, active, room, got>>

\* remove, second part, when sendLock could be taken.
UnsubscribeLocked(c) ==
    /\ sub[c] = "removing"
    /\ lock = NoOne
    /\ sendCases' = delete(sendCases, find(sendCases, c))
    /\ sub' = [sub EXCEPT ![c] = "closed"]
    /\ UNCHANGED <<pc, count, idx, lock, inbox, active, room, got, owed>>

\* Mutant: the case after removeSub is deleted, not the one of the channel.
UnsubscribeFirst(s, c) ==
    /\ sub[c] = "removing"
    /\ pc[s] = "select"
    /\ sendCases' = delete(sendCases, 1)
    /\ active' = active - 1
    /\ sub' = [sub EXCEPT ![c] = "closed"]
    /\ pc' = [pc EXCEPT ![s] = "fast"]
    /\ idx' = 1
    /\ UNCHANGED <<count, lock, inbox, room, got, owed>>

\* remove, second part, when a Send in its Select receives from removeSub.
UnsubscribeDuringSend(s, c) ==
    /\ sub[c] = "removing"
    /\ pc[s] = "select"
    /\ LET index == find(sendCases, c)
       IN  /\ sendCases' = delete(sendCases, index)
           /\ active' = IF index <= active THEN active - 1 ELSE active
    /\ sub' = [sub EXCEPT ![c] = "closed"]
    /\ pc' = [pc EXCEPT ![s] = "fast"]
    /\ idx' = 1
    /\ UNCHANGED <<count, lock, inbox, room, got, owed>>

\* The reader of a channel takes a value, or gets ready to take the next one.
Receive(c) ==
    /\ room[c] < Buffer
    /\ room' = [room EXCEPT ![c] = @ + 1]
    /\ UNCHANGED <<pc, count, idx, lock, inbox, sendCases, active, sub, got, owed>>

-----------------------------------------------------------------------------
(* Send *)

SendCall(s) ==
    /\ pc[s] = "idle"
    /\ count[s] < MaxSend
    /\ count' = [count EXCEPT ![s] = @ + 1]
    /\ pc' = [pc EXCEPT ![s] = "lock"]
    /\ owed' = [owed EXCEPT ![s] = {c \in Chan : sub[c] = "active"}]
    /\ UNCHANGED <<idx, lock, inbox, sendCases, active, sub, room, got>>

SendLock(s) ==
    /\ pc[s] = "lock"
    /\ lock = NoOne
    /\ lock' = s
    /\ pc' = [pc EXCEPT ![s] = "merge"]
    /\ UNCHANGED <<count, idx, inbox, sendCases, active, sub, room, got, owed>>

SendMerge(s) ==
    /\ pc[s] = "merge"
    /\ sendCases' = sendCases \o inbox
    /\ inbox' = <<>>
    /\ active' = Len(sendCases')
    /\ idx' = 1
    /\ pc' = [pc EXCEPT ![s] = "fast"]
    /\ UNCHANGED <<count, lock, sub, room, got, owed>>

Deliver(s, i) ==
    /\ got' = [got EXCEPT ![sendCases[i]] = Append(@, Current(s))]
    /\ room' = [room EXCEPT ![sendCases[i]] = @ - 1]
    /\ sendCases' = deactivate(sendCases, i)
    /\ active' = active - 1

\* One TrySend of the fast path.
TrySend(s) ==
    /\ pc[s] = "fast"
    /\ idx <= active
    /\ \/ /\ room[sendCases[idx]] > 0
          /\ Deliver(s, idx)
          /\ UNCHANGED idx
       \/ /\ room[sendCases[idx]] = 0
          /\ idx' = idx + 1
          /\ UNCHANGED <<got, room, sendCases, active>>
    /\ UNCHANGED <<pc, count, lock, inbox, sub, owed>>

\* The fast path is over: return when every case was served, else Select.
FastPathDone(s) ==
    /\ pc[s] = "fast"
    /\ idx > active
    /\ pc' = [pc EXCEPT ![s] = IF active = 0 THEN "unlock" ELSE "select"]
    /\ UNCHANGED <<count, idx, lock, inbox, sendCases, active, sub, room, got, owed>>

SelectSend(s) ==
    /\ pc[s] = "select"
    /\ \E i \in 1..active : room[sendCases[i]] > 0 /\ Deliver(s, i)
    /\ pc' = [pc EXCEPT ![s] = "fast"]
    /\ idx' = 1
    /\ UNCHANGED <<count, lock, inbox, sub, owed>>

\* Mutant: sendLock is not given back.
SendKeepsLock(s) ==
    /\ pc[s] = "unlock"
    /\ pc' = [pc EXCEPT ![s] = "idle"]
    /\ UNCHANGED <<lock, count, idx, inbox, sendCases, active, sub, room, got, owed>>

SendUnlock(s) ==
    /\ pc[s] = "unlock"
    /\ lock' = NoOne
    /\ pc' = [pc EXCEPT ![s] = "idle"]
    /\ UNCHANGED <<count, idx, inbox, sendCases, active, sub, room, got, owed>>

-----------------------------------------------------------------------------
SendStep(s) == SendLock(s) \/ SendMerge(s) \/ TrySend(s) \/ FastPathDone(s) \/ SelectSend(s) \/ SendUnlock(s)

RemoveStep(c) == UnsubscribeLocked(c) \/ \E s \in Sender : UnsubscribeDuringSend(s, c)

\* All Sends made and no Unsubscribe under way: nothing is left to do.
Terminated ==
    /\ \A s \in Sender : pc[s] = "idle" /\ count[s] = MaxSend
    /\ \A c \in Chan : sub[c] = "closed" /\ room[c] = Buffer
    /\ UNCHANGED vars

Next ==
    \/ \E s \in Sender : SendCall(s) \/ SendStep(s)
    \/ \E c \in Chan : Subscribe(c) \/ UnsubscribeInbox(c) \/ RemoveStep(c) \/ Receive(c)
    \/ Terminated

Spec == Init /\ [][Next]_vars

(***************************************************************************)
(* Fairness.  Goroutines inside Send and inside remove keep running (the   *)
(* Go scheduler); the sendLock channel serves its waiters in FIFO order,   *)
(* hence the strong fairness of those that compete for it.  A reader keeps *)
(* reading only while it is subscribed: a reader that called Unsubscribe   *)
(* never reads again, as the loops of this repository do.                  *)
(***************************************************************************)
Fairness ==
    /\ \A s \in Sender : WF_vars(SendStep(s)) /\ SF_vars(SendLock(s))
    /\ \A c \in Chan : SF_vars(RemoveStep(c))
    /\ \A c \in Chan : WF_vars(sub[c] = "active" /\ Receive(c))

FairSpec == Spec /\ Fairness

-----------------------------------------------------------------------------
\* Types; the slice `cases` of a Send never reaches beyond sendCases.
TypeOK ==
    /\ pc \in [Sender -> {"idle", "lock", "merge", "fast", "select", "unlock"}]
    /\ count \in [Sender -> 0..MaxSend]
    /\ idx \in Nat \ {0}
    /\ lock \in Sender \cup {NoOne}
    /\ inbox \in Seq(Chan) /\ sendCases \in Seq(Chan)
    /\ active \in 0..Len(sendCases)
    /\ sub \in [Chan -> {"none", "active", "removing", "closed"}]
    /\ room \in [Chan -> 0..Buffer]
    /\ got \in [Chan -> Seq(Value)]
    /\ owed \in [Sender -> SUBSET Chan]

\* A channel whose Unsubscribe reached the second part of remove is in
\* sendCases, exactly once, so that find never yields -1 and delete never
\* slices out of range, whichever Sends ran since the inbox was looked at.
RemovalFindsCase ==
    \A c \in Chan : sub[c] = "removing" =>
        \E i \in DOMAIN sendCases : sendCases[i] = c /\ \A j \in DOMAIN sendCases : sendCases[j] = c => j = i

Once(cs) == \A i, j \in DOMAIN cs : cs[i] = cs[j] => i = j

\* No channel gets the same value twice, although deactivate and delete
\* reorder sendCases while the value is being delivered.
NoDuplicates == \A c \in Chan : Once(got[c])

\* A Send that returns has delivered its value to every channel that was
\* subscribed when it was called and did not start to unsubscribe since.
SendReachesAll ==
    \A s \in Sender : pc[s] \in {"idle", "unlock"} =>
        \A c \in owed[s] : Has(got[c], Current(s))

\* Two channels see the values they both get in the same order.
SameOrder ==
    \A c, d \in Chan : \A i, j \in DOMAIN got[c] : \A k, l \in DOMAIN got[d] :
        (got[c][i] = got[d][k] /\ got[c][j] = got[d][l] /\ i < j) => k < l

\* Once Unsubscribe has returned nothing is delivered to the channel.
SilentAfterUnsubscribe ==
    [][\A c \in Chan : sub[c] = "closed" => got'[c] = got[c]]_vars

\* Every Send returns: a slow reader delays it, one that unsubscribes
\* without reading again does not block it for ever.
SendReturns == \A s \in Sender : pc[s] # "idle" ~> pc[s] = "idle"

\* Every Unsubscribe returns, even while Sends are blocked on other readers.
UnsubscribeReturns == \A c \in Chan : sub[c] = "removing" ~> sub[c] = "closed"

(* The value of a Send reaches every channel it owes it to, once, and two
   channels see what they both get in the same order. *)
Delivered == TypeOK /\ SendReachesAll /\ NoDuplicates /\ SameOrder

-----------------------------------------------------------------------------
(* Why the feed delivers: the inductive invariant FeedInv, for any number of
   senders, channels and Sends. *)

\* sendLock is held from the merge to the unlock, and the slice `cases` is
\* empty outside the delivery.
LockOK ==
    /\ \A s \in Sender : lock = s <=> pc[s] \in {"merge", "fast", "select", "unlock"}
    /\ active # 0 => \E s \in Sender : pc[s] \in {"fast", "select"}
    /\ \A s \in Sender : pc[s] # "idle" => count[s] >= 1

\* A channel is in the inbox or in sendCases, at one place, while its
\* subscription is there, and nowhere before and after.
PlacedOK ==
    /\ Once(inbox) /\ Once(sendCases)
    /\ \A c \in Chan :
         /\ sub[c] \in {"none", "closed"} => ~Has(inbox, c) /\ ~Has(sendCases, c)
         /\ sub[c] = "active" => (Has(inbox, c) <=> ~Has(sendCases, c))
         /\ sub[c] = "removing" => ~Has(inbox, c) /\ Has(sendCases, c)

\* What a channel holds of the Sends: nothing of a Send that is still waiting
\* for its turn; the value that is being delivered is the last one of a
\* channel that has it, and the active cases do not have it yet.
GotOK ==
    /\ \A c \in Chan, s \in Sender : \A i \in DOMAIN got[c] : \A n \in 1..MaxSend :
         got[c][i] = <<s, n>> => n <= count[s] /\ (pc[s] \in {"lock", "merge"} => n < count[s])
    /\ \A s \in Sender : pc[s] \in {"fast", "select"} =>
         /\ \A j \in 1..active : ~Has(got[sendCases[j]], Current(s))
         /\ \A c \in Chan : Has(got[c], Current(s)) => got[c][Len(got[c])] = Current(s)

\* A Send owes its value to channels that are subscribed; it is ahead of the
\* channel, under way or delivered.
OwedOK ==
    \A s \in Sender : \A c \in owed[s] :
        /\ sub[c] = "active"
        /\ pc[s] \in {"fast", "select"} => Has(got[c], Current(s)) \/ \E j \in 1..active : sendCases[j] = c
        /\ pc[s] \in {"idle", "unlock"} => Has(got[c], Current(s))

FeedInv == TypeOK /\ LockOK /\ PlacedOK /\ GotOK /\ OwedOK /\ NoDuplicates /\ SameOrder

\* find yields the place of a case that is there.
LEMMA FindHas ==
  ASSUME NEW cs, NEW c, Has(cs, c)
  PROVE  find(cs, c) \in DOMAIN cs /\ cs[find(cs, c)] = c
  BY Zenon DEF find, Has

\* The elements of a concatenation.
LEMMA Elements ==
  ASSUME NEW cs \in Seq(Chan), NEW ds \in Seq(Chan)
  PROVE  /\ cs \o ds \in Seq(Chan) /\ Len(cs \o ds) = Len(cs) + Len(ds)
         /\ \A i \in 1..Len(cs) + Len(ds) : (cs \o ds)[i] = IF i <= Len(cs) THEN cs[i] ELSE ds[i - Len(cs)]
  OBVIOUS

\* delete keeps the other cases, in their order.
LEMMA DeleteCases ==
  ASSUME NEW cs \in Seq(Chan), NEW k \in DOMAIN cs
  PROVE  /\ delete(cs, k) \in Seq(Chan)
         /\ Len(delete(cs, k)) = Len(cs) - 1
         /\ \A i \in 1..Len(cs) - 1 : delete(cs, k)[i] = IF i < k THEN cs[i] ELSE cs[i + 1]
<1>1. SubSeq(cs, 1, k - 1) \in Seq(Chan) /\ Len(SubSeq(cs, 1, k - 1)) = k - 1
  OBVIOUS
<1>2. SubSeq(cs, k + 1, Len(cs)) \in Seq(Chan) /\ Len(SubSeq(cs, k + 1, Len(cs))) = Len(cs) - k
  OBVIOUS
<1>3. \A i \in 1..k - 1 : SubSeq(cs, 1, k - 1)[i] = cs[i]
  OBVIOUS
<1>4. \A i \in 1..Len(cs) - k : SubSeq(cs, k + 1, Len(cs))[i] = cs[i + k]
  OBVIOUS
<1> DEFINE a == SubSeq(cs, 1, k - 1)
           b == SubSeq(cs, k + 1, Len(cs))
<1>7. a \in Seq(Chan) /\ Len(a) = k - 1 /\ b \in Seq(Chan) /\ Len(b) = Len(cs) - k
  BY <1>1, <1>2, Zenon
<1>8. k \in Nat /\ Len(cs) \in Nat /\ k >= 1 /\ k <= Len(cs)
  OBVIOUS
<1> HIDE DEF a, b
<1>5. a \o b \in Seq(Chan) /\ Len(a \o b) = Len(cs) - 1
  <2>1. a \o b \in Seq(Chan) /\ Len(a \o b) = Len(a) + Len(b)
    BY <1>7, Elements, Zenon
  <2> QED
    BY <1>7, <1>8, <2>1
<1>6. ASSUME NEW i \in 1..Len(cs) - 1 PROVE (a \o b)[i] = IF i < k THEN cs[i] ELSE cs[i + 1]
  <2>1. CASE i < k
    <3>1. i \in 1..k - 1
      BY <2>1
    <3>2. (a \o b)[i] = a[i]
      BY <1>7, <3>1
    <3> QED
      BY <1>3, <2>1, <3>1, <3>2, Zenon DEF a
  <2>2. CASE ~(i < k)
    <3>1. i - (k - 1) \in 1..Len(cs) - k /\ i - (k - 1) + k = i + 1
      BY <2>2
    <3>4. i \in 1 .. Len(a) + Len(b) /\ ~(i <= Len(a)) /\ i - Len(a) = i - (k - 1)
      BY <1>7, <1>8, <2>2
    <3>2. (a \o b)[i] = b[i - (k - 1)]
      <4>1. a \in Seq(Chan) /\ b \in Seq(Chan)
        BY <1>7, Zenon
      <4>2. (a \o b)[i] = IF i <= Len(a) THEN a[i] ELSE b[i - Len(a)]
        BY <3>4, <4>1, Elements, Zenon
      <4> QED
        BY <3>4, <4>2, Zenon
    <3>3. b[i - (k - 1)] = cs[i - (k - 1) + k]
      BY <1>4, <3>1, Zenon DEF b
    <3> QED
      BY <2>2, <3>1, <3>2, <3>3, Zenon
  <2> QED
    BY <2>1, <2>2, Zenon
<1> QED
  BY <1>5, <1>6, Zenon DEF delete, a, b

\* After delete of its place a channel that was there once is gone, and the
\* others stay.
LEMMA DeleteFound ==
  ASSUME NEW cs \in Seq(Chan), Once(cs), NEW c \in Chan, Has(cs, c)
  PROVE  LET ds == delete(cs, find(cs, c))
         IN  /\ ds \in Seq(Chan) /\ Len(ds) = Len(cs) - 1
             /\ Once(ds) /\ ~Has(ds, c)
             /\ \A d \in Chan : d # c => (Has(ds, d) <=> Has(cs, d))
<1> DEFINE k == find(cs, c)
           ds == delete(cs, k)
<1>1. k \in DOMAIN cs /\ cs[k] = c
  BY FindHas, Zenon
<1> HIDE DEF k
<1>2. ds \in Seq(Chan) /\ Len(ds) = Len(cs) - 1 /\ \A i \in 1..Len(cs) - 1 : ds[i] = IF i < k THEN cs[i] ELSE cs[i + 1]
  BY <1>1, DeleteCases, Zenon
<1> HIDE DEF ds
<1>3. Once(ds)
  <2> SUFFICES ASSUME NEW i \in 1..Len(cs) - 1, NEW j \in 1..Len(cs) - 1, ds[i] = ds[j] PROVE i = j
    BY <1>2 DEF Once
  <2>1. i \in DOMAIN cs /\ j \in DOMAIN cs /\ i + 1 \in DOMAIN cs /\ j + 1 \in DOMAIN cs
    BY <1>1
  <2> QED
    BY <1>1, <1>2, <2>1, SMTT(30) DEF Once
<1>4. ~Has(ds, c)
  BY <1>1, <1>2 DEF Once, Has
<1>5. ASSUME NEW d \in Chan, d # c, Has(ds, d) PROVE Has(cs, d)
  BY <1>1, <1>2, <1>5 DEF Has
<1>6. ASSUME NEW d \in Chan, d # c, Has(cs, d) PROVE Has(ds, d)
  <2>1. PICK i \in DOMAIN cs : cs[i] = d
    BY <1>6, Zenon DEF Has
  <2>2. CASE i < k
    BY <1>1, <1>2, <2>1, <2>2 DEF Has
  <2>3. CASE i > k
    <3>1. i - 1 \in 1..Len(cs) - 1 /\ ds[i - 1] = cs[i]
      BY <1>1, <1>2, <2>1, <2>3
    <3> QED
      BY <1>2, <2>1, <3>1 DEF Has
  <2> QED
    BY <1>1, <1>6, <2>1, <2>2, <2>3
<1> QED
  BY <1>2, <1>3, <1>4, <1>5, <1>6, Zenon DEF k, ds

\* deactivate only moves cases.
LEMMA DeactivateCases ==
  ASSUME NEW cs \in Seq(Chan), Once(cs), active \in 1..Len(cs), NEW k \in 1..active
  PROVE  /\ deactivate(cs, k) \in Seq(Chan) /\ Len(deactivate(cs, k)) = Len(cs) /\ Once(deactivate(cs, k))
         /\ deactivate(cs, k)[k] = cs[active] /\ deactivate(cs, k)[active] = cs[k]
         /\ \A i \in DOMAIN cs \ {k, active} : deactivate(cs, k)[i] = cs[i]
         /\ \A c \in Chan : Has(deactivate(cs, k), c) <=> Has(cs, c)
<1> DEFINE ds == deactivate(cs, k)
<1>1. ds \in Seq(Chan) /\ Len(ds) = Len(cs)
  BY DEF deactivate
<1>2. ds[k] = cs[active] /\ ds[active] = cs[k] /\ \A i \in DOMAIN cs \ {k, active} : ds[i] = cs[i]
  BY DEF deactivate
<1> HIDE DEF ds
<1>3. Once(ds)
  BY <1>1, <1>2 DEF Once
<1>4. \A c \in Chan : Has(ds, c) <=> Has(cs, c)
  <2>1. ASSUME NEW i \in DOMAIN ds PROVE \E j \in DOMAIN cs : cs[j] = ds[i]
    <3>1. CASE i \in {k, active}
      BY <1>1, <1>2, <3>1
    <3>2. CASE i \notin {k, active}
      BY <1>1, <1>2, <3>2
    <3> QED
      BY <3>1, <3>2, Zenon
  <2>2. ASSUME NEW i \in DOMAIN cs PROVE \E j \in DOMAIN ds : ds[j] = cs[i]
    <3>1. CASE i = k
      BY <1>1, <1>2, <3>1
    <3>2. CASE i = active
      BY <1>1, <1>2, <3>2
    <3>3. CASE i \notin {k, active}
      BY <1>1, <1>2, <3>3
    <3> QED
      BY <3>1, <3>2, <3>3, Zenon
  <2> QED
    BY <2>1, <2>2, Zenon DEF Has
<1> QED
  BY <1>1, <1>2, <1>3, <1>4, Zenon DEF ds

\* What Append and concatenation hold.
LEMMA HasAppend ==
  ASSUME NEW S, NEW cs \in Seq(S), NEW c \in S, NEW d
  PROVE  Has(Append(cs, c), d) <=> Has(cs, d) \/ d = c
<1>1. Append(cs, c) \in Seq(S) /\ Len(Append(cs, c)) = Len(cs) + 1 /\ Append(cs, c)[Len(cs) + 1] = c
      /\ \A i \in 1..Len(cs) : Append(cs, c)[i] = cs[i]
  OBVIOUS
<1>2. Len(cs) \in Nat /\ DOMAIN cs = 1..Len(cs) /\ DOMAIN Append(cs, c) = 1..Len(cs) + 1
  OBVIOUS
<1>3. ASSUME Has(Append(cs, c), d) PROVE Has(cs, d) \/ d = c
  <2>1. PICK i \in 1..Len(cs) + 1 : Append(cs, c)[i] = d
    BY <1>2, <1>3, Zenon DEF Has
  <2> QED
    BY <1>1, <1>2, <2>1 DEF Has
<1>4. ASSUME Has(cs, d) PROVE Has(Append(cs, c), d)
  BY <1>1, <1>2, <1>4 DEF Has
<1>5. Has(Append(cs, c), c)
  BY <1>1, <1>2 DEF Has
<1> QED
  BY <1>3, <1>4, <1>5, Zenon

LEMMA OnceAppend ==
  ASSUME NEW S, NEW cs \in Seq(S), NEW c \in S, Once(cs), ~Has(cs, c)
  PROVE  Once(Append(cs, c))
<1>1. Len(cs) \in Nat /\ DOMAIN cs = 1..Len(cs) /\ DOMAIN Append(cs, c) = 1..Len(cs) + 1
  OBVIOUS
<1>2. Append(cs, c)[Len(cs) + 1] = c /\ \A i \in 1..Len(cs) : Append(cs, c)[i] = cs[i]
  OBVIOUS
<1>3. \A i \in 1..Len(cs) : cs[i] # c
  BY <1>1, Zenon DEF Has
<1> QED
  BY <1>1, <1>2, <1>3 DEF Once

LEMMA Concatenate ==
  ASSUME NEW cs \in Seq(Chan), NEW ds \in Seq(Chan), Once(cs), Once(ds),
         \A c \in Chan : ~(Has(cs, c) /\ Has(ds, c))
  PROVE  /\ cs \o ds \in Seq(Chan) /\ Once(cs \o ds)
         /\ \A c \in Chan : Has(cs \o ds, c) <=> Has(cs, c) \/ Has(ds, c)
<1> DEFINE es == cs \o ds
<1>1. es \in Seq(Chan) /\ Len(es) = Len(cs) + Len(ds) /\ Len(cs) \in Nat /\ Len(ds) \in Nat
  OBVIOUS
<1>2. \A i \in 1..Len(es) : es[i] = IF i <= Len(cs) THEN cs[i] ELSE ds[i - Len(cs)]
  OBVIOUS
<1>3. DOMAIN cs = 1..Len(cs) /\ DOMAIN ds = 1..Len(ds) /\ DOMAIN es = 1..Len(es)
  BY <1>1
<1>4. \A i \in 1..Len(cs) : cs[i] \in Chan
  BY <1>3
<1> HIDE DEF es
<1>5. \A i \in 1..Len(cs), j \in 1..Len(ds) : cs[i] # ds[j]
  BY <1>3, <1>4, Zenon DEF Has
<1>6. Once(es)
  <2> SUFFICES ASSUME NEW i \in 1..Len(es), NEW j \in 1..Len(es), es[i] = es[j] PROVE i = j
    BY <1>3, Zenon DEF Once
  <2>1. CASE i <= Len(cs) /\ j <= Len(cs)
    BY <1>1, <1>2, <1>3, <2>1 DEF Once
  <2>2. CASE ~(i <= Len(cs)) /\ ~(j <= Len(cs))
    <3>1. i - Len(cs) \in 1..Len(ds) /\ j - Len(cs) \in 1..Len(ds)
      BY <1>1, <2>2
    <3>2. ds[i - Len(cs)] = ds[j - Len(cs)]
      BY <1>2, <2>2, Zenon
    <3>3. i - Len(cs) = j - Len(cs)
      BY <1>3, <3>1, <3>2, Zenon DEF Once
    <3> QED
      BY <1>1, <3>3
  <2>3. CASE i <= Len(cs) /\ ~(j <= Len(cs))
    <3>1. i \in 1..Len(cs) /\ j - Len(cs) \in 1..Len(ds)
      BY <1>1, <2>3
    <3> QED
      BY <1>2, <1>5, <2>3, <3>1, Zenon
  <2>4. CASE ~(i <= Len(cs)) /\ j <= Len(cs)
    <3>1. j \in 1..Len(cs) /\ i - Len(cs) \in 1..Len(ds)
      BY <1>1, <2>4
    <3> QED
      BY <1>2, <1>5, <2>4, <3>1, Zenon
  <2> QED
    BY <2>1, <2>2, <2>3, <2>4, Zenon
<1>7. ASSUME NEW c \in Chan, Has(es, c) PROVE Has(cs, c) \/ Has(ds, c)
  <2>1. PICK i \in 1..Len(es) : es[i] = c
    BY <1>3, <1>7, Zenon DEF Has
  <2>2. CASE i <= Len(cs)
    BY <1>1, <1>2, <1>3, <2>1, <2>2 DEF Has
  <2>3. CASE ~(i <= Len(cs))
    <3>1. i - Len(cs) \in 1..Len(ds) /\ ds[i - Len(cs)] = c
      BY <1>1, <1>2, <2>1, <2>3
    <3> QED
      BY <1>3, <3>1, Zenon DEF Has
  <2> QED
    BY <2>2, <2>3, Zenon
<1>8. ASSUME NEW c \in Chan, Has(cs, c) PROVE Has(es, c)
  <2>1. PICK i \in 1..Len(cs) : cs[i] = c
    BY <1>3, <1>8, Zenon DEF Has
  <2>2. i \in 1..Len(es) /\ es[i] = c
    BY <1>1, <1>2, <2>1
  <2> QED
    BY <1>3, <2>2, Zenon DEF Has
<1>9. ASSUME NEW c \in Chan, Has(ds, c) PROVE Has(es, c)
  <2>1. PICK i \in 1..Len(ds) : ds[i] = c
    BY <1>3, <1>9, Zenon DEF Has
  <2>3. i + Len(cs) \in 1..Len(es) /\ ~(i + Len(cs) <= Len(cs)) /\ i + Len(cs) - Len(cs) = i
    BY <1>1
  <2>2. i + Len(cs) \in 1..Len(es) /\ es[i + Len(cs)] = c
    BY <1>2, <2>1, <2>3
  <2> QED
    BY <1>3, <2>2, Zenon DEF Has
<1> QED
  BY <1>1, <1>6, <1>7, <1>8, <1>9, Zenon DEF es

\* The steps that move no case and deliver nothing.
LEMMA QuietSteps ==
  ASSUME FeedInv, NEW s \in Sender, SendCall(s) \/ SendLock(s) \/ SendUnlock(s) \/ FastPathDone(s)
  PROVE  FeedInv'
<1> USE FeedAssumption
<1>a. TypeOK /\ LockOK /\ PlacedOK /\ GotOK /\ OwedOK /\ NoDuplicates /\ SameOrder
  BY Zenon DEF FeedInv
<1>b. UNCHANGED <<inbox, sendCases, active, sub, room, got>>
  BY Zenon DEF SendCall, SendLock, SendUnlock, FastPathDone
<1>1. TypeOK'
  <2>1. CASE SendCall(s)
    <3>1. count' \in [Sender -> 0..MaxSend]
      BY <1>a, <2>1 DEF TypeOK, SendCall
    <3>2. owed' \in [Sender -> SUBSET Chan]
      BY <1>a, <2>1, Zenon DEF TypeOK, SendCall
    <3> QED
      BY <1>a, <2>1, <3>1, <3>2, Zenon DEF TypeOK, SendCall
  <2>2. CASE SendLock(s) \/ SendUnlock(s)
    BY <1>a, <2>2, Zenon DEF TypeOK, SendLock, SendUnlock
  <2>3. CASE FastPathDone(s)
    BY <1>a, <2>3, Zenon DEF TypeOK, FastPathDone
  <2> QED
    BY <2>1, <2>2, <2>3, Zenon
<1>2. LockOK'
  <2>1. CASE SendCall(s)
    BY <1>a, <2>1 DEF TypeOK, LockOK, SendCall
  <2>2. CASE SendLock(s)
    BY <1>a, <2>2, Zenon DEF TypeOK, LockOK, SendLock
  <2>3. CASE SendUnlock(s)
    BY <1>a, <2>3, Zenon DEF TypeOK, LockOK, SendUnlock
  <2>4. CASE FastPathDone(s)
    BY <1>a, <2>4, Zenon DEF TypeOK, LockOK, FastPathDone
  <2> QED
    BY <2>1, <2>2, <2>3, <2>4, Zenon
<1>3. PlacedOK' /\ NoDuplicates' /\ SameOrder'
  BY <1>a, <1>b DEF PlacedOK, NoDuplicates, SameOrder
<1>4. GotOK'
  <2>1. CASE SendCall(s)
    <3>1. \A t \in Sender : t # s => pc'[t] = pc[t] /\ count'[t] = count[t]
      BY <1>a, <2>1, Zenon DEF SendCall, TypeOK
    <3>2. pc[s] = "idle" /\ pc'[s] = "lock" /\ count'[s] = count[s] + 1 /\ count[s] \in Nat
      BY <1>a, <2>1 DEF SendCall, TypeOK
    <3>3. \A c \in Chan, t \in Sender : \A i \in DOMAIN got'[c] : \A n \in 1..MaxSend :
            got'[c][i] = <<t, n>> => n <= count'[t] /\ (pc'[t] \in {"lock", "merge"} => n < count'[t])
      BY <1>a, <1>b, <3>1, <3>2 DEF GotOK
    <3>4. ASSUME NEW t \in Sender, pc'[t] \in {"fast", "select"}
          PROVE  pc[t] \in {"fast", "select"} /\ Current(t)' = Current(t)
      BY <3>1, <3>2, <3>4, Zenon DEF Current
    <3> QED
      BY <1>a, <1>b, <3>3, <3>4 DEF GotOK
  <2>2. CASE ~SendCall(s)
    <3>1. UNCHANGED count
      BY <2>2, Zenon DEF SendLock, SendUnlock, FastPathDone
    <3>2. \A t \in Sender : /\ pc'[t] \in {"lock", "merge"} => pc[t] \in {"lock", "merge"}
                            /\ pc'[t] \in {"fast", "select"} => pc[t] \in {"fast", "select"}
      BY <1>a, <2>2, Zenon DEF SendLock, SendUnlock, FastPathDone, TypeOK
    <3> QED
      BY <1>a, <1>b, <3>1, <3>2 DEF GotOK, Current
  <2> QED
    BY <2>1, <2>2, Zenon
<1>5. OwedOK'
  <2>1. CASE SendCall(s)
    <3>1. \A t \in Sender : t # s => pc'[t] = pc[t] /\ count'[t] = count[t] /\ owed'[t] = owed[t]
      BY <1>a, <2>1, Zenon DEF SendCall, TypeOK
    <3>2. pc'[s] = "lock" /\ owed'[s] = {c \in Chan : sub[c] = "active"}
      BY <1>a, <2>1, Zenon DEF SendCall, TypeOK
    <3> QED
      BY <1>a, <1>b, <3>1, <3>2 DEF OwedOK, Current
  <2>2. CASE SendLock(s) \/ SendUnlock(s)
    <3>1. UNCHANGED <<count, owed>>
      BY <2>2, Zenon DEF SendLock, SendUnlock
    <3>2. \A t \in Sender : /\ pc'[t] \in {"lock", "merge"} => pc[t] \in {"lock", "merge"}
                            /\ pc'[t] \in {"fast", "select"} => pc[t] \in {"fast", "select"}
                            /\ pc'[t] \in {"idle", "unlock"} => pc[t] \in {"idle", "unlock"}
      BY <1>a, <2>2, Zenon DEF SendLock, SendUnlock, TypeOK
    <3> QED
      BY <1>a, <1>b, <3>1, <3>2 DEF OwedOK, Current
  <2>3. CASE FastPathDone(s)
    <3>1. UNCHANGED <<count, owed>>
      BY <2>3, Zenon DEF FastPathDone
    <3>2. \A t \in Sender : /\ pc'[t] \in {"lock", "merge"} => pc[t] \in {"lock", "merge"}
                            /\ pc'[t] \in {"fast", "select"} => pc[t] \in {"fast", "select"}
                            /\ pc'[t] \in {"idle", "unlock"} =>
                                 pc[t] \in {"idle", "unlock"} \/ (pc[t] = "fast" /\ active = 0)
      BY <1>a, <2>3, Zenon DEF FastPathDone, TypeOK
    <3>3. active = 0 => ~\E j \in 1..active : TRUE
      OBVIOUS
    <3> QED
      BY <1>a, <1>b, <3>1, <3>2, <3>3 DEF OwedOK, Current
  <2> QED
    BY <2>1, <2>2, <2>3, Zenon
<1> QED
  BY <1>1, <1>2, <1>3, <1>4, <1>5, Zenon DEF FeedInv

LEMMA ReceiveStep ==
  ASSUME FeedInv, NEW c \in Chan, Receive(c)
  PROVE  FeedInv'
<1>1. TypeOK'
  BY FeedAssumption, SMTT(30) DEF FeedInv, TypeOK, Receive
<1>2. UNCHANGED <<pc, count, idx, lock, inbox, sendCases, active, sub, got, owed>>
  BY Zenon DEF Receive
<1> QED
  BY <1>1, <1>2 DEF FeedInv, LockOK, PlacedOK, GotOK, OwedOK, NoDuplicates, SameOrder, Current

LEMMA SubscribeStep ==
  ASSUME FeedInv, NEW c \in Chan, Subscribe(c)
  PROVE  FeedInv'
<1>a. TypeOK /\ LockOK /\ PlacedOK /\ GotOK /\ OwedOK /\ NoDuplicates /\ SameOrder
  BY Zenon DEF FeedInv
<1>b. /\ sub[c] = "none" /\ inbox' = Append(inbox, c) /\ sub' = [sub EXCEPT ![c] = "active"]
      /\ UNCHANGED <<pc, count, idx, lock, sendCases, active, room, got, owed>>
  BY Zenon DEF Subscribe
<1>1. TypeOK'
  BY <1>a, <1>b DEF TypeOK
<1>2. LockOK' /\ GotOK' /\ NoDuplicates' /\ SameOrder'
  BY <1>a, <1>b DEF LockOK, GotOK, NoDuplicates, SameOrder, Current
<1>3. PlacedOK'
  <2>1. inbox \in Seq(Chan) /\ sub \in [Chan -> {"none", "active", "removing", "closed"}]
    BY <1>a, Zenon DEF TypeOK
  <2>2. ~Has(inbox, c) /\ ~Has(sendCases, c) /\ Once(inbox) /\ Once(sendCases)
    BY <1>a, <1>b, Zenon DEF PlacedOK
  <2>3. Once(inbox') /\ \A d \in Chan : Has(inbox', d) <=> Has(inbox, d) \/ d = c
    BY <1>b, <2>1, <2>2, HasAppend, OnceAppend, Zenon
  <2>4. Once(sendCases') /\ \A d \in Chan : Has(sendCases', d) <=> Has(sendCases, d)
    BY <1>b, <2>2, Zenon
  <2>5. sub'[c] = "active" /\ \A d \in Chan : d # c => sub'[d] = sub[d]
    BY <1>b, <2>1, Zenon
  <2> QED
    BY <1>a, <2>2, <2>3, <2>4, <2>5, Zenon DEF PlacedOK
<1>4. OwedOK'
  <2>1. \A d \in Chan : sub[d] = "active" => sub'[d] = "active"
    BY <1>a, <1>b, Zenon DEF TypeOK
  <2>2. \A t \in Sender : owed[t] \subseteq Chan
    BY <1>a, Zenon DEF TypeOK
  <2> QED
    BY <1>a, <1>b, <2>1, <2>2, Zenon DEF OwedOK, Current
<1> QED
  BY <1>1, <1>2, <1>3, <1>4, Zenon DEF FeedInv

LEMMA UnsubscribeInboxStep ==
  ASSUME FeedInv, NEW c \in Chan, UnsubscribeInbox(c)
  PROVE  FeedInv'
<1>a. TypeOK /\ LockOK /\ PlacedOK /\ GotOK /\ OwedOK /\ NoDuplicates /\ SameOrder
  BY Zenon DEF FeedInv
<1>b. /\ sub[c] = "active" /\ owed' = [s \in Sender |-> owed[s] \ {c}]
      /\ UNCHANGED <<pc, count, idx, lock, sendCases, active, room, got>>
  BY Zenon DEF UnsubscribeInbox
<1>c. /\ inbox \in Seq(Chan) /\ sendCases \in Seq(Chan)
      /\ sub \in [Chan -> {"none", "active", "removing", "closed"}] /\ owed \in [Sender -> SUBSET Chan]
  BY <1>a, Zenon DEF TypeOK
<1>d. find(inbox, c) # 0 <=> Has(inbox, c)
  <2>1. Has(inbox, c) => find(inbox, c) \in DOMAIN inbox
    BY FindHas, Zenon
  <2>2. ~Has(inbox, c) => find(inbox, c) = 0
    BY Zenon DEF find
  <2> QED
    BY <1>c, <2>1, <2>2
<1>e. Once(inbox) /\ Once(sendCases)
  BY <1>a, Zenon DEF PlacedOK
<1>f. \E p \in {"closed", "removing"} : sub' = [sub EXCEPT ![c] = p]
  BY Zenon DEF UnsubscribeInbox
<1>g. \A d \in Chan : d # c => sub'[d] = sub[d]
  BY <1>c, <1>f, Zenon
<1>1. /\ inbox' \in Seq(Chan) /\ Once(inbox') /\ ~Has(inbox', c)
      /\ \A d \in Chan : d # c => (Has(inbox', d) <=> Has(inbox, d))
      /\ sub'[c] = IF Has(inbox, c) THEN "closed" ELSE "removing"
  <2>1. CASE Has(inbox, c)
    <3>1. inbox' = delete(inbox, find(inbox, c)) /\ sub' = [sub EXCEPT ![c] = "closed"]
      BY <1>d, <2>1, Zenon DEF UnsubscribeInbox
    <3> QED
      BY <1>c, <1>e, <2>1, <3>1, DeleteFound, Zenon
  <2>2. CASE ~Has(inbox, c)
    <3>1. inbox' = inbox /\ sub' = [sub EXCEPT ![c] = "removing"]
      BY <1>d, <2>2, Zenon DEF UnsubscribeInbox
    <3> QED
      BY <1>c, <1>e, <2>2, <3>1, Zenon
  <2> QED
    BY <2>1, <2>2, Zenon
<1>2. TypeOK'
  <2>1. sub' \in [Chan -> {"none", "active", "removing", "closed"}]
    BY <1>c, <1>f, Zenon
  <2>2. owed' \in [Sender -> SUBSET Chan]
    BY <1>b, <1>c, Zenon
  <2> QED
    BY <1>a, <1>b, <1>1, <2>1, <2>2, Zenon DEF TypeOK
<1>3. LockOK' /\ GotOK' /\ NoDuplicates' /\ SameOrder'
  BY <1>a, <1>b DEF LockOK, GotOK, NoDuplicates, SameOrder, Current
<1>4. PlacedOK'
  <2>1. ASSUME NEW d \in Chan, d # c
        PROVE  /\ sub'[d] = sub[d] /\ (Has(inbox', d) <=> Has(inbox, d)) /\ (Has(sendCases', d) <=> Has(sendCases, d))
    BY <1>b, <1>g, <1>1, <2>1, Zenon
  <2>2. Has(sendCases', c) <=> ~Has(inbox, c)
    BY <1>a, <1>b, Zenon DEF PlacedOK
  <2> QED
    BY <1>a, <1>b, <1>e, <1>1, <2>1, <2>2, Zenon DEF PlacedOK
<1>5. OwedOK'
  <2>1. \A t \in Sender : \A d \in owed'[t] : d \in owed[t] /\ d \in Chan /\ d # c
    BY <1>b, <1>c, Zenon
  <2> QED
    BY <1>a, <1>b, <1>g, <2>1 DEF OwedOK, Current
<1> QED
  BY <1>2, <1>3, <1>4, <1>5, Zenon DEF FeedInv

\* remove, second part: the case leaves sendCases, and `cases` when it is there.
LEMMA RemoveCase ==
  ASSUME FeedInv, NEW c \in Chan, RemoveStep(c)
  PROVE  FeedInv'
<1> USE FeedAssumption
<1>a. TypeOK /\ LockOK /\ PlacedOK /\ GotOK /\ OwedOK /\ NoDuplicates /\ SameOrder
  BY Zenon DEF FeedInv
<1> DEFINE k == find(sendCases, c)
<1>b. /\ sub[c] = "removing" /\ sub' = [sub EXCEPT ![c] = "closed"] /\ sendCases' = delete(sendCases, k)
      /\ UNCHANGED <<count, lock, inbox, room, got, owed>>
  BY Zenon DEF RemoveStep, UnsubscribeLocked, UnsubscribeDuringSend
<1>c. /\ sendCases \in Seq(Chan) /\ active \in 0..Len(sendCases) /\ lock \in Sender \cup {NoOne}
      /\ sub \in [Chan -> {"none", "active", "removing", "closed"}] /\ owed \in [Sender -> SUBSET Chan]
      /\ pc \in [Sender -> {"idle", "lock", "merge", "fast", "select", "unlock"}]
  BY <1>a, Zenon DEF TypeOK
<1>d. Once(inbox) /\ Once(sendCases) /\ Has(sendCases, c)
  BY <1>a, <1>b, Zenon DEF PlacedOK
<1>e. k \in DOMAIN sendCases /\ sendCases[k] = c
  BY <1>d, FindHas, Zenon
<1>f. /\ Len(sendCases') = Len(sendCases) - 1
      /\ \A i \in 1..Len(sendCases) - 1 : sendCases'[i] = IF i < k THEN sendCases[i] ELSE sendCases[i + 1]
  BY <1>b, <1>c, <1>e, DeleteCases, Zenon
<1>g. /\ sendCases' \in Seq(Chan) /\ Once(sendCases') /\ ~Has(sendCases', c)
      /\ \A d \in Chan : d # c => (Has(sendCases', d) <=> Has(sendCases, d))
  BY <1>b, <1>c, <1>d, DeleteFound, Zenon
<1>h. active' = IF k <= active THEN active - 1 ELSE active
  <2>1. CASE UnsubscribeLocked(c)
    <3>1. active = 0
      BY <1>a, <1>c, <2>1, Zenon DEF UnsubscribeLocked, LockOK
    <3> QED
      BY <1>c, <1>e, <2>1, <3>1 DEF UnsubscribeLocked
  <2>2. CASE \E s \in Sender : UnsubscribeDuringSend(s, c)
    BY <2>2, Zenon DEF UnsubscribeDuringSend
  <2> QED
    BY <2>1, <2>2, Zenon DEF RemoveStep
<1>i. \/ UNCHANGED <<pc, idx>>
      \/ idx' = 1 /\ \E s \in Sender : pc[s] = "select" /\ pc' = [pc EXCEPT ![s] = "fast"]
  BY Zenon DEF RemoveStep, UnsubscribeLocked, UnsubscribeDuringSend
<1> HIDE DEF k
<1>1. TypeOK'
  <2>1. active' \in 0..Len(sendCases')
    BY <1>c, <1>e, <1>f, <1>h
  <2>2. sub' \in [Chan -> {"none", "active", "removing", "closed"}]
    BY <1>b, <1>c, Zenon
  <2>3. pc' \in [Sender -> {"idle", "lock", "merge", "fast", "select", "unlock"}] /\ idx' \in Nat \ {0}
    <3>1. idx' \in Nat \ {0}
      BY <1>a, <1>i DEF TypeOK
    <3>2. pc' \in [Sender -> {"idle", "lock", "merge", "fast", "select", "unlock"}]
      BY <1>c, <1>i, Zenon
    <3> QED
      BY <3>1, <3>2, Zenon
  <2> QED
    BY <1>a, <1>b, <1>g, <2>1, <2>2, <2>3, Zenon DEF TypeOK
<1>2. \A t \in Sender : /\ pc'[t] \in {"fast", "select"} <=> pc[t] \in {"fast", "select"}
                        /\ pc'[t] \notin {"fast", "select"} => pc'[t] = pc[t]
  BY <1>c, <1>i, Zenon
<1>3. LockOK'
  <2>1. \A t \in Sender : pc'[t] \in {"merge", "fast", "select", "unlock"} <=> pc[t] \in {"merge", "fast", "select", "unlock"}
    BY <1>2, Zenon
  <2>2. active' # 0 => active # 0
    BY <1>c, <1>e, <1>h
  <2>3. \A t \in Sender : pc'[t] # "idle" => pc[t] # "idle"
    BY <1>2, Zenon
  <2> QED
    BY <1>a, <1>b, <1>2, <2>1, <2>2, <2>3, Zenon DEF LockOK
<1>4. PlacedOK'
  <2>1. sub'[c] = "closed" /\ \A d \in Chan : d # c => sub'[d] = sub[d]
    BY <1>b, <1>c, Zenon
  <2>2. ~Has(inbox, c)
    BY <1>a, <1>b, Zenon DEF PlacedOK
  <2> QED
    BY <1>a, <1>b, <1>d, <1>g, <2>1, <2>2, Zenon DEF PlacedOK
<1>5. \A j \in 1..active' : \E i \in 1..active : sendCases'[j] = sendCases[i]
  <2> SUFFICES ASSUME NEW j \in 1..active' PROVE \E i \in 1..active : sendCases'[j] = sendCases[i]
    BY Zenon
  <2>1. j \in 1..Len(sendCases) - 1 /\ j \in 1..active /\ (~(j < k) => j + 1 \in 1..active)
    BY <1>c, <1>e, <1>h
  <2> QED
    BY <1>f, <2>1, Zenon
<1>6. ASSUME NEW j \in 1..active, sendCases[j] # c PROVE \E i \in 1..active' : sendCases'[i] = sendCases[j]
  <2>1. CASE j < k
    <3>1. j \in 1..active' /\ j \in 1..Len(sendCases) - 1
      BY <1>c, <1>e, <1>h, <2>1
    <3> QED
      BY <1>f, <2>1, <3>1, Zenon
  <2>2. CASE j > k
    <3>1. j - 1 \in 1..active' /\ j - 1 \in 1..Len(sendCases) - 1 /\ ~(j - 1 < k) /\ (j - 1) + 1 = j
      BY <1>c, <1>e, <1>h, <2>2
    <3> QED
      BY <1>f, <3>1, Zenon
  <2>3. j # k
    BY <1>e, <1>6, Zenon
  <2> QED
    BY <1>c, <1>e, <2>1, <2>2, <2>3
<1>7. GotOK'
  <2>1. \A t \in Sender : pc'[t] \in {"lock", "merge"} => pc[t] \in {"lock", "merge"}
    BY <1>2, Zenon
  <2>2. \A t \in Sender : pc'[t] \in {"fast", "select"} => \A j \in 1..active' : ~Has(got'[sendCases'[j]], Current(t)')
    BY <1>a, <1>b, <1>2, <1>5, Zenon DEF GotOK, Current
  <2> QED
    BY <1>a, <1>b, <1>2, <2>1, <2>2 DEF GotOK, Current
<1>8. OwedOK'
  <2> SUFFICES ASSUME NEW t \in Sender, NEW d \in owed[t]
               PROVE  /\ sub'[d] = "active"
                      /\ pc'[t] \in {"fast", "select"} => Has(got[d], Current(t)) \/ \E j \in 1..active' : sendCases'[j] = d
                      /\ pc'[t] \in {"idle", "unlock"} => Has(got[d], Current(t))
    BY <1>b, Zenon DEF OwedOK, Current
  <2>1. d \in Chan
    BY <1>c, Zenon
  <2>2. d # c /\ sub[d] = "active"
    BY <1>a, <1>b, Zenon DEF OwedOK
  <2>3. sub'[d] = "active"
    BY <1>b, <1>c, <2>1, <2>2, Zenon
  <2>4. ASSUME pc'[t] \in {"fast", "select"} PROVE Has(got[d], Current(t)) \/ \E j \in 1..active' : sendCases'[j] = d
    BY <1>a, <1>2, <1>6, <2>2, <2>4 DEF OwedOK
  <2>5. ASSUME pc'[t] \in {"idle", "unlock"} PROVE Has(got[d], Current(t))
    BY <1>a, <1>2, <2>5, Zenon DEF OwedOK
  <2> QED
    BY <2>3, <2>4, <2>5, Zenon
<1> QED
  BY <1>a, <1>b, <1>1, <1>3, <1>4, <1>7, <1>8 DEF FeedInv, NoDuplicates, SameOrder

LEMMA SendMergeStep ==
  ASSUME FeedInv, NEW s \in Sender, SendMerge(s)
  PROVE  FeedInv'
<1> USE FeedAssumption
<1>a. TypeOK /\ LockOK /\ PlacedOK /\ GotOK /\ OwedOK /\ NoDuplicates /\ SameOrder
  BY Zenon DEF FeedInv
<1>b. /\ pc[s] = "merge" /\ pc' = [pc EXCEPT ![s] = "fast"] /\ sendCases' = sendCases \o inbox /\ inbox' = <<>>
      /\ active' = Len(sendCases') /\ idx' = 1
      /\ UNCHANGED <<count, lock, sub, room, got, owed>>
  BY Zenon DEF SendMerge
<1>c. /\ sendCases \in Seq(Chan) /\ inbox \in Seq(Chan) /\ owed \in [Sender -> SUBSET Chan]
      /\ pc \in [Sender -> {"idle", "lock", "merge", "fast", "select", "unlock"}]
      /\ sub \in [Chan -> {"none", "active", "removing", "closed"}]
      /\ count \in [Sender -> 0..MaxSend]
  BY <1>a, Zenon DEF TypeOK
<1>d. Once(inbox) /\ Once(sendCases) /\ \A c \in Chan : ~(Has(sendCases, c) /\ Has(inbox, c))
  BY <1>a, <1>c, Zenon DEF PlacedOK
<1>e. /\ sendCases' \in Seq(Chan) /\ Once(sendCases')
      /\ \A c \in Chan : Has(sendCases', c) <=> Has(sendCases, c) \/ Has(inbox, c)
  BY <1>b, <1>c, <1>d, Concatenate, Zenon
<1>f. pc'[s] = "fast" /\ \A t \in Sender : t # s => pc'[t] = pc[t]
  BY <1>b, <1>c, Zenon
<1>g. \A t \in Sender : pc'[t] \in {"fast", "select"} => t = s
  BY <1>a, <1>b, <1>c, <1>f, Zenon DEF LockOK
<1>h. inbox' \in Seq(Chan) /\ Once(inbox') /\ \A c \in Chan : ~Has(inbox', c)
  BY <1>b DEF Once, Has
<1>1. TypeOK'
  <2>1. active' \in 0..Len(sendCases') /\ idx' \in Nat \ {0}
    BY <1>b, <1>e
  <2>2. pc' \in [Sender -> {"idle", "lock", "merge", "fast", "select", "unlock"}]
    BY <1>b, <1>c, Zenon
  <2> QED
    BY <1>a, <1>b, <1>e, <1>h, <2>1, <2>2, Zenon DEF TypeOK
<1>2. LockOK'
  BY <1>a, <1>b, <1>f, Zenon DEF LockOK
<1>3. PlacedOK'
  BY <1>a, <1>b, <1>c, <1>e, <1>h, Zenon DEF PlacedOK
<1>4. count[s] \in 1..MaxSend
  BY <1>a, <1>b, <1>c DEF LockOK
<1>5. \A c \in Chan : ~Has(got[c], Current(s))
  <2> SUFFICES ASSUME NEW c \in Chan, NEW i \in DOMAIN got[c], got[c][i] = <<s, count[s]>> PROVE FALSE
    BY Zenon DEF Has, Current
  <2> QED
    BY <1>a, <1>b, <1>4 DEF GotOK
<1>6. GotOK'
  <2>1. \A t \in Sender : pc'[t] \in {"lock", "merge"} => pc[t] \in {"lock", "merge"}
    BY <1>f, Zenon
  <2>2. \A j \in 1..active' : sendCases'[j] \in Chan
    BY <1>b, <1>e
  <2> QED
    BY <1>a, <1>b, <1>g, <1>5, <2>1, <2>2, Zenon DEF GotOK, Current
<1>7. OwedOK'
  <2>1. ASSUME NEW c \in owed[s] PROVE \E j \in 1..active' : sendCases'[j] = c
    <3>1. c \in Chan /\ sub[c] = "active"
      BY <1>a, <1>c, Zenon DEF OwedOK
    <3>2. Has(sendCases', c)
      BY <1>a, <1>e, <3>1, Zenon DEF PlacedOK
    <3>3. DOMAIN sendCases' = 1..active'
      BY <1>b, <1>e
    <3> QED
      BY <3>2, <3>3, Zenon DEF Has
  <2> SUFFICES ASSUME NEW t \in Sender, NEW d \in owed[t]
               PROVE  /\ sub[d] = "active"
                      /\ pc'[t] \in {"fast", "select"} => Has(got[d], Current(t)) \/ \E j \in 1..active' : sendCases'[j] = d
                      /\ pc'[t] \in {"idle", "unlock"} => Has(got[d], Current(t))
    BY <1>b, Zenon DEF OwedOK, Current
  <2>2. CASE t = s
    BY <1>a, <1>f, <2>1, <2>2, Zenon DEF OwedOK
  <2>3. CASE t # s
    BY <1>a, <1>f, <1>g, <2>3, Zenon DEF OwedOK
  <2> QED
    BY <2>2, <2>3, Zenon
<1> QED
  BY <1>a, <1>b, <1>1, <1>2, <1>3, <1>6, <1>7 DEF FeedInv, NoDuplicates, SameOrder

\* A delivery, of the fast path or of the Select.
LEMMA DeliverStep ==
  ASSUME FeedInv, NEW s \in Sender, pc[s] \in {"fast", "select"}, NEW k \in 1..active,
         room[sendCases[k]] > 0, Deliver(s, k), idx' \in Nat \ {0},
         UNCHANGED pc \/ pc' = [pc EXCEPT ![s] = "fast"],
         UNCHANGED <<count, lock, inbox, sub, owed>>
  PROVE  FeedInv'
<1> USE FeedAssumption
<1> DEFINE c == sendCases[k]
           v == Current(s)
<1>a. TypeOK /\ LockOK /\ PlacedOK /\ GotOK /\ OwedOK /\ NoDuplicates /\ SameOrder
  BY Zenon DEF FeedInv
<1>b. /\ got' = [got EXCEPT ![c] = Append(got[c], v)] /\ room' = [room EXCEPT ![c] = room[c] - 1]
      /\ sendCases' = deactivate(sendCases, k) /\ active' = active - 1
  BY Zenon DEF Deliver
<1>l. active \in 1..Len(sendCases) /\ k \in 1..Len(sendCases)
  <2>1. active \in 0..Len(sendCases) /\ sendCases \in Seq(Chan)
    BY <1>a, Zenon DEF TypeOK
  <2> QED
    BY <2>1
<1>c. /\ sendCases \in Seq(Chan)
      /\ pc \in [Sender -> {"idle", "lock", "merge", "fast", "select", "unlock"}]
      /\ count \in [Sender -> 0..MaxSend] /\ got \in [Chan -> Seq(Value)] /\ room \in [Chan -> 0..Buffer]
      /\ owed \in [Sender -> SUBSET Chan]
  BY <1>a, Zenon DEF TypeOK
<1>d. Once(sendCases) /\ c \in Chan /\ c = sendCases[k] /\ k \in DOMAIN sendCases
  BY <1>a, <1>c, <1>l, SMTT(30) DEF PlacedOK
<1>e. /\ sendCases' \in Seq(Chan) /\ Len(sendCases') = Len(sendCases) /\ Once(sendCases')
      /\ sendCases'[k] = sendCases[active] /\ sendCases'[active] = sendCases[k]
      /\ \A i \in DOMAIN sendCases \ {k, active} : sendCases'[i] = sendCases[i]
      /\ \A d \in Chan : Has(sendCases', d) <=> Has(sendCases, d)
  <2>1. LET ds == deactivate(sendCases, k)
        IN  /\ ds \in Seq(Chan) /\ Len(ds) = Len(sendCases) /\ Once(ds)
            /\ ds[k] = sendCases[active] /\ ds[active] = sendCases[k]
            /\ \A i \in DOMAIN sendCases \ {k, active} : ds[i] = sendCases[i]
            /\ \A d \in Chan : Has(ds, d) <=> Has(sendCases, d)
    BY <1>c, <1>d, <1>l, DeactivateCases, Zenon
  <2> QED
    BY <1>b, <2>1, Zenon
<1>f. v = <<s, count[s]>> /\ v \in Value /\ count[s] \in 1..MaxSend
  BY <1>a, <1>c DEF Value, Current, LockOK
<1>g. ~Has(got[c], v)
  BY <1>a, Zenon DEF GotOK
<1> HIDE DEF c, v
<1>h. /\ pc'[s] \in {"fast", "select"} /\ \A t \in Sender : t # s => pc'[t] = pc[t] /\ pc[t] \in {"idle", "lock"}
      /\ pc' \in [Sender -> {"idle", "lock", "merge", "fast", "select", "unlock"}]
  BY <1>a, <1>c, Zenon DEF LockOK
<1>i. /\ got[c] \in Seq(Value) /\ got'[c] = Append(got[c], v) /\ got'[c] \in Seq(Value)
      /\ Len(got'[c]) = Len(got[c]) + 1 /\ got'[c][Len(got[c]) + 1] = v /\ Len(got[c]) \in Nat
      /\ DOMAIN got'[c] = 1..Len(got[c]) + 1 /\ DOMAIN got[c] = 1..Len(got[c])
      /\ \A i \in 1..Len(got[c]) : got'[c][i] = got[c][i]
  <2>1. got[c] \in Seq(Value) /\ got'[c] = Append(got[c], v)
    BY <1>b, <1>c, <1>d, Zenon
  <2> QED
    BY <2>1, <1>f
<1>j. \A d \in Chan : d # c => got'[d] = got[d]
  BY <1>b, <1>c, Zenon
<1>k. \A w : Has(got'[c], w) <=> Has(got[c], w) \/ w = v
  <2>1. got[c] \in Seq(Value) /\ v \in Value /\ got'[c] = Append(got[c], v)
    BY <1>f, <1>i, Zenon
  <2>2. ASSUME NEW w PROVE Has(Append(got[c], v), w) <=> Has(got[c], w) \/ w = v
    BY <2>1, HasAppend
  <2> QED
    BY <2>1, <2>2, Zenon
<1>1. TypeOK'
  <2>1. got' \in [Chan -> Seq(Value)]
    BY <1>b, <1>c, <1>d, <1>f
  <2>2. room' \in [Chan -> 0..Buffer]
    BY <1>b, <1>c, <1>d, SMTT(30) DEF c
  <2>3. active' \in 0..Len(sendCases')
    BY <1>b, <1>e, <1>l
  <2> QED
    BY <1>a, <1>e, <1>h, <2>1, <2>2, <2>3, Zenon DEF TypeOK
<1>2. LockOK'
  BY <1>a, <1>h, Zenon DEF LockOK
<1>3. PlacedOK'
  BY <1>a, <1>e, Zenon DEF PlacedOK
<1>4. GotOK'
  <2>1. ASSUME NEW d \in Chan, NEW t \in Sender, NEW i \in DOMAIN got'[d], NEW n \in 1..MaxSend, got'[d][i] = <<t, n>>
        PROVE  n <= count[t] /\ (pc'[t] \in {"lock", "merge"} => n < count[t])
    <3>1. CASE d # c \/ i # Len(got[c]) + 1
      <4>1. i \in DOMAIN got[d] /\ got[d][i] = <<t, n>>
        <5>1. CASE d # c
          BY <1>j, <2>1, <5>1, Zenon
        <5>2. CASE d = c /\ i # Len(got[c]) + 1
          <6>1. i \in 1..Len(got[c])
            BY <1>i, <2>1, <5>2, SMTT(30)
          <6> QED
            BY <1>i, <2>1, <5>2, <6>1, Zenon
        <5> QED
          BY <3>1, <5>1, <5>2, Zenon
      <4>2. pc'[t] \in {"lock", "merge"} => pc[t] \in {"lock", "merge"}
        BY <1>h, Zenon
      <4> QED
        BY <1>a, <4>1, <4>2, SMTT(30) DEF GotOK
    <3>2. CASE d = c /\ i = Len(got[c]) + 1
      <4>1. t = s /\ n = count[s]
        BY <1>f, <1>i, <2>1, <3>2
      <4> QED
        BY <1>h, <4>1, <1>f
    <3> QED
      BY <3>1, <3>2, SMTT(30)
  <2>2. ASSUME NEW j \in 1..active' PROVE ~Has(got'[sendCases'[j]], v)
    <3>1. j \in DOMAIN sendCases /\ j # active /\ j \in 1..active /\ active \in DOMAIN sendCases'
      <4>1. DOMAIN sendCases = 1..Len(sendCases) /\ DOMAIN sendCases' = 1..Len(sendCases)
        BY <1>c, <1>e
      <4> QED
        BY <1>b, <1>l, <4>1
    <3>2. sendCases'[j] # c /\ sendCases'[j] \in Chan
      BY <1>d, <1>e, <3>1 DEF Once
    <3>3. \E i \in 1..active : sendCases'[j] = sendCases[i]
      <4>1. active \in 1..active
        BY <1>l
      <4> QED
        BY <1>e, <3>1, <4>1, Zenon
    <3>4. ~Has(got[sendCases'[j]], v)
      BY <1>a, <3>3, Zenon DEF GotOK, v
    <3> QED
      BY <1>j, <3>2, <3>4, Zenon
  <2>3. ASSUME NEW d \in Chan, Has(got'[d], v) PROVE got'[d][Len(got'[d])] = v
    <3>1. CASE d = c
      BY <1>i, <3>1, Zenon
    <3>2. CASE d # c
      BY <1>a, <1>j, <2>3, <3>2, Zenon DEF GotOK, v
    <3> QED
      BY <3>1, <3>2, Zenon
  <2>4. \A t \in Sender : pc'[t] \in {"fast", "select"} => t = s
    BY <1>h, Zenon
  <2>5. Current(s)' = v
    BY Zenon DEF Current, v
  <2> QED
    BY <2>1, <2>2, <2>3, <2>4, <2>5, Zenon DEF GotOK
<1>5. OwedOK'
  <2> SUFFICES ASSUME NEW t \in Sender, NEW d \in owed[t]
               PROVE  /\ sub[d] = "active"
                      /\ pc'[t] \in {"fast", "select"} => Has(got'[d], Current(t)) \/ \E j \in 1..active' : sendCases'[j] = d
                      /\ pc'[t] \in {"idle", "unlock"} => Has(got'[d], Current(t))
    BY SMTT(30) DEF OwedOK, Current
  <2>1. d \in Chan /\ sub[d] = "active"
    BY <1>a, <1>c, Zenon DEF OwedOK
  <2>2. Has(got[d], Current(t)) => Has(got'[d], Current(t))
    BY <1>j, <1>k, <2>1, Zenon
  <2>3. CASE t # s
    BY <1>a, <1>h, <2>1, <2>2, <2>3, Zenon DEF OwedOK
  <2>4. CASE t = s
    <3>1. d = c => Has(got'[d], Current(t))
      BY <1>k, <2>4, Zenon DEF v
    <3>2. ASSUME d # c, NEW j \in 1..active, sendCases[j] = d PROVE \E i \in 1..active' : sendCases'[i] = d
      <4>1. j # k
        BY <1>d, <3>2, Zenon
      <4>2. CASE j = active
        <5>1. k \in 1..active'
          BY <1>b, <1>c, <1>l, <4>1, <4>2
        <5> QED
          BY <1>e, <3>2, <4>2, <5>1, Zenon
      <4>3. CASE j # active
        <5>1. j \in 1..active' /\ j \in DOMAIN sendCases \ {k, active}
          BY <1>b, <1>c, <1>l, <4>1, <4>3
        <5> QED
          BY <1>e, <3>2, <5>1, Zenon
      <4> QED
        BY <4>2, <4>3, Zenon
    <3> QED
      BY <1>a, <1>h, <2>1, <2>2, <2>4, <3>1, <3>2 DEF OwedOK
  <2> QED
    BY <2>3, <2>4, Zenon
<1>6. NoDuplicates'
  <2>1. Once(got[c])
    BY <1>a, <1>d, Zenon DEF NoDuplicates
  <2>2. Once(got'[c])
    BY <1>f, <1>g, <1>i, <2>1, OnceAppend
  <2> QED
    BY <1>a, <1>j, <2>2, Zenon DEF NoDuplicates
<1>7. SameOrder'
  <2>1. ASSUME NEW d \in Chan, d # c, NEW l \in DOMAIN got[d], got[d][l] = v
        PROVE  l = Len(got[d]) /\ \A i \in DOMAIN got[d] : got[d][i] # v => i < l
    <3>1. Has(got[d], v)
      BY <2>1, Zenon DEF Has
    <3>2. got[d][Len(got[d])] = v
      BY <1>a, <3>1, Zenon DEF GotOK, v
    <3>3. got[d] \in Seq(Value) /\ Len(got[d]) \in DOMAIN got[d] /\ DOMAIN got[d] = 1..Len(got[d])
      BY <1>c, <2>1
    <3>4. l = Len(got[d])
      BY <1>a, <2>1, <3>2, <3>3, Zenon DEF NoDuplicates, Once
    <3> QED
      BY <3>2, <3>3, <3>4
  <2>2. \A i \in 1..Len(got[c]) : got[c][i] # v
    BY <1>g, <1>i, Zenon DEF Has
  <2> SUFFICES ASSUME NEW a \in Chan, NEW d \in Chan, NEW i \in DOMAIN got'[a], NEW j \in DOMAIN got'[a],
                      NEW m \in DOMAIN got'[d], NEW n \in DOMAIN got'[d],
                      got'[a][i] = got'[d][m], got'[a][j] = got'[d][n], i < j
               PROVE  m < n
    BY DEF SameOrder
  <2>3. CASE a # c /\ d # c
    BY <1>a, <1>j, <2>3 DEF SameOrder
  <2>4. CASE a = c /\ d = c
    <3>1. Once(got'[c])
      BY <1>6, <1>d, Zenon DEF NoDuplicates
    <3> QED
      BY <2>4, <3>1, Zenon DEF Once
  <2>5. CASE a = c /\ d # c
    <3>1. i \in 1..Len(got[c]) /\ got[c][i] = got[d][m] /\ m \in DOMAIN got[d] /\ n \in DOMAIN got[d]
      BY <1>i, <1>j, <2>5, SMTT(30)
    <3>2. CASE j \in 1..Len(got[c])
      <4>1. j \in DOMAIN got[c] /\ i \in DOMAIN got[c] /\ got[c][j] = got[d][n]
        BY <1>i, <1>j, <2>5, <3>1, <3>2, Zenon
      <4> QED
        BY <1>a, <1>d, <3>1, <4>1, Zenon DEF SameOrder
    <3>3. CASE j = Len(got[c]) + 1
      <4>1. got[d][n] = v
        BY <1>i, <1>j, <2>5, <3>3, Zenon
      <4>2. got[d][m] # v
        BY <2>2, <3>1, Zenon
      <4> QED
        BY <2>1, <2>5, <3>1, <4>1, <4>2, Zenon
    <3> QED
      BY <1>i, <2>5, <3>2, <3>3
  <2>6. CASE a # c /\ d = c
    <3>1. i \in DOMAIN got[a] /\ j \in DOMAIN got[a] /\ got[a][i] = got'[c][m] /\ got[a][j] = got'[c][n]
      BY <1>j, <2>6, Zenon
    <3>2. m \in 1..Len(got[c]) + 1 /\ n \in 1..Len(got[c]) + 1 /\ Len(got[c]) \in Nat
      BY <1>i, <2>6, SMTT(30)
    <3>3. CASE m = Len(got[c]) + 1
      <4>1. got[a][i] = v
        BY <1>i, <3>1, <3>3, Zenon
      <4>2. i = Len(got[a]) /\ DOMAIN got[a] = 1..Len(got[a]) /\ Len(got[a]) \in Nat
        BY <1>c, <2>1, <2>6, <3>1, <4>1
      <4> QED
        BY <3>1, <4>2
    <3>4. CASE m # Len(got[c]) + 1 /\ n = Len(got[c]) + 1
      BY <3>2, <3>4
    <3>5. CASE m # Len(got[c]) + 1 /\ n # Len(got[c]) + 1
      <4>1. m \in DOMAIN got[c] /\ n \in DOMAIN got[c] /\ got[a][i] = got[c][m] /\ got[a][j] = got[c][n]
        BY <1>i, <3>1, <3>2, <3>5
      <4> QED
        BY <1>a, <1>d, <3>1, <4>1, Zenon DEF SameOrder
    <3> QED
      BY <3>3, <3>4, <3>5, Zenon
  <2> QED
    BY <2>3, <2>4, <2>5, <2>6, Zenon
<1> QED
  BY <1>1, <1>2, <1>3, <1>4, <1>5, <1>6, <1>7, Zenon DEF FeedInv

\* FeedInv holds before the first call.
LEMMA InitFeed == Init => FeedInv
<1> SUFFICES ASSUME Init PROVE FeedInv
  BY Zenon
<1>1. TypeOK
  BY FeedAssumption DEF Init, TypeOK
<1>2. LockOK
  BY FeedAssumption, Zenon DEF Init, LockOK
<1>3. PlacedOK
  BY DEF Init, PlacedOK, Once, Has
<1>4. GotOK
  BY DEF Init, GotOK
<1>5. OwedOK
  BY Zenon DEF Init, OwedOK
<1>6. NoDuplicates /\ SameOrder
  BY DEF Init, NoDuplicates, SameOrder, Once
<1> QED
  BY <1>1, <1>2, <1>3, <1>4, <1>5, <1>6, Zenon DEF FeedInv

\* The loop variable of the fast path does not matter to FeedInv.
LEMMA FeedUnchanged ==
  ASSUME FeedInv, UNCHANGED <<pc, count, lock, inbox, sub, owed, got, room, sendCases, active>>, idx' \in Nat \ {0}
  PROVE  FeedInv'
<1>1. TypeOK'
  BY Zenon DEF FeedInv, TypeOK
<1>2. LockOK' /\ PlacedOK'
  BY Zenon DEF FeedInv, LockOK, PlacedOK
<1>3. GotOK'
  BY Zenon DEF FeedInv, GotOK, Current, Has
<1>4. OwedOK'
  BY Zenon DEF FeedInv, OwedOK, Current
<1>5. NoDuplicates'
  BY Zenon DEF FeedInv, NoDuplicates
<1>6. SameOrder'
  BY DEF FeedInv, SameOrder
<1> QED
  BY <1>1, <1>2, <1>3, <1>4, <1>5, <1>6, Zenon DEF FeedInv

\* Every step of a sender, a subscriber or a reader preserves FeedInv.
LEMMA NextFeed == FeedInv /\ [Next]_vars => FeedInv'
<1> SUFFICES ASSUME FeedInv, [Next]_vars PROVE FeedInv'
  BY Zenon
<1>1. ASSUME NEW s \in Sender, SendCall(s) \/ SendLock(s) \/ SendUnlock(s) \/ FastPathDone(s) PROVE FeedInv'
  BY <1>1, QuietSteps, Zenon
<1>2. ASSUME NEW s \in Sender, SendMerge(s) PROVE FeedInv'
  BY <1>2, SendMergeStep, Zenon
<1>3. ASSUME NEW s \in Sender, TrySend(s) PROVE FeedInv'
  <2>1. idx \in Nat \ {0} /\ active \in Nat
    BY DEF FeedInv, TypeOK
  <2>2. CASE room[sendCases[idx]] > 0 /\ Deliver(s, idx) /\ UNCHANGED idx
    <3>1. idx \in 1..active /\ pc[s] = "fast" /\ UNCHANGED <<pc, count, lock, inbox, sub, owed>>
      BY <1>3, <2>1, SMTT(30) DEF TrySend
    <3> QED
      BY <2>1, <2>2, <3>1, DeliverStep, Zenon
  <2>3. CASE idx' = idx + 1 /\ UNCHANGED <<got, room, sendCases, active>>
    <3>1. UNCHANGED <<pc, count, lock, inbox, sub, owed, got, room, sendCases, active>> /\ idx' \in Nat \ {0}
      <4>1. UNCHANGED <<pc, count, lock, inbox, sub, owed>>
        BY <1>3, Zenon DEF TrySend
      <4>2. idx' \in Nat \ {0}
        BY <2>1, <2>3
      <4> QED
        BY <2>3, <4>1, <4>2, Zenon
    <3> QED
      BY <3>1, FeedUnchanged, Zenon
  <2> QED
    BY <1>3, <2>2, <2>3, Zenon DEF TrySend
<1>4. ASSUME NEW s \in Sender, SelectSend(s) PROVE FeedInv'
  <2>1. PICK i \in 1..active : room[sendCases[i]] > 0 /\ Deliver(s, i)
    BY <1>4, Zenon DEF SelectSend
  <2>2. pc[s] = "select" /\ pc' = [pc EXCEPT ![s] = "fast"] /\ idx' = 1 /\ UNCHANGED <<count, lock, inbox, sub, owed>>
    BY <1>4, Zenon DEF SelectSend
  <2>3. idx' \in Nat \ {0}
    BY <2>2
  <2> QED
    BY <2>1, <2>2, <2>3, DeliverStep, Zenon
<1>5. ASSUME NEW c \in Chan, Subscribe(c) \/ UnsubscribeInbox(c) \/ RemoveStep(c) \/ Receive(c) PROVE FeedInv'
  BY <1>5, SubscribeStep, UnsubscribeInboxStep, RemoveCase, ReceiveStep, Zenon
<1>6. CASE Terminated \/ UNCHANGED vars
  <2>1. UNCHANGED <<pc, count, idx, lock, inbox, sendCases, active, sub, room, got, owed>>
    BY <1>6, Zenon DEF Terminated, vars
  <2>2. idx' \in Nat \ {0}
    BY <2>1, Zenon DEF FeedInv, TypeOK
  <2> QED
    BY <2>1, <2>2, FeedUnchanged, Zenon
<1> QED
  BY <1>1, <1>2, <1>3, <1>4, <1>5, <1>6, Zenon DEF Next, SendStep

(* FeedInv is an invariant of the feed. *)
LEMMA FeedHolds == Spec => []FeedInv
  BY InitFeed, NextFeed, PTL DEF Spec

(* For any number of senders and channels: a Send that returned has given its
   value to every channel that was subscribed when it was called and did not
   begin to unsubscribe since, no channel gets a value twice, and two channels
   see the values they both get in the same order, however deactivate and
   delete shuffle sendCases (feed.go:131-179). *)
THEOREM FeedDelivers == Spec => []Delivered
<1>1. FeedInv => Delivered
  BY Zenon DEF FeedInv, Delivered, SendReachesAll, OwedOK
<1> QED
  BY <1>1, FeedHolds, PTL

(* A channel whose removal was not finished in the inbox is in sendCases at
   exactly one place: find never yields -1 in remove and in Send, and delete
   never slices out of range (feed.go:96-104, 161-163). *)
THEOREM FeedRemovalFindsCase == Spec => []RemovalFindsCase
<1>1. FeedInv => RemovalFindsCase
  BY Zenon DEF FeedInv, RemovalFindsCase, PlacedOK, Once, Has
<1> QED
  BY <1>1, FeedHolds, PTL

(* Once Unsubscribe has returned nothing is delivered to the channel, whatever
   Send was under way (feed.go:86-105). *)
THEOREM FeedSilentAfterUnsubscribe == Spec => SilentAfterUnsubscribe
<1>1. ASSUME FeedInv, [Next]_vars, NEW c \in Chan, sub[c] = "closed" PROVE got'[c] = got[c]
  <2>1. CASE UNCHANGED got
    BY <2>1, Zenon
  <2>2. ASSUME NEW s \in Sender, NEW i \in 1..active, Deliver(s, i) PROVE got'[c] = got[c]
    <3>1. sendCases \in Seq(Chan) /\ got \in [Chan -> Seq(Value)] /\ active \in 0..Len(sendCases)
      BY <1>1, Zenon DEF FeedInv, TypeOK
    <3>2. i \in DOMAIN sendCases
      BY <3>1
    <3>3. ~Has(sendCases, c)
      BY <1>1, Zenon DEF FeedInv, PlacedOK
    <3>4. sendCases[i] # c
      BY <3>2, <3>3, SMTT(30) DEF Has
    <3> QED
      BY <2>2, <3>1, <3>4, Zenon DEF Deliver
  <2>3. UNCHANGED got \/ \E s \in Sender, i \in 1..active : Deliver(s, i)
    <3>1. idx \in Nat \ {0} /\ active \in Nat
      BY <1>1, SMTT(30) DEF FeedInv, TypeOK
    <3> QED
      BY <1>1, <3>1 DEF Next, SendStep, SendCall, SendLock, SendMerge, TrySend, FastPathDone, SelectSend, SendUnlock,
         Subscribe, UnsubscribeInbox, RemoveStep, UnsubscribeLocked, UnsubscribeDuringSend, Receive, Terminated, vars
  <2> QED
    BY <2>1, <2>2, <2>3, Zenon
<1>2. FeedInv /\ [Next]_vars => [\A c \in Chan : sub[c] = "closed" => got'[c] = got[c]]_vars
  BY <1>1, Zenon
<1> QED
  BY <1>2, FeedHolds, PTL DEF Spec, SilentAfterUnsubscribe
=============================================================================
