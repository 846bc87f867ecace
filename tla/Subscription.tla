---------------------------- MODULE Subscription ----------------------------
(***************************************************************************)
(* Subscriptions that run a producer (event/subscription.go, funcSub) and  *)
(* the scope that tracks them.  Every subscription has an owner that calls *)
(* Unsubscribe on its wrapper at some moment, a reader of its error        *)
(* channel, and a producer that may end by itself.  The second part is the *)
(* subscription that is set up again when it fails, the third the typed    *)
(* multiplexer of events.                                                  *)
(***************************************************************************)
EXTENDS Integers, Sequences, FiniteSets, Functions, TLAPS

CONSTANTS Sub,     \* subscriptions, also their owners
          Closer   \* goroutines that call SubscriptionScope.Close

VARIABLES producer,  \* per subscription: where its goroutine is
          returned,  \* what the producer returned
          flags,     \* s.unsubscribed, s.unsub closed
          err,       \* the error channel: buffer and whether it is closed
          scope,     \* SubscriptionScope: mutex, subs, closed
          pc,        \* per goroutine: where it is, which subscription it ends
          todo,      \* per closer: what the loop of Close has left
          read       \* history: errors sent, errors seen by the readers, winners

scopeVars == <<producer, returned, flags, err, scope, pc, todo, read>>

ScopeInit ==
    /\ producer = [s \in Sub |-> "run"] /\ returned = [s \in Sub |-> "none"]
    /\ flags = [s \in Sub |-> [unsubscribed |-> FALSE, unsub |-> FALSE]]
    /\ err = [s \in Sub |-> [q |-> <<>>, closed |-> FALSE]]
    /\ scope = [mu |-> FALSE, subs |-> {}, closed |-> FALSE]
    /\ pc = [a \in Sub \cup Closer |-> [at |-> IF a \in Sub THEN "new" ELSE "idle", of |-> a]]
    /\ todo = [a \in Closer |-> {}]
    /\ read = [sent |-> {}, seen |-> {}, winner |-> [s \in Sub |-> "nobody"]]

goto(a, at) == pc' = [pc EXCEPT ![a].at = at]

-----------------------------------------------------------------------------
\* NewSubscription's goroutine: the producer, its report, the closed channel.
Produce(s) ==
    /\ producer[s] = "run"
    /\ \/ returned' = [returned EXCEPT ![s] = "error"]
       \/ returned' = [returned EXCEPT ![s] = "nil"]
    /\ producer' = [producer EXCEPT ![s] = "ended"]
    /\ UNCHANGED <<flags, err, scope, pc, todo, read>>

Report(s) ==
    /\ producer[s] = "ended"
    /\ producer' = [producer EXCEPT ![s] = "reported"]
    /\ flags' = [flags EXCEPT ![s].unsubscribed = TRUE]
    /\ LET failed == ~flags[s].unsubscribed /\ returned[s] = "error"
       IN /\ err' = [err EXCEPT ![s].q = IF failed THEN <<"error">> ELSE @]
          /\ read' = [read EXCEPT !.sent = IF failed THEN @ \cup {s} ELSE @]
    /\ UNCHANGED <<returned, scope, pc, todo>>

CloseErr(s) ==
    /\ producer[s] = "reported"
    /\ producer' = [producer EXCEPT ![s] = "over"]
    /\ err' = [err EXCEPT ![s].closed = TRUE]
    /\ UNCHANGED <<returned, flags, scope, pc, todo, read>>

\* The reader of Err.
ReadErr(s) ==
    /\ err[s].q # <<>>
    /\ err' = [err EXCEPT ![s].q = <<>>]
    /\ read' = [read EXCEPT !.seen = @ \cup {s}]
    /\ UNCHANGED <<producer, returned, flags, scope, pc, todo>>

-----------------------------------------------------------------------------
Track(s) ==
    /\ pc[s].at = "new" /\ ~scope.mu
    /\ IF scope.closed
       THEN goto(s, "refused") /\ UNCHANGED scope
       ELSE goto(s, "idle") /\ scope' = [scope EXCEPT !.subs = @ \cup {s}]
    /\ UNCHANGED <<producer, returned, flags, err, todo, read>>

\* scopeSub.Unsubscribe begins.
CallUnsubscribe(s) ==
    /\ pc[s].at = "idle"
    /\ goto(s, "call")
    /\ UNCHANGED <<producer, returned, flags, err, scope, todo, read>>

\* funcSub.Unsubscribe up to the end of its critical section.
Unsubscribe(a) ==
    /\ pc[a].at = "call"
    /\ LET s == pc[a].of
       IN IF flags[s].unsubscribed
          THEN goto(a, "back") /\ UNCHANGED <<flags, read>>
          ELSE /\ goto(a, "wait")
               /\ flags' = [flags EXCEPT ![s] = [unsubscribed |-> TRUE, unsub |-> TRUE]]
               /\ read' = [read EXCEPT !.winner[s] = a]
    /\ UNCHANGED <<producer, returned, err, scope, todo>>

\* <-s.err
AwaitProducer(a) ==
    /\ pc[a].at = "wait"
    /\ LET s == pc[a].of
       IN \/ err[s].q # <<>> /\ err' = [err EXCEPT ![s].q = <<>>]
          \/ err[s].q = <<>> /\ err[s].closed /\ UNCHANGED err
    /\ goto(a, "back")
    /\ UNCHANGED <<producer, returned, flags, scope, todo, read>>

\* The wrapper leaves the scope.
Delete(s) ==
    /\ pc[s].at = "back" /\ ~scope.mu
    /\ scope' = [scope EXCEPT !.subs = @ \ {s}]
    /\ goto(s, "done")
    /\ UNCHANGED <<producer, returned, flags, err, todo, read>>

CloseScope(a) ==
    /\ pc[a].at = "idle" /\ ~scope.mu
    /\ IF scope.closed
       THEN goto(a, "done") /\ UNCHANGED <<scope, todo>>
       ELSE /\ goto(a, "loop")
            /\ scope' = [scope EXCEPT !.mu = TRUE, !.closed = TRUE]
            /\ todo' = [todo EXCEPT ![a] = scope.subs]
    /\ UNCHANGED <<producer, returned, flags, err, read>>

CloseNext(a) ==
    /\ pc[a].at = "loop"
    /\ IF todo[a] = {}
       THEN /\ scope' = [scope EXCEPT !.mu = FALSE, !.subs = {}]
            /\ goto(a, "done") /\ UNCHANGED todo
       ELSE /\ \E s \in todo[a] : /\ pc' = [pc EXCEPT ![a] = [at |-> "call", of |-> s]]
                                  /\ todo' = [todo EXCEPT ![a] = @ \ {s}]
            /\ UNCHANGED scope
    /\ UNCHANGED <<producer, returned, flags, err, read>>

CloseBack(a) ==
    /\ pc[a].at = "back"
    /\ goto(a, "loop")
    /\ UNCHANGED <<producer, returned, flags, err, scope, todo, read>>

-----------------------------------------------------------------------------
Finish(s) == Report(s) \/ CloseErr(s)
Ending(a) == \/ Unsubscribe(a) \/ AwaitProducer(a)
             \/ a \in Sub /\ Delete(a)
             \/ a \in Closer /\ (CloseNext(a) \/ CloseBack(a))

ScopeNext ==
    \/ \E s \in Sub : Produce(s) \/ Finish(s) \/ ReadErr(s) \/ Track(s) \/ CallUnsubscribe(s)
    \/ \E a \in Sub \cup Closer : Ending(a)
    \/ \E a \in Closer : CloseScope(a)

ScopeSpec == ScopeInit /\ [][ScopeNext]_scopeVars

-----------------------------------------------------------------------------
(***************************************************************************)
(* An error the producer sent is left for the reader of Err, never taken   *)
(* by Unsubscribe; the goroutine whose Unsubscribe ended the subscription  *)
(* gets back only when the producer is over; a closed scope tracks nothing *)
(* once Close is done.                                                     *)
(***************************************************************************)
SubscriptionSound ==
    /\ \A s \in read.sent : err[s].q # <<>> \/ s \in read.seen
    /\ \A s \in Sub : LET a == read.winner[s]
                      IN a \in Sub \cup Closer =>
                           \/ pc[a].of = s /\ pc[a].at = "wait"
                           \/ producer[s] = "over"
    /\ (scope.closed /\ ~scope.mu) => scope.subs = {}

(***************************************************************************)
(* While a goroutine is inside Unsubscribe or Close, somebody can go on: a *)
(* goroutine that is inside such a call, the producer's goroutine, or a    *)
(* producer whose channel was closed.  No call is repeated, so every call  *)
(* returns.                                                                *)
(***************************************************************************)
SubscriptionGoesOn ==
    (\E a \in Sub \cup Closer : pc[a].at \in {"call", "wait", "back", "loop"}) =>
        \/ \E a \in Sub \cup Closer : ENABLED Ending(a)
        \/ \E s \in Sub : ENABLED Finish(s) \/ (flags[s].unsub /\ ENABLED Produce(s))

-----------------------------------------------------------------------------
(***************************************************************************)
(* A subscription that is set up again whenever it fails                   *)
(* (event/subscription.go, resubscribeSub).  The inner subscription is     *)
(* what the loop sees of it: alive, failed or ended, until unsubscribed.   *)
(***************************************************************************)

CONSTANTS Caller,      \* goroutines that call Unsubscribe
          BackoffMax   \* in units of a tenth of it

VARIABLES resubLoop, \* where s.loop is
          attempt,   \* the goroutine that calls s.fn
          inner,     \* the subscription of the loop
          waitTime,
          once,      \* who runs the function of unsubOnce, and whether it is done
          caller,    \* per caller
          left       \* history: subscriptions established and not unsubscribed

resubVars == <<resubLoop, attempt, inner, waitTime, once, caller, left>>

ResubInit == /\ resubLoop = "try" /\ attempt = "none" /\ inner = "none"
             /\ waitTime = BackoffMax \div 10
             /\ once = "unused" /\ caller = [c \in Caller |-> "idle"] /\ left = {}

\* subscribe starts the goroutine that calls fn.
Try == /\ resubLoop = "try"
       /\ attempt' = "calling" /\ resubLoop' = "select"
       /\ UNCHANGED <<inner, waitTime, once, caller, left>>

FnReturns == /\ attempt = "calling"
             /\ \/ attempt' = "ok" /\ left' = left \cup {"new"}
                \/ attempt' = "failed" /\ UNCHANGED left
             /\ UNCHANGED <<resubLoop, inner, waitTime, once, caller>>

Subscribed == /\ resubLoop = "select" /\ attempt = "ok"
              /\ resubLoop' = "wait" /\ attempt' = "none" /\ inner' = "alive"
              /\ left' = {"current"}
              /\ UNCHANGED <<waitTime, once, caller>>

\* backoffWait: the time of the last try is long ago or not.
Failed == /\ resubLoop = "select" /\ attempt = "failed"
          /\ resubLoop' = "backoff" /\ attempt' = "none"
          /\ \/ waitTime' = BackoffMax \div 10
             \/ waitTime' = IF 2 * waitTime > BackoffMax THEN BackoffMax ELSE 2 * waitTime
          /\ UNCHANGED <<inner, once, caller, left>>

BackoffOver == /\ resubLoop = "backoff" /\ resubLoop' = "try"
               /\ UNCHANGED <<attempt, inner, waitTime, once, caller, left>>

\* The producer of the inner subscription.
InnerEnds == /\ inner = "alive" /\ inner' \in {"failed", "ended"}
             /\ UNCHANGED <<resubLoop, attempt, waitTime, once, caller, left>>

\* waitForError and the Unsubscribe after it.
InnerHeard == /\ resubLoop = "wait" /\ inner \in {"failed", "ended"}
              /\ resubLoop' = IF inner = "ended" THEN "closed" ELSE "try"
              /\ inner' = "none" /\ left' = {}
              /\ UNCHANGED <<attempt, waitTime, once, caller>>

-----------------------------------------------------------------------------
\* Unsubscribe: only the first caller sends on s.unsub; the others wait for it.
CallResubUnsubscribe(c) ==
    /\ caller[c] = "idle"
    /\ IF once = "unused"
       THEN once' = "running" /\ caller' = [caller EXCEPT ![c] = "send"]
       ELSE caller' = [caller EXCEPT ![c] = "once"] /\ UNCHANGED once
    /\ UNCHANGED <<resubLoop, attempt, inner, waitTime, left>>

\* Who of the loop's selects receives from s.unsub, and what it does then.
HearUnsub(c) ==
    /\ caller[c] = "send" /\ resubLoop \in {"select", "backoff", "wait"}
    /\ caller' = [caller EXCEPT ![c] = "wait"]
    /\ CASE resubLoop = "select"  -> resubLoop' = "drain" /\ UNCHANGED <<inner, left>>
         [] resubLoop = "backoff" -> resubLoop' = "closed" /\ UNCHANGED <<inner, left>>
         [] resubLoop = "wait"    -> resubLoop' = "closed" /\ inner' = "none" /\ left' = {}
    /\ UNCHANGED <<attempt, waitTime, once>>

\* <-subscribed after the cancel; what fn set up meanwhile is dropped.
Drain == /\ resubLoop = "drain" /\ attempt \in {"ok", "failed"}
         /\ resubLoop' = "closed" /\ attempt' = "none"
         /\ UNCHANGED <<inner, waitTime, once, caller, left>>

ErrClosed(c) == /\ caller[c] = "wait" /\ resubLoop = "closed"
                /\ caller' = [caller EXCEPT ![c] = "done"] /\ once' = "done"
                /\ UNCHANGED <<resubLoop, attempt, inner, waitTime, left>>

OnceDone(c) == /\ caller[c] = "once" /\ once = "done"
               /\ caller' = [caller EXCEPT ![c] = "done"]
               /\ UNCHANGED <<resubLoop, attempt, inner, waitTime, once, left>>

LoopStep == Try \/ Subscribed \/ Failed \/ BackoffOver \/ InnerHeard \/ Drain
CallStep(c) == HearUnsub(c) \/ ErrClosed(c) \/ OnceDone(c)

ResubNext == LoopStep \/ FnReturns \/ InnerEnds \/ \E c \in Caller : CallResubUnsubscribe(c) \/ CallStep(c)

ResubSpec == ResubInit /\ [][ResubNext]_resubVars

-----------------------------------------------------------------------------
(***************************************************************************)
(* "The time between calls is adapted based on the error rate, but will    *)
(* never exceed backoffMax" (subscription.go:96); and the loop leaves a    *)
(* subscription behind only when fn set it up after the cancel.            *)
(***************************************************************************)
ResubscribeSound ==
    /\ waitTime \in 1 .. BackoffMax
    /\ "current" \in left => resubLoop = "wait" /\ inner # "none"

-----------------------------------------------------------------------------
(***************************************************************************)
(* event.TypeMux (event/event.go): Post copies the subscriptions of a type *)
(* under the lock and delivers outside it; Unsubscribe and Stop close a    *)
(* subscription, which must wait for the delivery in progress and release  *)
(* it when nobody reads.  A subscription is also the goroutine that owns   *)
(* it.                                                                     *)
(***************************************************************************)

CONSTANTS Poster,  \* goroutines that post one event each
          Type

NoOne == "noone"

VARIABLES subm,     \* per type: the slice of subscriptions
          stopped,
          mutex,    \* mux.mutex: held by Stop, otherwise taken for one step
          box,      \* per subscription: its fields, whether postMu is locked, and the channel
          slice,    \* per poster: the slice it goes through
          post,     \* per poster: where it is, the event's time, the postC its select evaluated
          place,    \* per subscription's owner, and "stop": where it is
          clock,    \* subscriptions and events are ordered by it
          late      \* history: something was sent on a closed channel, which panics

muxVars == <<subm, stopped, mutex, box, slice, post, place, clock, late>>

MuxInit ==
    /\ subm = [t \in Type |-> <<>>] /\ stopped = FALSE /\ mutex = NoOne
    /\ box = [x \in Sub |-> [closing |-> FALSE, closed |-> FALSE, closeMu |-> NoOne, postMu |-> FALSE,
                             postC |-> "chan", chan |-> "open", created |-> 0]]
    /\ slice = [p \in Poster |-> <<>>]
    /\ post = [p \in Poster |-> [at |-> "idle", time |-> 0, to |-> "nil"]]
    /\ place = [x \in Sub \cup {"stop"} |-> [at |-> IF x = "stop" THEN "idle" ELSE "new", todo |-> {}]]
    /\ clock = 0 /\ late = FALSE

moveTo(x, at) == place' = [place EXCEPT ![x].at = at]
\* The posters that hold x.postMu for reading.
delivering(x) == {p \in Poster : post[p].at \in {"deliver", "select"} /\ Head(slice[p]) = x}

-----------------------------------------------------------------------------
\* newsub reads the clock before Subscribe takes the lock.
NewSub(x) ==
    /\ place[x].at = "new"
    /\ clock' = clock + 1
    /\ box' = [box EXCEPT ![x].created = clock']
    /\ moveTo(x, "subscribe")
    /\ UNCHANGED <<subm, stopped, mutex, slice, post, late>>

Subscribe(x) ==
    /\ place[x].at = "subscribe" /\ mutex = NoOne
    /\ IF stopped
       THEN box' = [box EXCEPT ![x].closed = TRUE, ![x].chan = "closed"] /\ UNCHANGED subm
       ELSE \E ts \in (SUBSET Type) \ {{}} :
              /\ subm' = [t \in Type |-> IF t \in ts THEN Append(subm[t], x) ELSE subm[t]]
              /\ UNCHANGED box
    /\ moveTo(x, "idle")
    /\ UNCHANGED <<stopped, mutex, slice, post, clock, late>>

NewEvent(p) ==
    /\ post[p].at = "idle"
    /\ clock' = clock + 1
    /\ post' = [post EXCEPT ![p].at = "post", ![p].time = clock']
    /\ UNCHANGED <<subm, stopped, mutex, box, slice, place, late>>

Post(p) ==
    /\ post[p].at = "post" /\ mutex = NoOne
    /\ IF stopped
       THEN post' = [post EXCEPT ![p].at = "refused"] /\ UNCHANGED slice
       ELSE /\ post' = [post EXCEPT ![p].at = "next"]
            /\ \E t \in Type : slice' = [slice EXCEPT ![p] = subm[t]]
    /\ UNCHANGED <<subm, stopped, mutex, box, place, clock, late>>

\* The loop of Post: a stale event is not delivered; postMu is read-locked,
\* unless closewait holds it.
NextSub(p) ==
    /\ post[p].at = "next"
    /\ IF slice[p] = <<>>
       THEN post' = [post EXCEPT ![p].at = "done"] /\ UNCHANGED slice
       ELSE LET x == Head(slice[p])
            IN IF box[x].created > post[p].time
               THEN slice' = [slice EXCEPT ![p] = Tail(@)] /\ UNCHANGED post
               ELSE /\ ~box[x].postMu
                    /\ post' = [post EXCEPT ![p].at = "deliver"] /\ UNCHANGED slice
    /\ UNCHANGED <<subm, stopped, mutex, box, place, clock, late>>

\* deliver's select evaluates s.postC once, before it waits.
Select(p) ==
    /\ post[p].at = "deliver"
    /\ post' = [post EXCEPT ![p].at = "select", ![p].to = box[Head(slice[p])].postC]
    /\ UNCHANGED <<subm, stopped, mutex, box, slice, place, clock, late>>

\* The two cases of the select; a reader may or may not be there, and a nil
\* channel is never ready.
Deliver(p) ==
    /\ post[p].at = "select"
    /\ LET x == Head(slice[p])
       IN \/ post[p].to = "chan" /\ late' = (late \/ box[x].chan = "closed")
          \/ box[x].closing /\ UNCHANGED late
    /\ post' = [post EXCEPT ![p].at = "next"]
    /\ slice' = [slice EXCEPT ![p] = Tail(@)]
    /\ UNCHANGED <<subm, stopped, mutex, box, place, clock>>

-----------------------------------------------------------------------------
\* del: the slice is replaced, so that a Post keeps the one it read.
posdelete(subs, pos) == SubSeq(subs, 1, pos - 1) \o SubSeq(subs, pos + 1, Len(subs))

Del(x) ==
    /\ place[x].at = "idle" /\ mutex = NoOne
    /\ subm' = [t \in Type |-> IF x \in Range(subm[t])
                               THEN posdelete(subm[t], CHOOSE i \in DOMAIN subm[t] : subm[t][i] = x)
                               ELSE subm[t]]
    /\ moveTo(x, "closewait")
    /\ UNCHANGED <<stopped, mutex, box, slice, post, clock, late>>

target(a) == IF a = "stop" THEN CHOOSE x \in place[a].todo : TRUE ELSE a
done(a) == IF a = "stop" THEN [at |-> "closewait", todo |-> place[a].todo \ {target(a)}]
                         ELSE [at |-> "over", todo |-> {}]

\* closewait takes closeMu and closes s.closing.
CloseWait(a) ==
    /\ place[a].at = "closewait" /\ (a = "stop" => place[a].todo # {})
    /\ LET x == target(a)
       IN /\ box[x].closeMu = NoOne
          /\ IF box[x].closed
             THEN place' = [place EXCEPT ![a] = done(a)] /\ UNCHANGED box
             ELSE /\ moveTo(a, "drain")
                  /\ box' = [box EXCEPT ![x].closeMu = a, ![x].closed = TRUE, ![x].closing = TRUE]
    /\ UNCHANGED <<subm, stopped, mutex, slice, post, clock, late>>

\* Mutant: the channel is closed without locking postMu.
ClosePostCUnlocked(a) ==
    /\ place[a].at = "drain"
    /\ box' = [box EXCEPT ![target(a)].chan = "closed"]
    /\ moveTo(a, "forget")
    /\ UNCHANGED <<subm, stopped, mutex, slice, post, clock, late>>

\* It locks postMu, which waits for the deliveries, and closes the channel.
ClosePostC(a) ==
    /\ place[a].at = "drain"
    /\ LET x == target(a)
       IN /\ delivering(x) = {}
          /\ box' = [box EXCEPT ![x].postMu = TRUE, ![x].chan = "closed"]
    /\ moveTo(a, "forget")
    /\ UNCHANGED <<subm, stopped, mutex, slice, post, clock, late>>

\* It forgets the channel and unlocks.
ForgetPostC(a) ==
    /\ place[a].at = "forget"
    /\ LET x == target(a)
       IN box' = [box EXCEPT ![x].postC = "nil", ![x].postMu = FALSE, ![x].closeMu = NoOne]
    /\ place' = [place EXCEPT ![a] = done(a)]
    /\ UNCHANGED <<subm, stopped, mutex, slice, post, clock, late>>

StopMux ==
    /\ place["stop"].at = "idle" /\ mutex = NoOne
    /\ mutex' = "stop"
    /\ place' = [place EXCEPT !["stop"] = [at |-> "closewait", todo |-> UNION {Range(subm[t]) : t \in Type}]]
    /\ UNCHANGED <<subm, stopped, box, slice, post, clock, late>>

StopDone ==
    /\ place["stop"].at = "closewait" /\ place["stop"].todo = {}
    /\ subm' = [t \in Type |-> <<>>] /\ stopped' = TRUE /\ mutex' = NoOne
    /\ moveTo("stop", "over")
    /\ UNCHANGED <<box, slice, post, clock, late>>

-----------------------------------------------------------------------------
Actor == Sub \cup {"stop"}
Closing(a) == CloseWait(a) \/ ClosePostC(a) \/ ForgetPostC(a) \/ (a = "stop" /\ StopDone)
\* What a poster does without a reader.
Released(p) == \/ NextSub(p) \/ Select(p)
               \/ post[p].at = "select" /\ box[Head(slice[p])].closing /\ Deliver(p)

MuxNext == \/ \E x \in Sub : NewSub(x) \/ Subscribe(x) \/ Del(x)
           \/ \E p \in Poster : NewEvent(p) \/ Post(p) \/ NextSub(p) \/ Select(p) \/ Deliver(p)
           \/ \E a \in Actor : Closing(a)
           \/ StopMux

MuxSpec == MuxInit /\ [][MuxNext]_muxVars

-----------------------------------------------------------------------------
(***************************************************************************)
(* No event is sent on a closed channel, and the channel a select has      *)
(* evaluated stays open until the select is over; a select on nil is one   *)
(* that the closed s.closing releases.  Once Stop has returned nobody is   *)
(* registered, and an event can only still reach a subscription whose      *)
(* owner is inside Unsubscribe.                                            *)
(***************************************************************************)
MuxSound ==
    /\ ~late
    /\ \A p \in Poster : post[p].at = "select" =>
          LET x == Head(slice[p])
          IN IF post[p].to = "nil" THEN box[x].closing
             ELSE box[x].chan = "open" /\ (stopped => place[x].at \in {"closewait", "drain"})
    /\ stopped => \A t \in Type : subm[t] = <<>>

(***************************************************************************)
(* While a goroutine is inside Unsubscribe or Stop, such a goroutine or a  *)
(* Post can go on although nobody reads: the calls return.                 *)
(***************************************************************************)
MuxGoesOn ==
    (\E a \in Actor : place[a].at \in {"closewait", "drain", "forget"}) =>
        (\E a \in Actor : ENABLED Closing(a)) \/ (\E p \in Poster : ENABLED Released(p))

-----------------------------------------------------------------------------
(* Subscriptions and their scope.  SubscriptionSound is not inductive: that  *)
(* Unsubscribe never takes an error that was sent needs to know that whoever *)
(* waits for the end of a producer was first to mark the subscription, which *)
(* keeps the producer from sending.                                          *)

Flags == [unsubscribed : BOOLEAN, unsub : BOOLEAN]
ErrChan == [q : Seq({"error"}), closed : BOOLEAN]

ScopeTypeOK ==
    /\ producer \in [Sub -> {"run", "ended", "reported", "over"}]
    /\ flags \in [Sub -> Flags]
    /\ err \in [Sub -> ErrChan]
    /\ scope \in [mu : BOOLEAN, subs : SUBSET Sub, closed : BOOLEAN]
    /\ pc \in [Sub \cup Closer -> [at : {"new", "refused", "idle", "call", "wait", "back", "done", "loop"},
                                   of : Sub \cup Closer]]
    /\ \A a \in Sub \cup Closer : pc[a].at \in {"call", "wait"} \/ a \in Sub => pc[a].of \in Sub
    /\ todo \in [Closer -> SUBSET Sub]
    /\ read \in [sent : SUBSET Sub, seen : SUBSET Sub, winner : [Sub -> Sub \cup Closer \cup {"nobody"}]]

\* The marks of a subscription, and who waits for it.
MarksOK ==
    /\ \A s \in read.sent : flags[s].unsubscribed /\ (err[s].q # <<>> \/ s \in read.seen)
    /\ \A s \in Sub : /\ err[s].q # <<>> => s \in read.sent
                      /\ err[s].closed => producer[s] = "over"
                      /\ read.winner[s] # "nobody" => flags[s].unsubscribed
    /\ \A a \in Sub \cup Closer : pc[a].at = "wait" =>
          read.winner[pc[a].of] = a /\ flags[pc[a].of].unsubscribed /\ pc[a].of \notin read.sent

\* Whoever ended a subscription waits for it or comes back after its producer.
WaitOK == \A s \in Sub : LET a == read.winner[s]
                         IN a \in Sub \cup Closer =>
                              \/ pc[a].of = s /\ pc[a].at = "wait"
                              \/ producer[s] = "over"

\* A scope that is closed and free tracks nothing.
ScopeOK == (scope.closed /\ ~scope.mu) => scope.subs = {}

ScopeInv == ScopeTypeOK /\ MarksOK /\ WaitOK /\ ScopeOK

\* What an assignment to one field of one subscription changes.
LEMMA Marked ==
  ASSUME NEW f \in [Sub -> Flags], NEW s \in Sub
  PROVE  LET g == [f EXCEPT ![s].unsubscribed = TRUE]
         IN g \in [Sub -> Flags] /\ g[s].unsubscribed /\ \A r \in Sub : r # s => g[r] = f[r]
<1> DEFINE x == [unsubscribed |-> TRUE, unsub |-> f[s].unsub]
<1>1. f[s] \in Flags
  BY Zenon
<1>2. \A b \in BOOLEAN : [f[s] EXCEPT !.unsubscribed = b] = [unsubscribed |-> b, unsub |-> f[s].unsub]
  BY <1>1 DEF Flags
<1>3. [f[s] EXCEPT !.unsubscribed = TRUE] = x
  BY <1>2, Zenon
<1>4. x \in Flags /\ x.unsubscribed
  <2>1. f[s].unsub \in BOOLEAN
    BY <1>1, Zenon DEF Flags
  <2> QED
    BY <2>1, Zenon DEF Flags
<1>5. [f EXCEPT ![s].unsubscribed = TRUE] = [f EXCEPT ![s] = x]
  BY <1>3, Zenon
<1> HIDE DEF x
<1> QED
  BY <1>4, <1>5, Zenon

\* The same for the value in the error channel.
LEMMA Queued ==
  ASSUME NEW f \in [Sub -> ErrChan], NEW s \in Sub, NEW v \in Seq({"error"})
  PROVE  LET g == [f EXCEPT ![s].q = v]
         IN /\ g \in [Sub -> ErrChan] /\ g[s].q = v /\ g[s].closed = f[s].closed
            /\ \A r \in Sub : r # s => g[r] = f[r]
<1> DEFINE x == [q |-> v, closed |-> f[s].closed]
<1>1. f[s] \in ErrChan
  BY Zenon
<1>2. [f[s] EXCEPT !.q = v] = x
  BY <1>1 DEF ErrChan
<1>3. x \in ErrChan /\ x.closed = f[s].closed /\ x.q = v
  <2>1. f[s].closed \in BOOLEAN
    BY <1>1, Zenon DEF ErrChan
  <2> QED
    BY <2>1, Zenon DEF ErrChan
<1>4. [f EXCEPT ![s].q = v] = [f EXCEPT ![s] = x]
  BY <1>2, Zenon
<1> HIDE DEF x
<1> QED
  BY <1>3, <1>4, Zenon

\* The same for the closed mark of the error channel.
LEMMA ClosedErr ==
  ASSUME NEW f \in [Sub -> ErrChan], NEW s \in Sub
  PROVE  LET g == [f EXCEPT ![s].closed = TRUE]
         IN g \in [Sub -> ErrChan] /\ g[s].q = f[s].q /\ \A r \in Sub : r # s => g[r] = f[r]
<1> DEFINE x == [q |-> f[s].q, closed |-> TRUE]
<1>1. f[s] \in ErrChan
  BY Zenon
<1>2. \A b \in BOOLEAN : [f[s] EXCEPT !.closed = b] = [q |-> f[s].q, closed |-> b]
  BY <1>1 DEF ErrChan
<1>3. [f[s] EXCEPT !.closed = TRUE] = x
  BY <1>2, Zenon
<1>4. x \in ErrChan /\ x.q = f[s].q
  <2>1. f[s].q \in Seq({"error"})
    BY <1>1, Zenon DEF ErrChan
  <2> QED
    BY <2>1, Zenon DEF ErrChan
<1>5. [f EXCEPT ![s].closed = TRUE] = [f EXCEPT ![s] = x]
  BY <1>3, Zenon
<1> HIDE DEF x
<1> QED
  BY <1>4, <1>5, Zenon

\* A scope starts empty, with its subscriptions unmarked.
LEMMA InitScope == ASSUME "nobody" \notin Sub \cup Closer, ScopeInit PROVE ScopeInv
<1>1. ScopeTypeOK
  BY DEF ScopeInit, ScopeTypeOK, Flags, ErrChan
<1>2. MarksOK /\ WaitOK /\ ScopeOK
  BY Zenon DEF ScopeInit, MarksOK, WaitOK, ScopeOK
<1> QED
  BY <1>1, <1>2, Zenon DEF ScopeInv

\* The goroutine of NewSubscription, and the reader of its error.
LEMMA ProducerSteps ==
  ASSUME ScopeInv, NEW s \in Sub, Produce(s) \/ Finish(s) \/ ReadErr(s)
  PROVE  ScopeInv'
<1> USE DEF ScopeInv
<1>1. UNCHANGED <<scope, pc, todo>>
  BY Zenon DEF Produce, Finish, Report, CloseErr, ReadErr
<1>2. CASE Produce(s)
  <2>1. producer[s] = "run" /\ producer' = [producer EXCEPT ![s] = "ended"] /\ UNCHANGED <<flags, err, read>>
    BY <1>2, Zenon DEF Produce
  <2>2. ScopeTypeOK'
    BY <1>1, <2>1, Zenon DEF ScopeTypeOK
  <2>3. MarksOK' /\ WaitOK' /\ ScopeOK'
    BY <1>1, <2>1 DEF ScopeTypeOK, MarksOK, WaitOK, ScopeOK
  <2> QED
    BY <2>2, <2>3, Zenon
<1>3. CASE Report(s) /\ ~flags[s].unsubscribed /\ returned[s] = "error"
  <2>1. /\ producer[s] = "ended" /\ producer' = [producer EXCEPT ![s] = "reported"]
        /\ flags' = [flags EXCEPT ![s].unsubscribed = TRUE]
        /\ err' = [err EXCEPT ![s].q = <<"error">>]
        /\ read' = [read EXCEPT !.sent = @ \cup {s}]
    BY <1>3, Zenon DEF Report
  <2>2. read'.sent = read.sent \cup {s} /\ read'.seen = read.seen /\ read'.winner = read.winner
    BY <2>1, Zenon DEF ScopeTypeOK
  <2>3. /\ flags' \in [Sub -> Flags]
        /\ flags'[s].unsubscribed /\ \A r \in Sub : r # s => flags'[r] = flags[r]
    <3>1. flags \in [Sub -> Flags]
      BY Zenon DEF ScopeTypeOK
    <3> QED
      BY <2>1, <3>1, Marked, Zenon
  <2>4. /\ err' \in [Sub -> ErrChan]
        /\ err'[s].q # <<>> /\ err'[s].closed = err[s].closed
        /\ \A r \in Sub : r # s => err'[r] = err[r]
    <3> DEFINE v == <<"error">>
    <3>1. v \in Seq({"error"}) /\ v # <<>>
      OBVIOUS
    <3>2. err \in [Sub -> ErrChan] /\ err' = [err EXCEPT ![s].q = v]
      BY <2>1, Zenon DEF ScopeTypeOK
    <3> HIDE DEF v
    <3> QED
      BY <3>1, <3>2, Queued
  <2>5. read' \in [sent : SUBSET Sub, seen : SUBSET Sub, winner : [Sub -> Sub \cup Closer \cup {"nobody"}]]
    BY <2>1, Zenon DEF ScopeTypeOK
  <2>6. ScopeTypeOK'
    BY <1>1, <2>1, <2>3, <2>4, <2>5, Zenon DEF ScopeTypeOK
  <2>7. \A a \in Sub \cup Closer : pc[a].at = "wait" => pc[a].of # s
    BY <1>3, Zenon DEF MarksOK
  <2>8. MarksOK'
    <3>1. \A r \in read'.sent : flags'[r].unsubscribed /\ (err'[r].q # <<>> \/ r \in read'.seen)
      BY <2>2, <2>3, <2>4 DEF ScopeTypeOK, MarksOK
    <3>2. \A r \in Sub : /\ err'[r].q # <<>> => r \in read'.sent
                         /\ err'[r].closed => producer'[r] = "over"
                         /\ read'.winner[r] # "nobody" => flags'[r].unsubscribed
      BY <2>1, <2>2, <2>3, <2>4 DEF ScopeTypeOK, MarksOK
    <3>3. \A a \in Sub \cup Closer : pc'[a].at = "wait" =>
             read'.winner[pc'[a].of] = a /\ flags'[pc'[a].of].unsubscribed /\ pc'[a].of \notin read'.sent
      BY <1>1, <2>2, <2>3, <2>7 DEF ScopeTypeOK, MarksOK
    <3> QED
      BY <3>1, <3>2, <3>3, Zenon DEF MarksOK
  <2>9. WaitOK' /\ ScopeOK'
    BY <1>1, <2>1, <2>2, Zenon DEF ScopeTypeOK, WaitOK, ScopeOK
  <2> QED
    BY <2>6, <2>8, <2>9, Zenon
<1>4. CASE Report(s) /\ ~(~flags[s].unsubscribed /\ returned[s] = "error")
  <2>1. /\ producer[s] = "ended" /\ producer' = [producer EXCEPT ![s] = "reported"]
        /\ flags' = [flags EXCEPT ![s].unsubscribed = TRUE]
        /\ err' = [err EXCEPT ![s].q = @] /\ read' = [read EXCEPT !.sent = @]
    BY <1>4, Zenon DEF Report
  <2>2. err' = err /\ read' = read
    <3>1. err[s] \in ErrChan /\ err \in [Sub -> ErrChan]
      BY Zenon DEF ScopeTypeOK
    <3>2. [err[s] EXCEPT !.q = @] = err[s]
      BY <3>1, Zenon DEF ErrChan
    <3>3. err' = err
      BY <2>1, <3>1, <3>2, Zenon
    <3>4. read' = read
      BY <2>1, Zenon DEF ScopeTypeOK
    <3> QED
      BY <3>3, <3>4, Zenon
  <2>3. /\ flags' \in [Sub -> Flags]
        /\ flags'[s].unsubscribed /\ \A r \in Sub : r # s => flags'[r] = flags[r]
    <3>1. flags \in [Sub -> Flags]
      BY Zenon DEF ScopeTypeOK
    <3> QED
      BY <2>1, <3>1, Marked, Zenon
  <2>4. ScopeTypeOK'
    BY <1>1, <2>1, <2>2, <2>3, Zenon DEF ScopeTypeOK
  <2>5. MarksOK'
    BY <1>1, <2>1, <2>2, <2>3 DEF ScopeTypeOK, MarksOK
  <2>6. WaitOK' /\ ScopeOK'
    BY <1>1, <2>1, <2>2, Zenon DEF ScopeTypeOK, WaitOK, ScopeOK
  <2> QED
    BY <2>4, <2>5, <2>6, Zenon
<1>5. CASE CloseErr(s)
  <2>1. /\ producer' = [producer EXCEPT ![s] = "over"] /\ err' = [err EXCEPT ![s].closed = TRUE]
        /\ UNCHANGED <<flags, read>>
    BY <1>5, Zenon DEF CloseErr
  <2>2. /\ err' \in [Sub -> ErrChan]
        /\ err'[s].q = err[s].q /\ \A r \in Sub : r # s => err'[r] = err[r]
    <3>1. err \in [Sub -> ErrChan]
      BY Zenon DEF ScopeTypeOK
    <3> QED
      BY <2>1, <3>1, ClosedErr, Zenon
  <2>3. ScopeTypeOK'
    BY <1>1, <2>1, <2>2, Zenon DEF ScopeTypeOK
  <2>4. MarksOK'
    BY <1>1, <2>1, <2>2 DEF ScopeTypeOK, MarksOK
  <2>5. WaitOK' /\ ScopeOK'
    BY <1>1, <2>1, Zenon DEF ScopeTypeOK, WaitOK, ScopeOK
  <2> QED
    BY <2>3, <2>4, <2>5, Zenon
<1>6. CASE ReadErr(s)
  <2>1. /\ err' = [err EXCEPT ![s].q = <<>>] /\ read' = [read EXCEPT !.seen = @ \cup {s}]
        /\ UNCHANGED <<producer, flags>>
    BY <1>6, Zenon DEF ReadErr
  <2>2. read'.sent = read.sent /\ read'.seen = read.seen \cup {s} /\ read'.winner = read.winner
    BY <2>1, Zenon DEF ScopeTypeOK
  <2>3. /\ err' \in [Sub -> ErrChan]
        /\ err'[s].q = <<>> /\ err'[s].closed = err[s].closed
        /\ \A r \in Sub : r # s => err'[r] = err[r]
    <3> DEFINE v == <<>>
    <3>1. v \in Seq({"error"})
      OBVIOUS
    <3>2. err \in [Sub -> ErrChan] /\ err' = [err EXCEPT ![s].q = v]
      BY <2>1, Zenon DEF ScopeTypeOK
    <3> HIDE DEF v
    <3>3. /\ err' \in [Sub -> ErrChan] /\ err'[s].q = v /\ err'[s].closed = err[s].closed
          /\ \A r \in Sub : r # s => err'[r] = err[r]
      BY <3>1, <3>2, Queued
    <3> QED
      BY <3>3, Zenon DEF v
  <2>4. read' \in [sent : SUBSET Sub, seen : SUBSET Sub, winner : [Sub -> Sub \cup Closer \cup {"nobody"}]]
    BY <2>1, Zenon DEF ScopeTypeOK
  <2>5. ScopeTypeOK'
    BY <1>1, <2>1, <2>3, <2>4, Zenon DEF ScopeTypeOK
  <2>6. MarksOK'
    BY <1>1, <2>1, <2>2, <2>3 DEF ScopeTypeOK, MarksOK
  <2>7. WaitOK' /\ ScopeOK'
    BY <1>1, <2>1, <2>2, Zenon DEF ScopeTypeOK, WaitOK, ScopeOK
  <2> QED
    BY <2>5, <2>6, <2>7, Zenon
<1> QED
  BY <1>2, <1>3, <1>4, <1>5, <1>6, Zenon DEF Finish

\* A goroutine that neither waits nor begins to.
LEMMA Elsewhere ==
  ASSUME ScopeInv, NEW a \in Sub \cup Closer, NEW p,
         p \in [at : {"new", "refused", "idle", "call", "back", "done", "loop"}, of : Sub \cup Closer],
         p.at = "call" \/ a \in Sub => p.of \in Sub,
         pc' = [pc EXCEPT ![a] = p], pc[a].at # "wait",
         scope' \in [mu : BOOLEAN, subs : SUBSET Sub, closed : BOOLEAN], ScopeOK',
         todo' \in [Closer -> SUBSET Sub], UNCHANGED <<producer, flags, err, read>>
  PROVE  ScopeInv'
<1> USE DEF ScopeInv
<1>1. ScopeTypeOK'
  BY Zenon DEF ScopeTypeOK
<1>2. \A c \in Sub \cup Closer : pc'[c].at = "wait" \/ pc[c].at = "wait" => pc'[c] = pc[c]
  BY Zenon DEF ScopeTypeOK
<1>3. MarksOK'
  BY <1>2 DEF MarksOK
<1>4. WaitOK'
  BY <1>2 DEF WaitOK
<1> QED
  BY <1>1, <1>3, <1>4, Zenon

\* The calls on the scope.
LEMMA ScopeSteps ==
  ASSUME ScopeInv, NEW a \in Sub \cup Closer,
         \/ a \in Sub /\ (Track(a) \/ CallUnsubscribe(a) \/ Delete(a))
         \/ a \in Closer /\ (CloseScope(a) \/ CloseNext(a) \/ CloseBack(a))
  PROVE  ScopeInv'
<1> USE DEF ScopeInv
<1> DEFINE at(l) == [pc[a] EXCEPT !.at = l]
<1>1. pc[a] \in [at : {"new", "refused", "idle", "call", "wait", "back", "done", "loop"}, of : Sub \cup Closer]
  BY Zenon DEF ScopeTypeOK
<1>2. \A l : goto(a, l) => pc' = [pc EXCEPT ![a] = at(l)]
  BY Zenon DEF goto, ScopeTypeOK
<1>3. \A l \in {"new", "refused", "idle", "call", "back", "done", "loop"} :
        /\ at(l) \in [at : {"new", "refused", "idle", "call", "back", "done", "loop"}, of : Sub \cup Closer]
        /\ at(l).at = l /\ at(l).of = pc[a].of
  BY <1>1, Zenon
<1> HIDE DEF at
<1>4. /\ scope \in [mu : BOOLEAN, subs : SUBSET Sub, closed : BOOLEAN] /\ todo \in [Closer -> SUBSET Sub]
      /\ a \in Sub => pc[a].of \in Sub
  BY Zenon DEF ScopeTypeOK
<1>5. CASE a \in Sub /\ Track(a)
  <2>1. scope' \in [mu : BOOLEAN, subs : SUBSET Sub, closed : BOOLEAN] /\ ScopeOK'
    BY <1>4, <1>5 DEF Track, ScopeOK
  <2>2. goto(a, "refused") \/ goto(a, "idle")
    BY <1>5, Zenon DEF Track
  <2>3. pc[a].at # "wait" /\ UNCHANGED <<producer, flags, err, todo, read>>
    BY <1>5, Zenon DEF Track
  <2> QED
    BY <1>2, <1>3, <1>4, <2>1, <2>2, <2>3, Elsewhere
<1>6. CASE a \in Sub /\ CallUnsubscribe(a)
  <2>1. pc[a].at # "wait" /\ pc[a].at = "idle" /\ goto(a, "call")
        /\ UNCHANGED <<producer, flags, err, scope, todo, read>>
    BY <1>6, Zenon DEF CallUnsubscribe
  <2>2. ScopeOK'
    BY <2>1, Zenon DEF ScopeOK
  <2>3. at("call").of \in Sub
    BY <1>3, <1>4, <1>6, Zenon
  <2> QED
    BY <1>2, <1>3, <1>4, <2>1, <2>2, <2>3, Elsewhere
<1>7. CASE a \in Sub /\ Delete(a)
  <2>1. /\ pc[a].at = "back" /\ scope' = [scope EXCEPT !.subs = @ \ {a}] /\ goto(a, "done")
        /\ UNCHANGED <<producer, flags, err, todo, read>>
    BY <1>7, Zenon DEF Delete
  <2>2. scope' \in [mu : BOOLEAN, subs : SUBSET Sub, closed : BOOLEAN] /\ ScopeOK'
    BY <1>4, <2>1, Zenon DEF ScopeOK
  <2> QED
    BY <1>2, <1>3, <1>4, <2>1, <2>2, Elsewhere
<1>8. CASE a \in Closer /\ CloseScope(a)
  <2>1. pc[a].at = "idle" /\ UNCHANGED <<producer, flags, err, read>>
    BY <1>8, Zenon DEF CloseScope
  <2>2. CASE scope.closed
    <3>1. goto(a, "done") /\ UNCHANGED <<scope, todo>>
      BY <1>8, <2>2, Zenon DEF CloseScope
    <3>2. ScopeOK'
      BY <3>1, Zenon DEF ScopeOK
    <3> QED
      BY <1>2, <1>3, <1>4, <2>1, <3>1, <3>2, Elsewhere
  <2>3. CASE ~scope.closed
    <3>1. /\ goto(a, "loop") /\ scope' = [scope EXCEPT !.mu = TRUE, !.closed = TRUE]
          /\ todo' = [todo EXCEPT ![a] = scope.subs]
      BY <1>8, <2>3, Zenon DEF CloseScope
    <3>2. scope' \in [mu : BOOLEAN, subs : SUBSET Sub, closed : BOOLEAN] /\ scope'.mu
      BY <1>4, <3>1, Zenon
    <3>3. ScopeOK' /\ todo' \in [Closer -> SUBSET Sub]
      BY <1>4, <1>8, <3>1, <3>2, Zenon DEF ScopeOK
    <3> QED
      BY <1>2, <1>3, <1>4, <2>1, <3>1, <3>2, <3>3, Elsewhere
  <2> QED
    BY <2>2, <2>3, Zenon
<1>9. CASE a \in Closer /\ CloseNext(a)
  <2>1. pc[a].at = "loop" /\ UNCHANGED <<producer, flags, err, read>>
    BY <1>9, Zenon DEF CloseNext
  <2>2. CASE todo[a] = {}
    <3>1. /\ scope' = [scope EXCEPT !.mu = FALSE, !.subs = {}] /\ goto(a, "done") /\ UNCHANGED todo
      BY <1>9, <2>2, Zenon DEF CloseNext
    <3>2. scope' \in [mu : BOOLEAN, subs : SUBSET Sub, closed : BOOLEAN] /\ ScopeOK'
      BY <1>4, <3>1, Zenon DEF ScopeOK
    <3> QED
      BY <1>2, <1>3, <1>4, <2>1, <3>1, <3>2, Elsewhere
  <2>3. CASE todo[a] # {}
    <3>1. PICK s \in todo[a] : /\ pc' = [pc EXCEPT ![a] = [at |-> "call", of |-> s]]
                               /\ todo' = [todo EXCEPT ![a] = @ \ {s}]
      BY <1>9, <2>3, Zenon DEF CloseNext
    <3>2. UNCHANGED scope /\ ScopeOK'
      BY <1>9, <2>3, Zenon DEF CloseNext, ScopeOK
    <3>3. s \in Sub /\ todo' \in [Closer -> SUBSET Sub]
      BY <1>4, <1>9, <3>1, Zenon
    <3> QED
      BY <1>4, <2>1, <3>1, <3>2, <3>3, Elsewhere, Zenon
  <2> QED
    BY <2>2, <2>3, Zenon
<1>10. CASE a \in Closer /\ CloseBack(a)
  <2>1. pc[a].at = "back" /\ goto(a, "loop") /\ UNCHANGED <<producer, flags, err, scope, todo, read>>
    BY <1>10, Zenon DEF CloseBack
  <2>2. ScopeOK'
    BY <2>1, Zenon DEF ScopeOK
  <2> QED
    BY <1>2, <1>3, <1>4, <2>1, <2>2, Elsewhere
<1> QED
  BY <1>5, <1>6, <1>7, <1>8, <1>9, <1>10, Zenon

\* funcSub.Unsubscribe: the first to mark the subscription waits for its end.
LEMMA EndSteps ==
  ASSUME "nobody" \notin Sub \cup Closer, ScopeInv, NEW a \in Sub \cup Closer,
         Unsubscribe(a) \/ AwaitProducer(a)
  PROVE  ScopeInv'
<1> USE DEF ScopeInv
<1> DEFINE s == pc[a].of
           at(l) == [pc[a] EXCEPT !.at = l]
<1>1. pc[a] \in [at : {"new", "refused", "idle", "call", "wait", "back", "done", "loop"}, of : Sub \cup Closer]
      /\ s \in Sub
  BY Zenon DEF ScopeTypeOK, Unsubscribe, AwaitProducer
<1>2. \A l : goto(a, l) => pc' = [pc EXCEPT ![a] = at(l)]
  BY Zenon DEF goto, ScopeTypeOK
<1>3. \A l \in {"back", "wait"} :
        /\ at(l) \in [at : {"new", "refused", "idle", "call", "wait", "back", "done", "loop"}, of : Sub \cup Closer]
        /\ at(l).at = l /\ at(l).of = s
  BY <1>1, Zenon
<1> HIDE DEF at
<1>4. UNCHANGED <<producer, scope, todo>> /\ ScopeOK'
  BY Zenon DEF Unsubscribe, AwaitProducer, ScopeOK
<1>5. CASE Unsubscribe(a) /\ flags[s].unsubscribed
  <2>1. pc[a].at = "call" /\ goto(a, "back") /\ UNCHANGED <<flags, read, err>>
    BY <1>5, Zenon DEF Unsubscribe
  <2>2. /\ at("back") \in [at : {"new", "refused", "idle", "call", "back", "done", "loop"}, of : Sub \cup Closer]
        /\ scope' \in [mu : BOOLEAN, subs : SUBSET Sub, closed : BOOLEAN] /\ todo' \in [Closer -> SUBSET Sub]
    BY <1>3, <1>4, Zenon DEF ScopeTypeOK
  <2> QED
    BY <1>1, <1>2, <1>3, <1>4, <2>1, <2>2, Elsewhere
<1>6. CASE Unsubscribe(a) /\ ~flags[s].unsubscribed
  <2>1. /\ pc[a].at = "call" /\ pc' = [pc EXCEPT ![a] = at("wait")] /\ UNCHANGED err
        /\ flags' = [flags EXCEPT ![s] = [unsubscribed |-> TRUE, unsub |-> TRUE]]
        /\ read' = [read EXCEPT !.winner[s] = a]
    BY <1>2, <1>6, Zenon DEF Unsubscribe
  <2>2. /\ read'.sent = read.sent /\ read'.seen = read.seen
        /\ read'.winner = [read.winner EXCEPT ![s] = a]
        /\ read' \in [sent : SUBSET Sub, seen : SUBSET Sub, winner : [Sub -> Sub \cup Closer \cup {"nobody"}]]
    BY <1>1, <2>1, Zenon DEF ScopeTypeOK
  <2>3. /\ flags' \in [Sub -> Flags]
        /\ flags'[s].unsubscribed /\ \A r \in Sub : r # s => flags'[r] = flags[r]
    <3> DEFINE x == [unsubscribed |-> TRUE, unsub |-> TRUE]
    <3>1. x \in Flags /\ x.unsubscribed
      BY Zenon DEF Flags
    <3>2. flags' = [flags EXCEPT ![s] = x] /\ flags \in [Sub -> Flags]
      BY <2>1, Zenon DEF ScopeTypeOK
    <3> HIDE DEF x
    <3> QED
      BY <1>1, <3>1, <3>2, Zenon
  <2>4. ScopeTypeOK'
    BY <1>1, <1>3, <1>4, <2>1, <2>2, <2>3, Zenon DEF ScopeTypeOK
  <2>5. pc'[a].at = "wait" /\ pc'[a].of = s /\ \A c \in Sub \cup Closer : c # a => pc'[c] = pc[c]
    BY <1>3, <2>1, Zenon DEF ScopeTypeOK
  <2>6. s \notin read.sent /\ read.winner[s] = "nobody"
    BY <1>1, <1>6, Zenon DEF ScopeTypeOK, MarksOK
  <2>7. MarksOK'
    <3>1. \A r \in read'.sent : flags'[r].unsubscribed /\ (err'[r].q # <<>> \/ r \in read'.seen)
      BY <2>1, <2>2, <2>3, <2>6, Zenon DEF ScopeTypeOK, MarksOK
    <3>2. \A r \in Sub : /\ err'[r].q # <<>> => r \in read'.sent
                         /\ err'[r].closed => producer'[r] = "over"
                         /\ read'.winner[r] # "nobody" => flags'[r].unsubscribed
      BY <1>4, <2>1, <2>2, <2>3 DEF ScopeTypeOK, MarksOK
    <3>3. ASSUME NEW c \in Sub \cup Closer, pc'[c].at = "wait"
          PROVE  read'.winner[pc'[c].of] = c /\ flags'[pc'[c].of].unsubscribed /\ pc'[c].of \notin read'.sent
      <4>1. CASE c = a
        BY <1>1, <2>2, <2>3, <2>5, <2>6, <4>1 DEF ScopeTypeOK
      <4>2. CASE c # a
        <5>1. pc'[c] = pc[c] /\ pc[c].of \in Sub /\ pc[c].of # s
          BY <1>6, <2>5, <3>3, <4>2 DEF ScopeTypeOK, MarksOK
        <5> QED
          BY <2>2, <2>3, <3>3, <5>1 DEF ScopeTypeOK, MarksOK
      <4> QED
        BY <4>1, <4>2, Zenon
    <3> QED
      BY <3>1, <3>2, <3>3, Zenon DEF MarksOK
  <2>8. WaitOK'
    <3> SUFFICES ASSUME NEW r \in Sub, read'.winner[r] \in Sub \cup Closer
                 PROVE  \/ pc'[read'.winner[r]].of = r /\ pc'[read'.winner[r]].at = "wait"
                        \/ producer'[r] = "over"
      BY Zenon DEF WaitOK
    <3>1. CASE r = s
      BY <1>1, <2>2, <2>5, <3>1 DEF ScopeTypeOK
    <3>2. CASE r # s
      <4>1. read'.winner[r] = read.winner[r]
        BY <2>2, <3>2 DEF ScopeTypeOK
      <4>2. \/ pc[read.winner[r]].of = r /\ pc[read.winner[r]].at = "wait"
            \/ producer[r] = "over"
        BY <4>1, Zenon DEF WaitOK
      <4> QED
        BY <1>4, <2>1, <2>5, <4>1, <4>2, Zenon
    <3> QED
      BY <3>1, <3>2, Zenon
  <2> QED
    BY <1>4, <2>4, <2>7, <2>8, Zenon
<1>7. CASE AwaitProducer(a)
  <2>1. pc[a].at = "wait" /\ pc' = [pc EXCEPT ![a] = at("back")] /\ UNCHANGED <<flags, read>>
    BY <1>2, <1>7, Zenon DEF AwaitProducer
  <2>2. read.winner[s] = a /\ s \notin read.sent
    BY <2>1, Zenon DEF MarksOK
  <2>3. err[s].q = <<>>
    BY <1>1, <2>2, Zenon DEF MarksOK
  <2>4. err[s].closed /\ UNCHANGED err
    BY <1>7, <2>3, Zenon DEF AwaitProducer
  <2>5. producer[s] = "over"
    BY <1>1, <2>4, Zenon DEF MarksOK
  <2>6. ScopeTypeOK'
    BY <1>1, <1>3, <1>4, <2>1, <2>4, Zenon DEF ScopeTypeOK
  <2>7. pc'[a].at = "back" /\ \A c \in Sub \cup Closer : c # a => pc'[c] = pc[c]
    BY <1>3, <2>1, Zenon DEF ScopeTypeOK
  <2>8. MarksOK'
    BY <1>4, <2>1, <2>4, <2>7 DEF MarksOK
  <2>9. WaitOK'
    BY <1>4, <2>1, <2>5, <2>7 DEF WaitOK
  <2> QED
    BY <1>4, <2>6, <2>8, <2>9, Zenon
<1> QED
  BY <1>5, <1>6, <1>7, Zenon

(***************************************************************************)
(* Whatever the number of subscriptions and of goroutines that close the   *)
(* scope (event/subscription.go): Unsubscribe never takes an error that    *)
(* the producer sent, the call that ended a subscription comes back only   *)
(* when its producer is over, and a closed scope tracks nothing.           *)
(***************************************************************************)
THEOREM ScopeStaysSound ==
  ASSUME "nobody" \notin Sub \cup Closer
  PROVE  ScopeSpec => []SubscriptionSound
<1>1. ScopeInit => ScopeInv
  BY InitScope, Zenon
<1>2. ScopeInv /\ [ScopeNext]_scopeVars => ScopeInv'
  <2> SUFFICES ASSUME ScopeInv, [ScopeNext]_scopeVars PROVE ScopeInv'
    BY Zenon
  <2>1. CASE UNCHANGED scopeVars
    BY <2>1, Zenon DEF scopeVars, ScopeInv, ScopeTypeOK, MarksOK, WaitOK, ScopeOK
  <2>2. ASSUME NEW s \in Sub, Produce(s) \/ Finish(s) \/ ReadErr(s) PROVE ScopeInv'
    BY <2>2, ProducerSteps, Zenon
  <2>3. ASSUME NEW s \in Sub, Track(s) \/ CallUnsubscribe(s) PROVE ScopeInv'
    BY <2>3, ScopeSteps, Zenon
  <2>4. ASSUME NEW a \in Sub \cup Closer, Ending(a) PROVE ScopeInv'
    <3>1. CASE Unsubscribe(a) \/ AwaitProducer(a)
      BY <3>1, EndSteps, Zenon
    <3> QED
      BY <2>4, <3>1, ScopeSteps, Zenon DEF Ending
  <2>5. ASSUME NEW a \in Closer, CloseScope(a) PROVE ScopeInv'
    BY <2>5, ScopeSteps, Zenon
  <2> QED
    BY <2>1, <2>2, <2>3, <2>4, <2>5, Zenon DEF ScopeNext
<1>3. ScopeInv => SubscriptionSound
  <2> SUFFICES ASSUME ScopeInv PROVE SubscriptionSound
    BY Zenon
  <2>1. \A s \in read.sent : err[s].q # <<>> \/ s \in read.seen
    BY Zenon DEF ScopeInv, MarksOK
  <2> QED
    BY <2>1, Zenon DEF ScopeInv, WaitOK, ScopeOK, SubscriptionSound
<1> QED
  BY <1>1, <1>2, <1>3, PTL DEF ScopeSpec

-----------------------------------------------------------------------------
(***************************************************************************)
(* Resubscribe (event/subscription.go, resubscribeSub): the time between   *)
(* two attempts stays positive and never exceeds backoffMax, however often *)
(* they fail, and every subscription the loop took is unsubscribed when    *)
(* the loop leaves it.  A tenth of the bound, where the waits start over,  *)
(* must not be rounded down to zero.                                       *)
(***************************************************************************)
THEOREM ResubscribeStaysSound ==
  ASSUME BackoffMax \in Nat, BackoffMax >= 10
  PROVE  ResubSpec => []ResubscribeSound
<1>1. BackoffMax \div 10 \in 1 .. BackoffMax
  OBVIOUS
<1>2. ResubInit => ResubscribeSound
  BY <1>1, Zenon DEF ResubInit, ResubscribeSound
<1>3. ResubscribeSound /\ [ResubNext]_resubVars => ResubscribeSound'
  <2> SUFFICES ASSUME ResubscribeSound, [ResubNext]_resubVars PROVE ResubscribeSound'
    BY Zenon
  <2>1. waitTime' \in 1 .. BackoffMax
    <3>1. CASE Failed
      BY <1>1, <3>1 DEF Failed, ResubscribeSound
    <3>2. CASE ~Failed
      <4>1. UNCHANGED waitTime
        BY <3>2, Zenon DEF ResubNext, LoopStep, CallStep, resubVars, Try, FnReturns, Subscribed, BackoffOver, InnerEnds,
             InnerHeard, CallResubUnsubscribe, HearUnsub, Drain, ErrClosed, OnceDone
      <4> QED
        BY <4>1, Zenon DEF ResubscribeSound
    <3> QED
      BY <3>1, <3>2, Zenon
  <2>2. "current" \in left' => resubLoop' = "wait" /\ inner' # "none"
    <3>1. CASE LoopStep
      BY <3>1, Zenon DEF ResubscribeSound, LoopStep, Try, Subscribed, Failed, BackoffOver, InnerHeard, Drain
    <3>2. CASE FnReturns \/ InnerEnds \/ UNCHANGED resubVars
      BY <3>2 DEF ResubscribeSound, FnReturns, InnerEnds, resubVars
    <3>3. ASSUME NEW c \in Caller, CallResubUnsubscribe(c) \/ ErrClosed(c) \/ OnceDone(c)
          PROVE  "current" \in left' => resubLoop' = "wait" /\ inner' # "none"
      BY <3>3, Zenon DEF ResubscribeSound, CallResubUnsubscribe, ErrClosed, OnceDone
    <3>4. ASSUME NEW c \in Caller, HearUnsub(c)
          PROVE  "current" \in left' => resubLoop' = "wait" /\ inner' # "none"
      BY <3>4, Zenon DEF ResubscribeSound, HearUnsub
    <3> QED
      BY <3>1, <3>2, <3>3, <3>4, Zenon DEF ResubNext, CallStep
  <2> QED
    BY <2>1, <2>2, Zenon DEF ResubscribeSound
<1> QED
  BY <1>2, <1>3, PTL DEF ResubSpec

-----------------------------------------------------------------------------
(* The type mux.  Its invariant says where a subscription in a poster's      *)
(* slice can be: still registered, on its way to closewait, or closing; and  *)
(* that Stop, which holds the mutex while it closes, has left nothing of     *)
(* what is registered unclosed but what its loop still has to do.            *)

Box == [closing : BOOLEAN, closed : BOOLEAN, closeMu : Actor \cup {NoOne}, postMu : BOOLEAN,
        postC : {"chan", "nil"}, chan : {"open", "closed"}, created : Nat]
PostAt == [at : {"idle", "post", "refused", "next", "deliver", "select", "done"}, time : Nat,
           to : {"chan", "nil"}]
PlaceAt == [at : {"new", "subscribe", "idle", "closewait", "drain", "forget", "over"}, todo : SUBSET Sub]

MuxTypeOK ==
    /\ subm \in [Type -> Seq(Sub)] /\ stopped \in BOOLEAN /\ mutex \in {NoOne, "stop"}
    /\ box \in [Sub -> Box] /\ slice \in [Poster -> Seq(Sub)] /\ post \in [Poster -> PostAt]
    /\ place \in [Actor -> PlaceAt] /\ clock \in Nat

Registered(x) == \E t \in Type : x \in Range(subm[t])
Sliced(x) == \E p \in Poster : x \in Range(slice[p])
Known(x) == Registered(x) \/ Sliced(x)
Drains(x) == place[x].at = "drain" \/ (place["stop"].at = "drain" /\ target("stop") = x)

\* The states of a subscription, and what it may be part of in them: a closed
\* channel is locked away, forgotten or unknown to the posters.
BoxOK(x) ==
    /\ box[x].closed /\ Known(x) => box[x].closing
    /\ place[x].at \in {"new", "subscribe"} => ~box[x].closed /\ box[x].chan = "open" /\ ~Known(x)
    /\ box[x].chan = "closed" /\ Known(x) => box[x].postMu \/ box[x].postC = "nil"
    /\ Sliced(x) => Registered(x) \/ place[x].at = "closewait" \/ box[x].closing
    /\ place[x].at \in {"drain", "forget"} \/ box[x].postC = "nil" => box[x].closing
    /\ box[x].closing /\ box[x].chan = "open" => Drains(x)
BoxesOK == \A x \in Sub : BoxOK(x)

\* A poster that holds postMu, and what its select has evaluated.
PosterOK(p) ==
    post[p].at \in {"deliver", "select"} =>
       /\ slice[p] # <<>> /\ ~box[Head(slice[p])].postMu
       /\ post[p].at = "select" => IF post[p].to = "nil" THEN box[Head(slice[p])].closing
                                                       ELSE box[Head(slice[p])].chan = "open"
PostersOK == \A p \in Poster : PosterOK(p)

StopOK ==
    /\ place["stop"].at \in {"closewait", "drain", "forget"} <=> mutex = "stop"
    /\ mutex = "stop" => \A x \in Sub : Registered(x) => x \in place["stop"].todo \/ box[x].closing
    /\ mutex = "stop" => \A x \in place["stop"].todo : place[x].at \notin {"new", "subscribe"}
    /\ place["stop"].at \in {"drain", "forget"} => place["stop"].todo # {} /\ box[target("stop")].closing
    /\ stopped => place["stop"].at = "over" /\ \A t \in Type : subm[t] = <<>>

MuxInv == MuxTypeOK /\ ~late /\ BoxesOK /\ PostersOK /\ StopOK

\* What Append adds to the members of a slice.
LEMMA RangeOfAppend == ASSUME NEW s \in Seq(Sub), NEW x \in Sub
                       PROVE  Append(s, x) \in Seq(Sub) /\ Range(Append(s, x)) = Range(s) \cup {x}
<1> DEFINE r == Append(s, x)
<1>1. /\ r \in Seq(Sub) /\ DOMAIN r = 1 .. Len(s) + 1 /\ DOMAIN s = 1 .. Len(s) /\ Len(s) \in Nat
      /\ r[Len(s) + 1] = x /\ \A i \in 1 .. Len(s) : r[i] = s[i]
  OBVIOUS
<1> HIDE DEF r
<1>2. \A i \in DOMAIN r : r[i] \in Range(s) \cup {x}
  BY <1>1 DEF Range
<1>3. \A i \in DOMAIN s : s[i] \in Range(r)
  BY <1>1 DEF Range
<1>4. x \in Range(r)
  BY <1>1 DEF Range
<1> QED
  BY <1>1, <1>2, <1>3, <1>4, Zenon DEF Range, r

\* The loop of Post goes on with members of the slice it had.
LEMMA RangeOfTail == ASSUME NEW s \in Seq(Sub), s # <<>>
                     PROVE  /\ Tail(s) \in Seq(Sub) /\ Range(Tail(s)) \subseteq Range(s)
                            /\ Head(s) \in Range(s) /\ Head(s) \in Sub
  BY DEF Range

\* The parts of a concatenation.
LEMMA Joined ==
  ASSUME NEW u \in Seq(Sub), NEW w \in Seq(Sub)
  PROVE  /\ u \o w \in Seq(Sub) /\ Len(u \o w) = Len(u) + Len(w)
         /\ \A j \in 1 .. Len(u) : (u \o w)[j] = u[j]
         /\ \A j \in 1 .. Len(w) : (u \o w)[Len(u) + j] = w[j]
<1>1. u \o w \in Seq(Sub) /\ Len(u \o w) = Len(u) + Len(w)
  OBVIOUS
<1>2. \A j \in 1 .. Len(u) : (u \o w)[j] = u[j]
  OBVIOUS
<1>3. \A j \in 1 .. Len(w) : (u \o w)[Len(u) + j] = w[j]
  OBVIOUS
<1> QED
  BY <1>1, <1>2, <1>3, Zenon

\* del takes one place out of the slice and keeps the others.
LEMMA PosDelete ==
  ASSUME NEW s \in Seq(Sub), NEW i \in DOMAIN s
  PROVE  /\ posdelete(s, i) \in Seq(Sub)
         /\ Range(posdelete(s, i)) \subseteq Range(s)
         /\ \A y \in Range(s) : y # s[i] => y \in Range(posdelete(s, i))
<1> DEFINE r == posdelete(s, i)
<1>1. i \in 1 .. Len(s) /\ Len(s) \in Nat
  OBVIOUS
<1>2. /\ SubSeq(s, 1, i - 1) \in Seq(Sub) /\ Len(SubSeq(s, 1, i - 1)) = i - 1
      /\ \A j \in 1 .. i - 1 : SubSeq(s, 1, i - 1)[j] = s[j]
  BY <1>1
<1>3. /\ SubSeq(s, i + 1, Len(s)) \in Seq(Sub) /\ Len(SubSeq(s, i + 1, Len(s))) = Len(s) - i
      /\ \A j \in 1 .. Len(s) - i : SubSeq(s, i + 1, Len(s))[j] = s[i + j]
  BY <1>1
<1>4. /\ r \in Seq(Sub) /\ Len(r) = Len(s) - 1
      /\ \A j \in 1 .. i - 1 : r[j] = s[j]
      /\ \A j \in i .. Len(s) - 1 : r[j] = s[j + 1]
  <2> DEFINE u == SubSeq(s, 1, i - 1)
             w == SubSeq(s, i + 1, Len(s))
  <2>1. r = u \o w
    BY Zenon DEF posdelete
  <2>2. /\ u \in Seq(Sub) /\ Len(u) = i - 1 /\ \A j \in 1 .. i - 1 : u[j] = s[j]
        /\ w \in Seq(Sub) /\ Len(w) = Len(s) - i /\ \A j \in 1 .. Len(s) - i : w[j] = s[i + j]
    BY <1>2, <1>3, Zenon
  <2> HIDE DEF u, w, r
  <2>3. /\ r \in Seq(Sub) /\ Len(r) = Len(u) + Len(w)
        /\ \A j \in 1 .. Len(u) : r[j] = u[j]
        /\ \A j \in 1 .. Len(w) : r[Len(u) + j] = w[j]
    BY <2>1, <2>2, Joined, ZenonT(40)
  <2>4. Len(r) = Len(s) - 1
    BY <1>1, <2>2, <2>3
  <2>6. \A j \in 1 .. i - 1 : r[j] = s[j]
    BY <2>2, <2>3, Zenon
  <2>5. ASSUME NEW j \in i .. Len(s) - 1 PROVE r[j] = s[j + 1]
    <3>1. j - (i - 1) \in 1 .. Len(s) - i /\ (i - 1) + (j - (i - 1)) = j /\ i + (j - (i - 1)) = j + 1
      BY <1>1
    <3>2. r[(i - 1) + (j - (i - 1))] = w[j - (i - 1)] /\ w[j - (i - 1)] = s[i + (j - (i - 1))]
      BY <2>2, <2>3, <3>1, Zenon
    <3> QED
      BY <3>1, <3>2, Zenon
  <2> QED
    BY <2>3, <2>4, <2>5, <2>6, Zenon
<1> HIDE DEF r
<1>5. DOMAIN r = 1 .. Len(s) - 1 /\ DOMAIN s = 1 .. Len(s)
  BY <1>4
<1>6. Range(r) \subseteq Range(s)
  BY <1>1, <1>4, <1>5, SMTT(30) DEF Range
<1>7. ASSUME NEW k \in 1 .. Len(s), s[k] # s[i] PROVE s[k] \in Range(r)
  <2>1. CASE k < i
    BY <1>1, <1>4, <1>5, <1>7, <2>1 DEF Range
  <2>2. CASE k > i
    <3>1. k - 1 \in i .. Len(s) - 1 /\ (k - 1) + 1 = k
      BY <1>1, <2>2
    <3>2. r[k - 1] = s[k] /\ k - 1 \in DOMAIN r
      BY <1>1, <1>4, <1>5, <3>1
    <3> QED
      BY <3>2, Zenon DEF Range
  <2> QED
    BY <1>1, <1>7, <2>1, <2>2
<1> QED
  BY <1>4, <1>5, <1>6, <1>7, Zenon DEF Range, r

\* A new mux has no subscription and no poster inside.
LEMMA InitMux == ASSUME "stop" \notin Sub, MuxInit PROVE MuxInv
<1>1. subm \in [Type -> Seq(Sub)] /\ slice \in [Poster -> Seq(Sub)] /\ \A x : ~Registered(x) /\ ~Sliced(x)
  BY DEF MuxInit, Registered, Sliced, Range
<1>2. /\ box \in [Sub -> Box]
      /\ \A x \in Sub : ~box[x].closed /\ ~box[x].closing /\ box[x].postC = "chan" /\ box[x].chan = "open"
  BY Zenon DEF MuxInit, Box, NoOne
<1>3. place \in [Actor -> PlaceAt] /\ place["stop"].at = "idle" /\ \A x \in Sub : place[x].at = "new"
  BY Zenon DEF MuxInit, Actor, PlaceAt
<1>4. post \in [Poster -> PostAt] /\ \A p \in Poster : post[p].at = "idle"
  BY Zenon DEF MuxInit, PostAt
<1>5. MuxTypeOK
  BY <1>1, <1>2, <1>3, <1>4, Zenon DEF MuxInit, MuxTypeOK
<1>6. ~late /\ BoxesOK /\ PostersOK
  BY <1>1, <1>2, <1>3, <1>4, Zenon DEF MuxInit, BoxesOK, BoxOK, Known, PostersOK, PosterOK
<1>7. StopOK
  BY <1>3, Zenon DEF MuxInit, StopOK, NoOne
<1> QED
  BY <1>5, <1>6, <1>7, Zenon DEF MuxInv

\* What the assignments to the fields of one subscription change.
stamped(f, x, n) == [f EXCEPT ![x].created = n]
refused(f, x) == [f EXCEPT ![x].closed = TRUE, ![x].chan = "closed"]
closingBy(f, x, a) == [f EXCEPT ![x].closeMu = a, ![x].closed = TRUE, ![x].closing = TRUE]
shut(f, x) == [f EXCEPT ![x].postMu = TRUE, ![x].chan = "closed"]
forgot(f, x) == [f EXCEPT ![x].postC = "nil", ![x].postMu = FALSE, ![x].closeMu = NoOne]

\* newsub stamps a subscription and leaves its other fields alone.
LEMMA StampedBox ==
  ASSUME NEW f \in [Sub -> Box], NEW x \in Sub, NEW n \in Nat
  PROVE  /\ stamped(f, x, n) \in [Sub -> Box] /\ \A y \in Sub : y # x => stamped(f, x, n)[y] = f[y]
         /\ stamped(f, x, n)[x].closing = f[x].closing /\ stamped(f, x, n)[x].closed = f[x].closed
         /\ stamped(f, x, n)[x].postC = f[x].postC /\ stamped(f, x, n)[x].chan = f[x].chan
         /\ stamped(f, x, n)[x].postMu = f[x].postMu
<1> DEFINE r == [f[x] EXCEPT !.created = n]
<1>2. stamped(f, x, n) = [f EXCEPT ![x] = r]
  BY Zenon DEF stamped
<1>3. f[x] \in Box
  BY Zenon
<1>4. r \in Box
  BY <1>3, Zenon DEF Box
<1>5. /\ r.closing = f[x].closing /\ r.closed = f[x].closed /\ r.postC = f[x].postC
      /\ r.chan = f[x].chan /\ r.postMu = f[x].postMu
  BY <1>3, Zenon DEF Box
<1> HIDE DEF r
<1> QED
  BY <1>2, <1>4, <1>5, Zenon

\* Subscribe on a stopped mux.
LEMMA RefusedBox ==
  ASSUME NEW f \in [Sub -> Box], NEW x \in Sub
  PROVE  /\ refused(f, x) \in [Sub -> Box] /\ \A y \in Sub : y # x => refused(f, x)[y] = f[y]
         /\ refused(f, x)[x].closing = f[x].closing /\ refused(f, x)[x].chan = "closed"
         /\ refused(f, x)[x].postC = f[x].postC
<1> DEFINE r == [f[x] EXCEPT !.closed = TRUE, !.chan = "closed"]
<1>1. \A b \in BOOLEAN :
        [f EXCEPT ![x].closed = b, ![x].chan = "closed"] =
        [f EXCEPT ![x] = [f[x] EXCEPT !.closed = b, !.chan = "closed"]]
  BY Zenon
<1>2. refused(f, x) = [f EXCEPT ![x] = r]
  BY <1>1, Zenon DEF refused
<1>3. f[x] \in Box
  BY Zenon
<1>4. r \in Box
  BY <1>3, Zenon DEF Box
<1>5. r.closing = f[x].closing /\ r.chan = "closed" /\ r.postC = f[x].postC
  BY <1>3, Zenon DEF Box
<1> HIDE DEF r
<1> QED
  BY <1>2, <1>4, <1>5, Zenon

\* The start of closewait.
LEMMA ClosingBox ==
  ASSUME NEW f \in [Sub -> Box], NEW x \in Sub, NEW a \in Actor
  PROVE  /\ closingBy(f, x, a) \in [Sub -> Box] /\ \A y \in Sub : y # x => closingBy(f, x, a)[y] = f[y]
         /\ closingBy(f, x, a)[x].closing /\ closingBy(f, x, a)[x].postC = f[x].postC
         /\ closingBy(f, x, a)[x].chan = f[x].chan /\ closingBy(f, x, a)[x].postMu = f[x].postMu
<1> DEFINE r == [f[x] EXCEPT !.closeMu = a, !.closed = TRUE, !.closing = TRUE]
<1>1. \A b, c \in BOOLEAN :
        [f EXCEPT ![x].closeMu = a, ![x].closed = b, ![x].closing = c] =
        [f EXCEPT ![x] = [f[x] EXCEPT !.closeMu = a, !.closed = b, !.closing = c]]
  BY Zenon
<1>2. closingBy(f, x, a) = [f EXCEPT ![x] = r]
  BY <1>1, Zenon DEF closingBy
<1>3. f[x] \in Box
  BY Zenon
<1>4. r \in Box
  BY <1>3, Zenon DEF Box
<1>5. r.closing /\ r.postC = f[x].postC /\ r.chan = f[x].chan /\ r.postMu = f[x].postMu
  BY <1>3, Zenon DEF Box
<1> HIDE DEF r
<1> QED
  BY <1>2, <1>4, <1>5, Zenon

\* closewait has the lock and closes the channel.
LEMMA ShutBox ==
  ASSUME NEW f \in [Sub -> Box], NEW x \in Sub
  PROVE  /\ shut(f, x) \in [Sub -> Box] /\ \A y \in Sub : y # x => shut(f, x)[y] = f[y]
         /\ shut(f, x)[x].closing = f[x].closing /\ shut(f, x)[x].chan = "closed" /\ shut(f, x)[x].postMu
<1> DEFINE r == [f[x] EXCEPT !.postMu = TRUE, !.chan = "closed"]
<1>1. \A b \in BOOLEAN :
        [f EXCEPT ![x].postMu = b, ![x].chan = "closed"] =
        [f EXCEPT ![x] = [f[x] EXCEPT !.postMu = b, !.chan = "closed"]]
  BY Zenon
<1>2. shut(f, x) = [f EXCEPT ![x] = r]
  BY <1>1, Zenon DEF shut
<1>3. f[x] \in Box
  BY Zenon
<1>4. r \in Box
  BY <1>3, Zenon DEF Box
<1>5. r.closing = f[x].closing /\ r.chan = "closed" /\ r.postMu
  BY <1>3, Zenon DEF Box
<1> HIDE DEF r
<1> QED
  BY <1>2, <1>4, <1>5, Zenon

\* The end of closewait.
LEMMA ForgotBox ==
  ASSUME NEW f \in [Sub -> Box], NEW x \in Sub
  PROVE  /\ forgot(f, x) \in [Sub -> Box] /\ \A y \in Sub : y # x => forgot(f, x)[y] = f[y]
         /\ forgot(f, x)[x].closing = f[x].closing /\ forgot(f, x)[x].chan = f[x].chan
         /\ forgot(f, x)[x].postC = "nil" /\ ~forgot(f, x)[x].postMu /\ forgot(f, x)[x].closed = f[x].closed
<1> DEFINE r == [f[x] EXCEPT !.postC = "nil", !.postMu = FALSE, !.closeMu = NoOne]
<1>1. \A b \in BOOLEAN :
        [f EXCEPT ![x].postC = "nil", ![x].postMu = b, ![x].closeMu = NoOne] =
        [f EXCEPT ![x] = [f[x] EXCEPT !.postC = "nil", !.postMu = b, !.closeMu = NoOne]]
  BY Zenon
<1>2. forgot(f, x) = [f EXCEPT ![x] = r]
  BY <1>1, Zenon DEF forgot
<1>3. f[x] \in Box
  BY Zenon
<1>4. r \in Box
  BY <1>3, Zenon DEF Box
<1>5. r.closing = f[x].closing /\ r.chan = f[x].chan /\ r.postC = "nil" /\ ~r.postMu /\ r.closed = f[x].closed
  BY <1>3, Zenon DEF Box
<1> HIDE DEF r
<1> QED
  BY <1>2, <1>4, <1>5, Zenon

\* What a step that goes on with a slice has to keep.
LEMMA PostKeeps ==
  ASSUME MuxInv, NEW p \in Poster, UNCHANGED <<subm, stopped, mutex, box, place>>,
         slice' \in [Poster -> Seq(Sub)], post' \in [Poster -> PostAt], clock' \in Nat, ~late',
         \A q \in Poster : q # p => slice'[q] = slice[q] /\ post'[q] = post[q],
         PosterOK(p)',
         \A y \in Sub : y \in Range(slice'[p]) => y \in Range(slice[p]) \/ Registered(y)
  PROVE  MuxInv'
<1> USE DEF MuxInv
<1>1. MuxTypeOK'
  BY Zenon DEF MuxTypeOK
<1>2. \A y \in Sub : (Registered(y)' <=> Registered(y)) /\ (Drains(y)' <=> Drains(y))
  BY Zenon DEF Registered, Drains, target
<1>3. \A y \in Sub : (Sliced(y)' => Sliced(y) \/ Registered(y)) /\ (Known(y)' => Known(y))
  BY <1>2, Zenon DEF Sliced, Known
<1>4. BoxesOK'
  BY <1>2, <1>3, Zenon DEF BoxesOK, BoxOK
<1>5. StopOK'
  BY <1>2, Zenon DEF StopOK, target
<1>6. PostersOK'
  BY Zenon DEF PostersOK, PosterOK
<1> QED
  BY <1>1, <1>4, <1>5, <1>6, Zenon

\* Post goes through the slice it read; nothing else changes.
LEMMA PostSteps ==
  ASSUME MuxInv, NEW p \in Poster, NewEvent(p) \/ Post(p) \/ NextSub(p) \/ Select(p) \/ Deliver(p)
  PROVE  MuxInv'
<1> USE DEF MuxInv
<1>1. UNCHANGED <<subm, stopped, mutex, box, place>>
  BY Zenon DEF NewEvent, Post, NextSub, Select, Deliver
<1> SUFFICES /\ slice' \in [Poster -> Seq(Sub)] /\ post' \in [Poster -> PostAt] /\ clock' \in Nat /\ ~late'
             /\ \A q \in Poster : q # p => slice'[q] = slice[q] /\ post'[q] = post[q]
             /\ PosterOK(p)'
             /\ \A y \in Sub : y \in Range(slice'[p]) => y \in Range(slice[p]) \/ Registered(y)
  BY <1>1, PostKeeps, Zenon
<1>2. /\ slice \in [Poster -> Seq(Sub)] /\ post \in [Poster -> PostAt] /\ clock \in Nat /\ box \in [Sub -> Box]
      /\ PosterOK(p)
  BY Zenon DEF MuxTypeOK, PostersOK
<1>3. CASE NewEvent(p)
  <2>1. /\ clock' = clock + 1 /\ post' = [post EXCEPT ![p].at = "post", ![p].time = clock + 1]
        /\ UNCHANGED <<slice, late>>
    BY <1>3, Zenon DEF NewEvent
  <2>2. /\ post' \in [Poster -> PostAt] /\ clock' \in Nat /\ post'[p].at = "post"
        /\ \A q \in Poster : q # p => post'[q] = post[q]
    <3> DEFINE r == [post[p] EXCEPT !.at = "post", !.time = clock + 1]
    <3>1. post' = [post EXCEPT ![p] = r]
      BY <2>1, Zenon
    <3>2. clock + 1 \in Nat
      BY <1>2
    <3>3. post[p] \in PostAt
      BY <1>2, Zenon
    <3>4. r \in PostAt /\ r.at = "post"
      BY <3>2, <3>3, Zenon DEF PostAt
    <3> HIDE DEF r
    <3> QED
      BY <1>2, <2>1, <3>1, <3>2, <3>4, Zenon
  <2> QED
    BY <1>2, <2>1, <2>2, Zenon DEF PosterOK
<1>4. CASE Post(p)
  <2>1. UNCHANGED <<clock, late>>
    BY <1>4, Zenon DEF Post
  <2>2. CASE stopped
    <3>1. post' = [post EXCEPT ![p].at = "refused"] /\ UNCHANGED slice
      BY <1>4, <2>2, Zenon DEF Post
    <3> QED
      BY <1>2, <2>1, <3>1, Zenon DEF PostAt, PosterOK
  <2>3. CASE ~stopped
    <3>1. PICK t \in Type : slice' = [slice EXCEPT ![p] = subm[t]]
      BY <1>4, <2>3, Zenon DEF Post
    <3>2. post' = [post EXCEPT ![p].at = "next"]
      BY <1>4, <2>3, Zenon DEF Post
    <3>3. subm[t] \in Seq(Sub)
      BY Zenon DEF MuxTypeOK
    <3> QED
      BY <1>2, <2>1, <3>1, <3>2, <3>3, Zenon DEF PostAt, Registered, PosterOK
  <2> QED
    BY <2>2, <2>3, Zenon
<1>5. CASE NextSub(p)
  <2>1. post[p].at = "next" /\ UNCHANGED <<clock, late>>
    BY <1>5, Zenon DEF NextSub
  <2>2. CASE slice[p] = <<>>
    <3>1. post' = [post EXCEPT ![p].at = "done"] /\ UNCHANGED slice
      BY <1>5, <2>2, Zenon DEF NextSub
    <3> QED
      BY <1>2, <2>1, <3>1, Zenon DEF PostAt, PosterOK
  <2>3. CASE slice[p] # <<>> /\ box[Head(slice[p])].created > post[p].time
    <3>1. slice' = [slice EXCEPT ![p] = Tail(@)] /\ UNCHANGED post
      BY <1>5, <2>3, Zenon DEF NextSub
    <3>2. Tail(slice[p]) \in Seq(Sub) /\ Range(Tail(slice[p])) \subseteq Range(slice[p])
      BY <1>2, <2>3, RangeOfTail, Zenon
    <3> QED
      BY <1>2, <2>1, <3>1, <3>2, Zenon DEF PosterOK
  <2>4. CASE slice[p] # <<>> /\ ~(box[Head(slice[p])].created > post[p].time)
    <3>1. post' = [post EXCEPT ![p].at = "deliver"] /\ UNCHANGED slice /\ ~box[Head(slice[p])].postMu
      BY <1>5, <2>4, Zenon DEF NextSub
    <3> QED
      BY <1>1, <1>2, <2>1, <2>4, <3>1, Zenon DEF PostAt, PosterOK
  <2> QED
    BY <2>2, <2>3, <2>4, Zenon
<1>6. CASE Select(p)
  <2> DEFINE h == Head(slice[p])
  <2>1. /\ post[p].at = "deliver" /\ post' = [post EXCEPT ![p].at = "select", ![p].to = box[h].postC]
        /\ UNCHANGED <<clock, late, slice>>
    BY <1>6, Zenon DEF Select
  <2>2. slice[p] # <<>> /\ ~box[h].postMu
    BY <1>2, <2>1, Zenon DEF PosterOK
  <2>3. h \in Sub /\ h \in Range(slice[p])
    BY <1>2, <2>2, RangeOfTail, Zenon
  <2>4. BoxOK(h) /\ Known(h)
    BY <2>3, Zenon DEF BoxesOK, Known, Sliced
  <2>5. /\ box[h].postC \in {"chan", "nil"} /\ box[h].chan \in {"open", "closed"}
    BY <1>2, <2>3, Zenon DEF Box
  <2>6. IF box[h].postC = "nil" THEN box[h].closing ELSE box[h].chan = "open"
    BY <2>2, <2>4, <2>5, Zenon DEF BoxOK
  <2>7. /\ post' \in [Poster -> PostAt] /\ post'[p].at = "select" /\ post'[p].to = box[h].postC
        /\ \A q \in Poster : q # p => post'[q] = post[q]
    <3> DEFINE r == [post[p] EXCEPT !.at = "select", !.to = box[h].postC]
    <3>1. post' = [post EXCEPT ![p] = r]
      BY <2>1, Zenon
    <3>2. post[p] \in PostAt
      BY <1>2, Zenon
    <3>3. r \in PostAt /\ r.at = "select" /\ r.to = box[h].postC
      BY <2>5, <3>2, Zenon DEF PostAt
    <3> HIDE DEF r
    <3> QED
      BY <1>2, <3>1, <3>3, Zenon
  <2>8. PosterOK(p)'
    BY <1>1, <2>1, <2>2, <2>6, <2>7, Zenon DEF PosterOK
  <2> QED
    BY <1>2, <2>1, <2>7, <2>8, Zenon
<1>7. CASE Deliver(p)
  <2>1. /\ post[p].at = "select" /\ post' = [post EXCEPT ![p].at = "next"]
        /\ slice' = [slice EXCEPT ![p] = Tail(@)] /\ UNCHANGED clock
    BY <1>7, Zenon DEF Deliver
  <2>2. slice[p] # <<>> /\ (post[p].to = "chan" => box[Head(slice[p])].chan = "open")
    BY <1>2, <2>1, Zenon DEF PosterOK
  <2>3. Tail(slice[p]) \in Seq(Sub) /\ Range(Tail(slice[p])) \subseteq Range(slice[p])
    BY <1>2, <2>2, RangeOfTail, Zenon
  <2>4. ~late'
    BY <1>7, <2>2, Zenon DEF Deliver
  <2> QED
    BY <1>2, <2>1, <2>3, <2>4, Zenon DEF PostAt, PosterOK
<1> QED
  BY <1>3, <1>4, <1>5, <1>6, <1>7, Zenon

\* What a step that only closes subscriptions has to keep.
LEMMA CloseKeeps ==
  ASSUME MuxInv, UNCHANGED <<subm, stopped, mutex, slice, post, clock, late>>,
         box' \in [Sub -> Box], place' \in [Actor -> PlaceAt], BoxesOK', PostersOK', StopOK'
  PROVE  MuxInv'
<1>1. MuxTypeOK'
  BY Zenon DEF MuxInv, MuxTypeOK
<1> QED
  BY <1>1, Zenon DEF MuxInv

\* The posters are not disturbed while what they deliver to keeps its channel.
LEMMA PostersKept ==
  ASSUME MuxInv, UNCHANGED <<slice, post>>,
         \A y \in Sub : Sliced(y) /\ delivering(y) # {} =>
            /\ box'[y].postMu => box[y].postMu
            /\ box[y].closing => box'[y].closing
            /\ box[y].chan = "open" => box'[y].chan = "open"
  PROVE  PostersOK'
<1> SUFFICES ASSUME NEW p \in Poster, post[p].at \in {"deliver", "select"}
             PROVE  PosterOK(p)'
  BY Zenon DEF PostersOK, PosterOK
<1> DEFINE h == Head(slice[p])
<1>1. PosterOK(p) /\ slice[p] \in Seq(Sub)
  BY Zenon DEF MuxInv, MuxTypeOK, PostersOK
<1>2. slice[p] # <<>> /\ ~box[h].postMu
  BY <1>1, Zenon DEF PosterOK
<1>3. h \in Sub /\ h \in Range(slice[p])
  BY <1>1, <1>2, RangeOfTail, Zenon
<1>4. Sliced(h) /\ delivering(h) # {}
  BY <1>3, Zenon DEF Sliced, delivering
<1> QED
  BY <1>1, <1>2, <1>3, <1>4, Zenon DEF PosterOK

\* Nor is a subscription that a step of closewait is not about.
LEMMA OtherBox ==
  ASSUME MuxInv, UNCHANGED <<subm, slice>>, NEW y \in Sub, box'[y] = box[y], place'[y] = place[y],
         Drains(y) => Drains(y)'
  PROVE  BoxOK(y)'
<1>1. BoxOK(y)
  BY Zenon DEF MuxInv, BoxesOK
<1>2. (Registered(y)' <=> Registered(y)) /\ (Sliced(y)' <=> Sliced(y)) /\ (Known(y)' <=> Known(y))
  BY Zenon DEF Registered, Sliced, Known
<1> QED
  BY <1>1, <1>2, Zenon DEF BoxOK

\* Whom an actor closes.
LEMMA TargetIs ==
  ASSUME MuxInv, "stop" \notin Sub, NEW a \in Actor, a = "stop" => place[a].todo # {}
  PROVE  /\ target(a) \in Sub
         /\ a = "stop" => target(a) \in place[a].todo
         /\ a # "stop" => target(a) = a /\ a \in Sub
<1>1. place[a].todo \subseteq Sub
  BY Zenon DEF MuxInv, MuxTypeOK, PlaceAt
<1> QED
  BY <1>1, Zenon DEF target, Actor

\* Where an actor is after it.
LEMMA DoneIs ==
  ASSUME MuxInv, NEW a \in Actor
  PROVE  /\ done(a) \in PlaceAt
         /\ a = "stop" => done(a).at = "closewait" /\ done(a).todo = place[a].todo \ {target(a)}
         /\ a # "stop" => done(a).at = "over"
<1>1. place[a].todo \subseteq Sub
  BY Zenon DEF MuxInv, MuxTypeOK, PlaceAt
<1> QED
  BY <1>1, Zenon DEF done, PlaceAt

\* An actor leaves its target: it was closed by somebody else, or is closed now.
LEMMA LeavesTarget ==
  ASSUME MuxInv, "stop" \notin Sub, NEW a \in Actor, place[a].at \in {"closewait", "forget"},
         a = "stop" => place[a].todo # {}, place' = [place EXCEPT ![a] = done(a)],
         UNCHANGED <<subm, stopped, mutex, slice>>, box' \in [Sub -> Box],
         \A y \in Sub : y # target(a) => box'[y] = box[y],
         \A y \in Sub : (box[y].closing => box'[y].closing) /\ box'[y].chan = box[y].chan,
         Known(target(a)) => box[target(a)].closing
  PROVE  /\ place' \in [Actor -> PlaceAt] /\ StopOK' /\ \A y \in Sub : Drains(y) => Drains(y)'
         /\ \A y \in Sub : place'[y].at = place[y].at \/ (y = a /\ place'[y].at = "over")
<1> DEFINE x == target(a)
<1>1. x \in Sub /\ (a = "stop" => x \in place[a].todo) /\ (a # "stop" => x = a /\ a \in Sub)
  BY TargetIs, Zenon
<1>2. a = "stop" => done(a).todo = place["stop"].todo \ {x}
  BY DoneIs, Zenon
<1> HIDE DEF x
<1>3. place \in [Actor -> PlaceAt] /\ "stop" \in Actor /\ Sub \subseteq Actor
  BY Zenon DEF MuxInv, MuxTypeOK, Actor
<1>4. /\ place' \in [Actor -> PlaceAt] /\ place'[a] = done(a) /\ \A b \in Actor : b # a => place'[b] = place[b]
  BY <1>3, DoneIs
<1>5. \A y : Registered(y)' <=> Registered(y)
  BY Zenon DEF Registered
<1>6. Registered(x) => box'[x].closing
  <2>1. Registered(x) => box[x].closing
    BY Zenon DEF Known, x
  <2> QED
    BY <1>1, <2>1, Zenon
<1>7. place["stop"].todo \subseteq Sub
  BY <1>3, Zenon DEF PlaceAt
<1>8. \A y \in Sub : place'[y].at = place[y].at \/ (y = a /\ place'[y].at = "over")
  <2> TAKE y \in Sub
  <2>1. CASE y = a
    <3>1. done(a).at = "over"
      BY <2>1, DoneIs, ZenonT(40)
    <3> QED
      BY <1>4, <2>1, <3>1, Zenon
  <2>2. CASE y # a
    BY <1>3, <1>4, <2>2, Zenon
  <2> QED
    BY <2>1, <2>2, Zenon
<1>9. CASE a = "stop"
  <2>1. place'["stop"].at = "closewait" /\ mutex = "stop" /\ place'["stop"].todo = place["stop"].todo \ {x}
    BY <1>2, <1>4, <1>9, DoneIs, Zenon DEF MuxInv, StopOK
  <2>2. \A y \in Sub : Registered(y) => y \in place'["stop"].todo \/ box'[y].closing
    BY <1>6, <2>1, Zenon DEF MuxInv, StopOK
  <2>3. \A y \in place'["stop"].todo : place'[y].at \notin {"new", "subscribe"}
    BY <1>3, <1>4, <1>7, <1>9, <2>1, Zenon DEF MuxInv, StopOK
  <2>4. stopped => place["stop"].at = "over" /\ \A t \in Type : subm[t] = <<>>
    BY Zenon DEF MuxInv, StopOK
  <2>5. ~stopped
    BY <1>9, <2>4, Zenon
  <2>6. StopOK'
    BY <1>5, <2>1, <2>2, <2>3, <2>5, Zenon DEF StopOK
  <2>7. \A y \in Sub : Drains(y) => Drains(y)'
    BY <1>3, <1>4, <1>9, Zenon DEF Drains
  <2> QED
    BY <1>4, <1>8, <2>6, <2>7, Zenon
<1>10. CASE a # "stop"
  <2>1. place'["stop"] = place["stop"]
    BY <1>3, <1>4, <1>10, Zenon
  <2>2. target("stop")' = target("stop")
    BY <2>1 DEF target
  <2>3. place["stop"].at \in {"drain", "forget"} => place["stop"].todo # {} /\ box'[target("stop")].closing
    <3> SUFFICES ASSUME place["stop"].at \in {"drain", "forget"}
                 PROVE  place["stop"].todo # {} /\ box'[target("stop")].closing
      BY Zenon
    <3>1. place["stop"].todo # {} /\ box[target("stop")].closing
      BY Zenon DEF MuxInv, StopOK
    <3>2. target("stop") \in Sub
      BY <1>3, <3>1, TargetIs, Zenon
    <3> QED
      BY <3>1, <3>2, Zenon
  <2>4. mutex = "stop" => \A y \in Sub : Registered(y) => y \in place["stop"].todo \/ box'[y].closing
    BY Zenon DEF MuxInv, StopOK
  <2>5. mutex = "stop" => \A y \in place["stop"].todo : place'[y].at \notin {"new", "subscribe"}
    BY <1>7, <1>8, Zenon DEF MuxInv, StopOK
  <2>6. /\ place["stop"].at \in {"closewait", "drain", "forget"} <=> mutex = "stop"
        /\ (stopped => place["stop"].at = "over" /\ \A t \in Type : subm[t] = <<>>)
    BY Zenon DEF MuxInv, StopOK
  <2>7. StopOK'
    BY <1>5, <2>1, <2>2, <2>3, <2>4, <2>5, <2>6, Zenon DEF StopOK
  <2>8. \A y \in Sub : Drains(y) => Drains(y)'
    BY <1>1, <1>3, <1>4, <1>10, <2>1, <2>2, Zenon DEF Drains
  <2> QED
    BY <1>4, <1>8, <2>7, <2>8, Zenon
<1> QED
  BY <1>9, <1>10, Zenon

\* closewait finds the subscription closed.
LEMMA AlreadyClosed ==
  ASSUME MuxInv, "stop" \notin Sub, NEW a \in Actor, CloseWait(a), box[target(a)].closed
  PROVE  MuxInv'
<1> DEFINE x == target(a)
<1>1. /\ place[a].at = "closewait" /\ (a = "stop" => place[a].todo # {})
      /\ place' = [place EXCEPT ![a] = done(a)]
      /\ UNCHANGED <<subm, stopped, mutex, box, slice, post, clock, late>>
  BY Zenon DEF CloseWait
<1>2. x \in Sub /\ box \in [Sub -> Box]
  BY <1>1, TargetIs, Zenon DEF MuxInv, MuxTypeOK
<1>3. Known(x) => box[x].closing
  BY <1>2, Zenon DEF MuxInv, BoxesOK, BoxOK
<1>4. /\ place' \in [Actor -> PlaceAt] /\ StopOK' /\ \A y \in Sub : Drains(y) => Drains(y)'
      /\ \A y \in Sub : place'[y].at = place[y].at \/ (y = a /\ place'[y].at = "over")
  BY <1>1, <1>2, <1>3, LeavesTarget, Zenon
<1>5. a \in Sub => x = a
  BY Zenon DEF target
<1>6. PostersOK'
  BY <1>1, PostersKept, Zenon
<1> HIDE DEF x
<1>7. BoxesOK'
  <2> SUFFICES ASSUME NEW y \in Sub PROVE BoxOK(y)'
    BY Zenon DEF BoxesOK
  <2>1. (Registered(y)' <=> Registered(y)) /\ (Sliced(y)' <=> Sliced(y)) /\ (Known(y)' <=> Known(y))
    BY <1>1, Zenon DEF Registered, Sliced, Known
  <2>2. BoxOK(y)
    BY Zenon DEF MuxInv, BoxesOK
  <2>3. CASE place'[y].at = place[y].at
    BY <1>1, <1>4, <2>1, <2>2, <2>3, Zenon DEF BoxOK
  <2>4. CASE y = a /\ place'[y].at = "over"
    BY <1>1, <1>3, <1>4, <1>5, <2>1, <2>2, <2>4, Zenon DEF BoxOK, Known
  <2> QED
    BY <1>4, <2>3, <2>4, Zenon
<1> QED
  BY <1>1, <1>2, <1>4, <1>6, <1>7, CloseKeeps, Zenon

\* What StopOK and Drains keep when an actor goes on with its target.
LEMMA StaysOnTarget ==
  ASSUME MuxInv, "stop" \notin Sub, NEW a \in Actor, NEW l \in {"drain", "forget"},
         NEW x \in Sub, x = target(a), place[a].at \in {"closewait", "drain"}, a = "stop" => place[a].todo # {},
         place' = [place EXCEPT ![a].at = l],
         UNCHANGED <<subm, stopped, mutex, slice>>, box' \in [Sub -> Box],
         \A y \in Sub : box[y].closing => box'[y].closing, box'[x].closing
  PROVE  /\ place' \in [Actor -> PlaceAt] /\ StopOK' /\ place'[a].at = l
         /\ \A y \in Sub : y # a => place'[y] = place[y]
         /\ \A y \in Sub : y # x /\ Drains(y) => Drains(y)'
         /\ l = "drain" => Drains(x)'
         /\ place'[x].at \notin {"new", "subscribe"}
<1>1. (a = "stop" => x \in place[a].todo) /\ (a # "stop" => x = a /\ a \in Sub)
  BY TargetIs, Zenon
<1>2. a = "stop" => x = target("stop")
  BY Zenon
<1>3. place \in [Actor -> PlaceAt] /\ "stop" \in Actor /\ Sub \subseteq Actor
  BY Zenon DEF MuxInv, MuxTypeOK, Actor
<1>4. /\ place' \in [Actor -> PlaceAt] /\ place'[a].at = l /\ place'[a].todo = place[a].todo
      /\ \A b \in Actor : b # a => place'[b] = place[b]
  BY <1>3 DEF PlaceAt
<1>5. place'["stop"].todo = place["stop"].todo /\ place["stop"].todo \subseteq Sub
  BY <1>3, <1>4, Zenon DEF PlaceAt
<1>6. target("stop")' = target("stop")
  BY <1>5 DEF target
<1>7. \A y : Registered(y)' <=> Registered(y)
  BY Zenon DEF Registered
<1>8. place'[x].at \notin {"new", "subscribe"}
  <2>1. CASE a = "stop"
    <3>1. mutex = "stop"
      BY <2>1, Zenon DEF MuxInv, StopOK
    <3> QED
      BY <1>1, <1>3, <1>4, <2>1, <3>1, Zenon DEF MuxInv, StopOK
  <2> QED
    BY <1>1, <1>4, <2>1, Zenon
<1>9. StopOK'
  <2>1. place'["stop"].at \in {"closewait", "drain", "forget"} <=> mutex = "stop"
    BY <1>3, <1>4, Zenon DEF MuxInv, StopOK
  <2>2. mutex = "stop" => \A y \in Sub : Registered(y) => y \in place'["stop"].todo \/ box'[y].closing
    BY <1>5, Zenon DEF MuxInv, StopOK
  <2>3. mutex = "stop" => \A y \in place'["stop"].todo : place'[y].at \notin {"new", "subscribe"}
    <3> SUFFICES ASSUME mutex = "stop", NEW y \in place["stop"].todo PROVE place'[y].at \notin {"new", "subscribe"}
      BY <1>5, Zenon
    <3>1. place[y].at \notin {"new", "subscribe"} /\ y \in Sub
      BY <1>5, Zenon DEF MuxInv, StopOK
    <3> QED
      BY <1>3, <1>4, <3>1, Zenon
  <2>4. place'["stop"].at \in {"drain", "forget"} => place'["stop"].todo # {} /\ box'[target("stop")].closing
    <3>1. CASE a = "stop"
      BY <1>2, <1>5, <3>1, Zenon
    <3>2. CASE a # "stop" /\ place'["stop"].at \in {"drain", "forget"}
      <4>1. place["stop"].at \in {"drain", "forget"}
        BY <1>3, <1>4, <3>2, Zenon
      <4>2. place["stop"].todo # {} /\ box[target("stop")].closing
        BY <4>1, Zenon DEF MuxInv, StopOK
      <4>3. target("stop") \in Sub
        BY <1>3, <4>2, TargetIs, Zenon
      <4> QED
        BY <1>5, <4>2, <4>3, Zenon
    <3> QED
      BY <3>1, <3>2, Zenon
  <2>5. stopped => place["stop"].at = "over" /\ \A t \in Type : subm[t] = <<>>
    BY Zenon DEF MuxInv, StopOK
  <2>6. stopped => place'["stop"].at = "over"
    BY <1>3, <1>4, <2>5, Zenon
  <2> QED
    BY <1>6, <1>7, <2>1, <2>2, <2>3, <2>4, <2>5, <2>6, Zenon DEF StopOK
<1>10. ASSUME NEW y \in Sub, y # x, Drains(y) PROVE Drains(y)'
  <2>1. CASE place[y].at = "drain"
    <3>1. y # a
      BY <1>1, <1>10, Zenon
    <3> QED
      BY <1>3, <1>4, <2>1, <3>1, Zenon DEF Drains
  <2>2. CASE place["stop"].at = "drain" /\ target("stop") = y
    <3>1. a # "stop"
      BY <1>2, <1>10, <2>2, Zenon
    <3> QED
      BY <1>3, <1>4, <1>6, <2>2, <3>1, Zenon DEF Drains
  <2> QED
    BY <1>10, <2>1, <2>2, Zenon DEF Drains
<1>12. l = "drain" => Drains(x)'
  <2>1. CASE a = "stop"
    <3>1. (target("stop") = x)'
      BY <1>2, <1>6, <2>1
    <3> QED
      BY <1>4, <2>1, <3>1, Zenon DEF Drains
  <2>2. CASE a # "stop"
    BY <1>1, <1>4, <2>2, Zenon DEF Drains
  <2> QED
    BY <2>1, <2>2, Zenon
<1>13. \A y \in Sub : y # a => place'[y] = place[y]
  BY <1>3, <1>4, Zenon
<1> QED
  BY <1>4, <1>8, <1>9, <1>10, <1>12, <1>13, Zenon

\* closewait closes s.closing.
LEMMA FirstToClose ==
  ASSUME MuxInv, "stop" \notin Sub, NEW a \in Actor, CloseWait(a), ~box[target(a)].closed
  PROVE  MuxInv'
<1>1. PICK x \in Sub : x = target(a)
  BY TargetIs, Zenon DEF CloseWait
<1>2. /\ place[a].at = "closewait" /\ (a = "stop" => place[a].todo # {})
      /\ place' = [place EXCEPT ![a].at = "drain"] /\ box' = closingBy(box, x, a)
      /\ UNCHANGED <<subm, stopped, mutex, slice, post, clock, late>>
  BY <1>1, Zenon DEF CloseWait, moveTo, closingBy
<1>3. /\ box' \in [Sub -> Box] /\ box'[x].closing /\ box'[x].postC = box[x].postC
      /\ box'[x].chan = box[x].chan /\ box'[x].postMu = box[x].postMu /\ \A y \in Sub : y # x => box'[y] = box[y]
  <2>1. box \in [Sub -> Box]
    BY Zenon DEF MuxInv, MuxTypeOK
  <2>2. /\ closingBy(box, x, a) \in [Sub -> Box] /\ closingBy(box, x, a)[x].closing
        /\ closingBy(box, x, a)[x].postC = box[x].postC /\ closingBy(box, x, a)[x].chan = box[x].chan
        /\ closingBy(box, x, a)[x].postMu = box[x].postMu
        /\ \A y \in Sub : y # x => closingBy(box, x, a)[y] = box[y]
    BY <2>1, ClosingBox
  <2> QED
    BY <1>2, <2>2, Zenon
<1>4. \A y \in Sub : box[y].closing => box'[y].closing
  BY <1>3, Zenon
<1>5. /\ place' \in [Actor -> PlaceAt] /\ StopOK' /\ place'[a].at = "drain"
      /\ \A y \in Sub : y # a => place'[y] = place[y]
      /\ \A y \in Sub : y # x /\ Drains(y) => Drains(y)'
      /\ Drains(x)' /\ place'[x].at \notin {"new", "subscribe"}
  BY <1>1, <1>2, <1>3, <1>4, StaysOnTarget, Zenon
<1>6. PostersOK'
  BY <1>2, <1>3, <1>4, PostersKept, Zenon
<1>7. BoxesOK'
  <2> SUFFICES ASSUME NEW y \in Sub PROVE BoxOK(y)'
    BY Zenon DEF BoxesOK
  <2>1. CASE y = x
    <3>1. BoxOK(x) /\ (Known(x)' <=> Known(x))
      BY <1>2, Zenon DEF MuxInv, BoxesOK, Known, Registered, Sliced
    <3> QED
      BY <1>3, <1>5, <2>1, <3>1, Zenon DEF BoxOK
  <2>2. CASE y # x
    <3>1. y # a
      BY <1>1, <2>2, Zenon DEF target
    <3> QED
      BY <1>2, <1>3, <1>5, <2>2, <3>1, OtherBox, Zenon
  <2> QED
    BY <2>1, <2>2, Zenon
<1> QED
  BY <1>2, <1>3, <1>5, <1>6, <1>7, CloseKeeps, Zenon

\* The channel is closed: nobody is about to send on it.
LEMMA ShutStep ==
  ASSUME MuxInv, "stop" \notin Sub, NEW a \in Actor, ClosePostC(a)
  PROVE  MuxInv'
<1>1. PICK x \in Sub : x = target(a)
  BY TargetIs, Zenon DEF ClosePostC, MuxInv, StopOK
<1>2. /\ place[a].at = "drain" /\ place' = [place EXCEPT ![a].at = "forget"] /\ box' = shut(box, x)
      /\ delivering(x) = {} /\ UNCHANGED <<subm, stopped, mutex, slice, post, clock, late>>
  BY <1>1, Zenon DEF ClosePostC, moveTo, shut
<1>3. box[x].closing /\ (a = "stop" => place[a].todo # {})
  BY <1>1, <1>2, Zenon DEF MuxInv, StopOK, BoxesOK, BoxOK, target
<1>4. /\ box' \in [Sub -> Box] /\ box'[x].closing /\ box'[x].chan = "closed" /\ box'[x].postMu
      /\ \A y \in Sub : y # x => box'[y] = box[y]
  <2>1. box \in [Sub -> Box]
    BY Zenon DEF MuxInv, MuxTypeOK
  <2>2. /\ shut(box, x) \in [Sub -> Box] /\ shut(box, x)[x].closing = box[x].closing
        /\ shut(box, x)[x].chan = "closed" /\ shut(box, x)[x].postMu
        /\ \A y \in Sub : y # x => shut(box, x)[y] = box[y]
    BY <2>1, ShutBox
  <2> QED
    BY <1>2, <1>3, <2>2, Zenon
<1>5. \A y \in Sub : box[y].closing => box'[y].closing
  BY <1>4, Zenon
<1>6. /\ place' \in [Actor -> PlaceAt] /\ StopOK'
      /\ \A y \in Sub : y # a => place'[y] = place[y]
      /\ \A y \in Sub : y # x /\ Drains(y) => Drains(y)'
      /\ place'[x].at \notin {"new", "subscribe"}
  <2>1. "forget" \in {"drain", "forget"} /\ place[a].at \in {"closewait", "drain"}
    BY <1>2, Zenon
  <2>2. /\ place' = [place EXCEPT ![a].at = "forget"] /\ UNCHANGED <<subm, stopped, mutex, slice>>
        /\ box' \in [Sub -> Box] /\ box'[x].closing
    BY <1>2, <1>4, Zenon
  <2> QED
    BY <1>1, <1>3, <1>5, <2>1, <2>2, StaysOnTarget, ZenonT(40)
<1>7. PostersOK'
  BY <1>2, <1>4, PostersKept, Zenon
<1>8. BoxesOK'
  <2> SUFFICES ASSUME NEW y \in Sub PROVE BoxOK(y)'
    BY Zenon DEF BoxesOK
  <2>1. CASE y = x
    BY <1>4, <1>6, <2>1, Zenon DEF BoxOK
  <2>2. CASE y # x
    <3>1. y # a
      BY <1>1, <2>2, Zenon DEF target
    <3> QED
      BY <1>2, <1>4, <1>6, <2>2, <3>1, OtherBox, Zenon
  <2> QED
    BY <2>1, <2>2, Zenon
<1> QED
  BY <1>2, <1>4, <1>6, <1>7, <1>8, CloseKeeps, Zenon

\* The channel is forgotten, and postMu is free again.
LEMMA ForgetStep ==
  ASSUME MuxInv, "stop" \notin Sub, NEW a \in Actor, ForgetPostC(a)
  PROVE  MuxInv'
<1>1. PICK x \in Sub : x = target(a)
  BY TargetIs, Zenon DEF ForgetPostC, MuxInv, StopOK
<1>2. /\ place[a].at = "forget" /\ place' = [place EXCEPT ![a] = done(a)] /\ box' = forgot(box, x)
      /\ UNCHANGED <<subm, stopped, mutex, slice, post, clock, late>>
  BY <1>1, Zenon DEF ForgetPostC, forgot
<1>3. box[x].closing /\ (a = "stop" => place[a].todo # {})
  BY <1>1, <1>2, Zenon DEF MuxInv, StopOK, BoxesOK, BoxOK, target
<1>4. /\ box' \in [Sub -> Box] /\ box'[x].closing /\ box'[x].chan = box[x].chan /\ box'[x].postC = "nil"
      /\ ~box'[x].postMu /\ box'[x].closed = box[x].closed /\ \A y \in Sub : y # x => box'[y] = box[y]
  <2>1. box \in [Sub -> Box]
    BY Zenon DEF MuxInv, MuxTypeOK
  <2> QED
    BY <1>2, <1>3, <2>1, ForgotBox, ZenonT(40)
<1>5. \A y \in Sub : (box[y].closing => box'[y].closing) /\ box'[y].chan = box[y].chan
  BY <1>4, Zenon
<1>6. /\ place' \in [Actor -> PlaceAt] /\ StopOK' /\ \A y \in Sub : Drains(y) => Drains(y)'
      /\ \A y \in Sub : place'[y].at = place[y].at \/ (y = a /\ place'[y].at = "over")
  BY <1>1, <1>2, <1>3, <1>4, <1>5, LeavesTarget, Zenon
<1>7. PostersOK'
  BY <1>2, <1>4, <1>5, PostersKept, Zenon
<1>8. BoxesOK'
  <2> SUFFICES ASSUME NEW y \in Sub PROVE BoxOK(y)'
    BY Zenon DEF BoxesOK
  <2>1. BoxOK(y) /\ (Registered(y)' <=> Registered(y)) /\ (Sliced(y)' <=> Sliced(y)) /\ (Known(y)' <=> Known(y))
    BY <1>2, Zenon DEF MuxInv, BoxesOK, Registered, Sliced, Known
  <2>2. CASE y = x
    BY <1>3, <1>4, <1>6, <2>1, <2>2, Zenon DEF BoxOK
  <2>3. CASE y # x
    <3>1. y # a
      BY <1>1, <2>3, Zenon DEF target
    <3> QED
      BY <1>4, <1>6, <2>1, <2>3, <3>1, Zenon DEF BoxOK
  <2> QED
    BY <2>2, <2>3, Zenon
<1> QED
  BY <1>2, <1>4, <1>6, <1>7, <1>8, CloseKeeps, Zenon

\* Stop takes the mutex, and gives it back when its loop is done.
LEMMA StopSteps ==
  ASSUME MuxInv, "stop" \notin Sub, StopMux \/ StopDone
  PROVE  MuxInv'
<1>1. /\ place \in [Actor -> PlaceAt] /\ "stop" \in Actor /\ Sub \subseteq Actor /\ subm \in [Type -> Seq(Sub)]
  BY Zenon DEF MuxInv, MuxTypeOK, Actor
<1>2. \A y : Sliced(y)' <=> Sliced(y)
  BY Zenon DEF StopMux, StopDone, Sliced
<1>3. CASE StopMux
  <2> DEFINE all == UNION {Range(subm[t]) : t \in Type}
  <2>1. /\ mutex' = "stop" /\ place' = [place EXCEPT !["stop"] = [at |-> "closewait", todo |-> all]]
        /\ UNCHANGED <<subm, stopped, box, slice, post, clock, late>>
    BY <1>3, Zenon DEF StopMux
  <2>2. \A y \in all : y \in Sub /\ Registered(y)
    BY <1>1 DEF Registered, Range
  <2>3. \A y \in Sub : Registered(y) => y \in all
    BY Zenon DEF Registered
  <2> HIDE DEF all
  <2>4. /\ place' \in [Actor -> PlaceAt] /\ place'["stop"].at = "closewait" /\ place'["stop"].todo = all
        /\ \A y \in Sub : place'[y] = place[y]
    <3>1. [at |-> "closewait", todo |-> all] \in PlaceAt
      BY <2>2, Zenon DEF PlaceAt
    <3> QED
      BY <1>1, <2>1, <3>1, Zenon
  <2>5. \A y : Registered(y)' <=> Registered(y)
    BY <2>1, Zenon DEF Registered
  <2>6. MuxTypeOK'
    BY <2>1, <2>4, Zenon DEF MuxInv, MuxTypeOK
  <2>7. BoxesOK'
    <3>1. \A y \in Sub : Drains(y) => Drains(y)'
      BY <1>3, <2>4, Zenon DEF StopMux, Drains
    <3> QED
      BY <2>1, <2>4, <3>1, OtherBox, Zenon DEF BoxesOK
  <2>8. \A y \in all : place'[y].at \notin {"new", "subscribe"}
    BY <2>2, <2>4, Zenon DEF MuxInv, BoxesOK, BoxOK, Known
  <2>10. ~stopped
    BY <1>3, Zenon DEF StopMux, MuxInv, StopOK
  <2>9. StopOK'
    BY <2>1, <2>3, <2>4, <2>5, <2>8, <2>10, Zenon DEF StopOK
  <2>11. PostersOK'
    BY <2>1, PostersKept, Zenon
  <2> QED
    BY <2>1, <2>6, <2>7, <2>9, <2>11, Zenon DEF MuxInv
<1>4. CASE StopDone
  <2>1. /\ place["stop"].at = "closewait" /\ place["stop"].todo = {}
        /\ subm' = [t \in Type |-> <<>>] /\ stopped' = TRUE /\ mutex' = NoOne
        /\ place' = [place EXCEPT !["stop"].at = "over"]
        /\ UNCHANGED <<box, slice, post, clock, late>>
    BY <1>4, Zenon DEF StopDone, moveTo
  <2>2. /\ place' \in [Actor -> PlaceAt] /\ place'["stop"].at = "over" /\ \A y \in Sub : place'[y] = place[y]
    BY <1>1, <2>1 DEF PlaceAt
  <2>3. subm' \in [Type -> Seq(Sub)] /\ \A y : ~Registered(y)'
    BY <2>1 DEF Registered, Range
  <2>4. \A y \in Sub : Registered(y) => box[y].closing
    BY <2>1, Zenon DEF MuxInv, StopOK
  <2>5. MuxTypeOK'
    BY <2>1, <2>2, <2>3, Zenon DEF MuxInv, MuxTypeOK
  <2>6. BoxesOK'
    <3> SUFFICES ASSUME NEW y \in Sub PROVE BoxOK(y)'
      BY Zenon DEF BoxesOK
    <3>1. (Drains(y) => Drains(y)') /\ (Known(y)' => Known(y)) /\ (Sliced(y) => Known(y))
      BY <1>2, <2>1, <2>2, <2>3, Zenon DEF Drains, Known
    <3>2. BoxOK(y)
      BY Zenon DEF MuxInv, BoxesOK
    <3> QED
      BY <1>2, <2>1, <2>2, <2>3, <2>4, <3>1, <3>2, Zenon DEF BoxOK
  <2>7. StopOK'
    BY <2>1, <2>2, Zenon DEF StopOK, NoOne
  <2>8. PostersOK'
    BY <2>1, PostersKept, Zenon
  <2> QED
    BY <2>1, <2>5, <2>6, <2>7, <2>8, Zenon DEF MuxInv
<1> QED
  BY <1>3, <1>4, Zenon

\* newsub, Subscribe and del.
LEMMA SubSteps ==
  ASSUME MuxInv, "stop" \notin Sub, NEW x \in Sub, NewSub(x) \/ Subscribe(x) \/ Del(x)
  PROVE  MuxInv'
<1>1. /\ place \in [Actor -> PlaceAt] /\ "stop" \in Actor /\ x \in Actor /\ Sub \subseteq Actor
      /\ subm \in [Type -> Seq(Sub)] /\ box \in [Sub -> Box] /\ clock \in Nat /\ place["stop"].todo \subseteq Sub
  BY Zenon DEF MuxInv, MuxTypeOK, Actor, PlaceAt
<1>2. UNCHANGED <<stopped, mutex, slice, post, late>> /\ \A y : Sliced(y)' <=> Sliced(y)
  BY Zenon DEF NewSub, Subscribe, Del, Sliced
<1>3. \A l \in {"subscribe", "idle", "closewait"} : moveTo(x, l) =>
        /\ place' \in [Actor -> PlaceAt] /\ place'[x].at = l /\ place'["stop"] = place["stop"]
        /\ \A y \in Sub : y # x => place'[y] = place[y]
  BY <1>1 DEF moveTo, PlaceAt
<1>7. /\ place[x].at \notin {"drain", "forget"} /\ place'["stop"] = place["stop"]
      /\ \A y \in Sub : y # x => place'[y] = place[y]
  BY <1>3, Zenon DEF NewSub, Subscribe, Del
<1>8. target("stop")' = target("stop")
  BY <1>7 DEF target
<1>9. \A y \in Sub : Drains(y) => Drains(y)'
  BY <1>7, <1>8, Zenon DEF Drains
<1>4. CASE NewSub(x)
  <2>1. /\ place[x].at = "new" /\ clock' = clock + 1 /\ moveTo(x, "subscribe") /\ UNCHANGED subm
        /\ box' = [box EXCEPT ![x].created = clock + 1]
    BY <1>4, Zenon DEF NewSub
  <2>2. /\ box' \in [Sub -> Box] /\ \A y \in Sub : y # x => box'[y] = box[y]
        /\ box'[x].closing = box[x].closing /\ box'[x].closed = box[x].closed /\ box'[x].postC = box[x].postC
        /\ box'[x].chan = box[x].chan /\ box'[x].postMu = box[x].postMu
    <3>1. clock + 1 \in Nat /\ box' = stamped(box, x, clock + 1)
      BY <1>1, <2>1 DEF stamped
    <3> QED
      BY <1>1, <3>1, StampedBox
  <2>3. /\ place' \in [Actor -> PlaceAt] /\ place'[x].at = "subscribe" /\ place'["stop"] = place["stop"]
        /\ \A y \in Sub : y # x => place'[y] = place[y]
    BY <1>3, <2>1, Zenon
  <2>4. \A y : Registered(y)' <=> Registered(y)
    BY <2>1, Zenon DEF Registered
  <2>5. MuxTypeOK'
    BY <1>1, <1>2, <2>1, <2>2, <2>3 DEF MuxInv, MuxTypeOK
  <2>6. BoxesOK'
    <3> SUFFICES ASSUME NEW y \in Sub PROVE BoxOK(y)'
      BY Zenon DEF BoxesOK
    <3>1. BoxOK(y) /\ (Registered(y)' <=> Registered(y)) /\ (Sliced(y)' <=> Sliced(y)) /\ (Known(y)' <=> Known(y))
      BY <1>2, <2>4, Zenon DEF MuxInv, BoxesOK, Known
    <3>2. CASE y = x
      BY <1>9, <2>1, <2>2, <2>3, <3>1, <3>2, Zenon DEF BoxOK
    <3>3. CASE y # x
      BY <1>9, <2>2, <2>3, <3>1, <3>3, Zenon DEF BoxOK
    <3> QED
      BY <3>2, <3>3, Zenon
  <2>9. PostersOK'
    <3>1. \A y \in Sub : box'[y].postMu = box[y].postMu /\ box'[y].closing = box[y].closing /\ box'[y].chan = box[y].chan
      BY <2>2, Zenon
    <3> QED
      BY <1>2, <3>1, PostersKept, Zenon
  <2>7. StopOK'
    <3>2. place["stop"].at \in {"drain", "forget"} => place["stop"].todo # {} /\ target("stop") \in Sub
      BY <1>1, TargetIs, Zenon DEF MuxInv, StopOK
    <3>3. \A y \in Sub : box[y].closing => box'[y].closing
      BY <2>2, Zenon
    <3>4. mutex = "stop" => x \notin place["stop"].todo
      BY <2>1, Zenon DEF MuxInv, StopOK
    <3>5. place'["stop"].at \in {"drain", "forget"} => place'["stop"].todo # {} /\ box'[target("stop")].closing
      BY <2>3, <3>2, <3>3, Zenon DEF MuxInv, StopOK
    <3>6. mutex = "stop" => \A y \in Sub : Registered(y) => y \in place'["stop"].todo \/ box'[y].closing
      BY <2>3, <3>3, Zenon DEF MuxInv, StopOK
    <3>7. mutex = "stop" => \A y \in place'["stop"].todo : place'[y].at \notin {"new", "subscribe"}
      BY <1>1, <2>3, <3>4, Zenon DEF MuxInv, StopOK
    <3>8. /\ place'["stop"].at \in {"closewait", "drain", "forget"} <=> mutex = "stop"
          /\ (stopped => place'["stop"].at = "over" /\ \A t \in Type : subm[t] = <<>>)
      BY <2>3, Zenon DEF MuxInv, StopOK
    <3> QED
      BY <1>2, <2>1, <1>8, <2>4, <3>5, <3>6, <3>7, <3>8, Zenon DEF StopOK
  <2> QED
    BY <1>2, <2>5, <2>6, <2>7, <2>9, Zenon DEF MuxInv
<1>5. CASE Subscribe(x)
  <2>1. place[x].at = "subscribe" /\ mutex = NoOne /\ moveTo(x, "idle") /\ UNCHANGED clock
    BY <1>5, Zenon DEF Subscribe
  <2>2. /\ place' \in [Actor -> PlaceAt] /\ place'[x].at = "idle" /\ place'["stop"] = place["stop"]
        /\ \A y \in Sub : y # x => place'[y] = place[y]
    BY <1>3, <2>1, Zenon
  <2>3. ~box[x].closed /\ box[x].chan = "open" /\ ~Known(x) /\ BoxOK(x)
    BY <2>1, Zenon DEF MuxInv, BoxesOK, BoxOK
  <2>4. CASE stopped
    <3>1. UNCHANGED subm /\ box' = refused(box, x)
      BY <1>5, <2>4, Zenon DEF Subscribe, refused
    <3>2. /\ box' \in [Sub -> Box] /\ \A y \in Sub : y # x => box'[y] = box[y]
          /\ box'[x].closing = box[x].closing /\ box'[x].chan = "closed" /\ box'[x].postC = box[x].postC
      BY <1>1, <3>1, RefusedBox
    <3>3. \A y : Registered(y)' <=> Registered(y)
      BY <3>1, Zenon DEF Registered
    <3>4. MuxTypeOK'
      BY <1>1, <1>2, <2>1, <2>2, <3>1, <3>2, Zenon DEF MuxInv, MuxTypeOK
    <3>5. BoxesOK'
      <4> SUFFICES ASSUME NEW y \in Sub PROVE BoxOK(y)'
        BY Zenon DEF BoxesOK
      <4>1. CASE y = x
        <5>1. ~Known(x)' /\ ~Sliced(x)'
          BY <1>2, <2>3, <3>3, Zenon DEF Known
        <5> QED
          BY <2>2, <2>3, <3>2, <4>1, <5>1, Zenon DEF BoxOK
      <4>2. CASE y # x
        BY <1>2, <1>9, <2>2, <3>1, <3>2, <4>2, OtherBox, Zenon
      <4> QED
        BY <4>1, <4>2, Zenon
    <3>7. PostersOK'
      <4>1. \A y \in Sub : Sliced(y) => y # x
        BY <2>3, Zenon DEF Known
      <4> QED
        BY <1>2, <3>2, <4>1, PostersKept, Zenon
    <3>6. StopOK'
      BY <1>2, <2>1, <2>2, <3>1, Zenon DEF MuxInv, StopOK, NoOne
    <3> QED
      BY <1>2, <3>4, <3>5, <3>6, <3>7, Zenon DEF MuxInv
  <2>5. CASE ~stopped
    <3>1. PICK ts \in (SUBSET Type) \ {{}} :
            subm' = [t \in Type |-> IF t \in ts THEN Append(subm[t], x) ELSE subm[t]]
      BY <1>5, <2>5, Zenon DEF Subscribe
    <3>2. UNCHANGED box
      BY <1>5, <2>5, Zenon DEF Subscribe
    <3>3. \A t \in Type : subm'[t] \in Seq(Sub) /\ \A y : y # x => (y \in Range(subm'[t]) <=> y \in Range(subm[t]))
      <4> TAKE t \in Type
      <4>1. Append(subm[t], x) \in Seq(Sub) /\ Range(Append(subm[t], x)) = Range(subm[t]) \cup {x}
        BY <1>1, RangeOfAppend, Zenon
      <4> QED
        BY <1>1, <3>1, <4>1, Zenon
    <3>4. subm' \in [Type -> Seq(Sub)]
      BY <3>1, <3>3, Zenon
    <3>5. \A y \in Sub : y # x => (Registered(y)' <=> Registered(y))
      BY <3>3, Zenon DEF Registered
    <3>6. MuxTypeOK'
      BY <1>2, <2>1, <2>2, <3>2, <3>4, Zenon DEF MuxInv, MuxTypeOK
    <3>7. BoxesOK'
      <4> SUFFICES ASSUME NEW y \in Sub PROVE BoxOK(y)'
        BY Zenon DEF BoxesOK
      <4>1. CASE y = x
        BY <1>2, <1>9, <2>2, <2>3, <3>2, <4>1, Zenon DEF BoxOK, Known
      <4>2. CASE y # x
        <5>1. BoxOK(y) /\ (Registered(y)' <=> Registered(y)) /\ (Sliced(y)' <=> Sliced(y)) /\ (Known(y)' <=> Known(y))
          BY <1>2, <3>5, <4>2, Zenon DEF MuxInv, BoxesOK, Known
        <5> QED
          BY <1>9, <2>2, <3>2, <4>2, <5>1, Zenon DEF BoxOK
      <4> QED
        BY <4>1, <4>2, Zenon
    <3>9. PostersOK'
      BY <1>2, <3>2, PostersKept, Zenon
    <3>8. StopOK'
      BY <1>2, <2>1, <2>2, <2>5, Zenon DEF MuxInv, StopOK, NoOne
    <3> QED
      BY <1>2, <3>6, <3>7, <3>8, <3>9, Zenon DEF MuxInv
  <2> QED
    BY <2>4, <2>5, Zenon
<1>6. CASE Del(x)
  <2>1. /\ place[x].at = "idle" /\ mutex = NoOne /\ moveTo(x, "closewait") /\ UNCHANGED <<box, clock>>
        /\ subm' = [t \in Type |-> IF x \in Range(subm[t])
                                   THEN posdelete(subm[t], CHOOSE i \in DOMAIN subm[t] : subm[t][i] = x)
                                   ELSE subm[t]]
    BY <1>6, Zenon DEF Del
  <2>2. /\ place' \in [Actor -> PlaceAt] /\ place'[x].at = "closewait" /\ place'["stop"] = place["stop"]
        /\ \A y \in Sub : y # x => place'[y] = place[y]
    BY <1>3, <2>1, Zenon
  <2>3. ASSUME NEW t \in Type
        PROVE  /\ subm'[t] \in Seq(Sub) /\ Range(subm'[t]) \subseteq Range(subm[t])
               /\ \A y \in Range(subm[t]) : y # x => y \in Range(subm'[t])
               /\ subm[t] = <<>> => subm'[t] = <<>>
    <3>1. CASE x \in Range(subm[t])
      <4> DEFINE i == CHOOSE i \in DOMAIN subm[t] : subm[t][i] = x
      <4>1. i \in DOMAIN subm[t] /\ subm[t][i] = x
        BY <3>1, Zenon DEF Range
      <4>2. subm'[t] = posdelete(subm[t], i)
        BY <2>1, <3>1, Zenon
      <4> HIDE DEF i
      <4>3. subm[t] \in Seq(Sub) /\ subm[t] # <<>>
        BY <1>1, <4>1
      <4> QED
        BY <4>1, <4>2, <4>3, PosDelete, Zenon
    <3>2. CASE x \notin Range(subm[t])
      BY <1>1, <2>1, <3>2, Zenon
    <3> QED
      BY <3>1, <3>2, Zenon
  <2>4. subm' \in [Type -> Seq(Sub)]
    BY <2>1, <2>3, Zenon
  <2>5. \A y \in Sub : (Registered(y)' => Registered(y)) /\ (y # x /\ Registered(y) => Registered(y)')
    BY <2>3, Zenon DEF Registered
  <2>6. MuxTypeOK'
    BY <1>2, <2>1, <2>2, <2>4, Zenon DEF MuxInv, MuxTypeOK
  <2>7. BoxesOK'
    <3> SUFFICES ASSUME NEW y \in Sub PROVE BoxOK(y)'
      BY Zenon DEF BoxesOK
    <3>1. BoxOK(y) /\ (Registered(y)' => Registered(y)) /\ (Sliced(y)' <=> Sliced(y)) /\ (Known(y)' => Known(y))
      BY <1>2, <2>5, Zenon DEF MuxInv, BoxesOK, Known
    <3>2. CASE y = x
      BY <1>9, <2>1, <2>2, <3>1, <3>2, Zenon DEF BoxOK
    <3>3. CASE y # x
      BY <1>9, <2>1, <2>2, <2>5, <3>1, <3>3, Zenon DEF BoxOK
    <3> QED
      BY <3>2, <3>3, Zenon
  <2>9. PostersOK'
    BY <1>2, <2>1, PostersKept, Zenon
  <2>8. StopOK'
    BY <1>2, <2>1, <2>2, <2>3, Zenon DEF MuxInv, StopOK, NoOne
  <2> QED
    BY <1>2, <2>6, <2>7, <2>8, <2>9, Zenon DEF MuxInv
<1> QED
  BY <1>4, <1>5, <1>6, Zenon

(***************************************************************************)
(* Whatever the number of subscriptions, types and posters                 *)
(* (event/event.go): the channel that a delivery has evaluated is not      *)
(* closed under it, so that Post never sends on a closed channel; a        *)
(* delivery that found nil is released; and once Stop has returned, an     *)
(* event reaches at most a subscription whose Unsubscribe has begun and    *)
(* has not yet closed it.                                                  *)
(***************************************************************************)
THEOREM MuxStaysSound ==
  ASSUME "stop" \notin Sub
  PROVE  MuxSpec => []MuxSound
<1>1. MuxInit => MuxInv
  BY InitMux, Zenon
<1>2. MuxInv /\ [MuxNext]_muxVars => MuxInv'
  <2> SUFFICES ASSUME MuxInv, [MuxNext]_muxVars PROVE MuxInv'
    BY Zenon
  <2>1. CASE UNCHANGED muxVars
    <3>1. UNCHANGED <<subm, stopped, mutex, box, slice, post, place, clock, late>>
      BY <2>1, Zenon DEF muxVars
    <3>2. \A y \in Sub : Drains(y) => Drains(y)'
      BY <3>1, Zenon DEF Drains, target
    <3>3. BoxesOK' /\ PostersOK'
      BY <3>1, <3>2, OtherBox, PostersKept, Zenon DEF BoxesOK
    <3>4. \A y : Registered(y)' <=> Registered(y)
      BY <3>1, Zenon DEF Registered
    <3>5. MuxTypeOK' /\ StopOK'
      BY <3>1, <3>4, Zenon DEF MuxInv, MuxTypeOK, StopOK, target
    <3> QED
      BY <3>1, <3>3, <3>5, Zenon DEF MuxInv
  <2>2. ASSUME NEW x \in Sub, NewSub(x) \/ Subscribe(x) \/ Del(x) PROVE MuxInv'
    BY <2>2, SubSteps, Zenon
  <2>3. ASSUME NEW p \in Poster, NewEvent(p) \/ Post(p) \/ NextSub(p) \/ Select(p) \/ Deliver(p) PROVE MuxInv'
    BY <2>3, PostSteps, Zenon
  <2>4. ASSUME NEW a \in Actor, Closing(a) PROVE MuxInv'
    <3>1. CASE CloseWait(a)
      BY <3>1, AlreadyClosed, FirstToClose, Zenon
    <3>2. CASE ClosePostC(a)
      BY <3>2, ShutStep, Zenon
    <3>3. CASE ForgetPostC(a)
      BY <3>3, ForgetStep, Zenon
    <3>4. CASE StopDone
      BY <3>4, StopSteps, Zenon
    <3> QED
      BY <2>4, <3>1, <3>2, <3>3, <3>4, Zenon DEF Closing
  <2>5. CASE StopMux
    BY <2>5, StopSteps, Zenon
  <2> QED
    BY <2>1, <2>2, <2>3, <2>4, <2>5, Zenon DEF MuxNext
<1>3. MuxInv => MuxSound
  <2> SUFFICES ASSUME MuxInv PROVE MuxSound
    BY Zenon
  <2>1. ASSUME NEW p \in Poster, post[p].at = "select"
        PROVE  LET x == Head(slice[p])
               IN IF post[p].to = "nil" THEN box[x].closing
                  ELSE box[x].chan = "open" /\ (stopped => place[x].at \in {"closewait", "drain"})
    <3> DEFINE x == Head(slice[p])
    <3>1. slice[p] # <<>> /\ slice[p] \in Seq(Sub) /\ PosterOK(p)
      BY <2>1, Zenon DEF MuxInv, MuxTypeOK, PostersOK, PosterOK
    <3>2. x \in Sub /\ x \in Range(slice[p])
      BY <3>1, RangeOfTail, Zenon
    <3>3. IF post[p].to = "nil" THEN box[x].closing ELSE box[x].chan = "open"
      BY <2>1, <3>1, Zenon DEF PosterOK
    <3> HIDE DEF x
    <3>4. Sliced(x) /\ BoxOK(x)
      BY <3>2, Zenon DEF Sliced, MuxInv, BoxesOK
    <3>5. stopped => ~Registered(x) /\ place["stop"].at = "over"
      BY DEF MuxInv, StopOK, Registered, Range
    <3>6. stopped /\ box[x].chan = "open" => place[x].at \in {"closewait", "drain"}
      BY <3>4, <3>5, Zenon DEF BoxOK, Drains
    <3> QED
      BY <3>3, <3>6, Zenon DEF x
  <2>2. ~late /\ (stopped => \A t \in Type : subm[t] = <<>>)
    BY Zenon DEF MuxInv, StopOK
  <2> QED
    BY <2>1, <2>2, Zenon DEF MuxSound
<1> QED
  BY <1>1, <1>2, <1>3, PTL DEF MuxSpec
=============================================================================
