------------------------------ MODULE MCEvent ------------------------------
(* The models of the event package and of the closable mutex for TLC.  A     *)
(* behaviour is a behaviour of one of them, chosen at the start; Feed and    *)
(* ClosableMutex have variables of their own, the others share x1 .. x9.     *)
EXTENDS Feed, ClosableMutex

CONSTANTS p1, p2, p3, p4, kind

VARIABLES unit, x1, x2, x3, x4, x5, x6, x7, x8, x9

lent == <<x1, x2, x3, x4, x5, x6, x7, x8, x9>>
mcvars == <<unit, vars, mutexVars, lent>>

Scope == INSTANCE Subscription WITH Sub <- {p1, p2}, Closer <- {p3, p4}, producer <- x1, returned <- x2,
           flags <- x3, err <- x4, scope <- x5, pc <- x6, todo <- x7, read <- x8,
           Caller <- {p1, p2}, BackoffMax <- 10, resubLoop <- x1, attempt <- x2,
           inner <- x3, waitTime <- x4, once <- x5, caller <- x6, left <- x7,
           Poster <- {p3}, Type <- {kind, p4}, subm <- x1, stopped <- x2, mutex <- x3, box <- x4,
           slice <- x5, post <- x6, place <- x7, clock <- x8, late <- x9

Quiet == Init /\ room = [c \in Chan |-> 0]
Unlent == x1 = 0 /\ x2 = 0 /\ x3 = 0 /\ x4 = 0 /\ x5 = 0 /\ x6 = 0 /\ x7 = 0 /\ x8 = 0 /\ x9 = 0

MCInit ==
  /\ MutexInit
  /\ \/ unit = "feed" /\ Init /\ Unlent
     \/ unit = "mutex" /\ Quiet /\ Unlent
     \/ unit = "scope" /\ Quiet /\ Scope!ScopeInit /\ x9 = 0
     \/ unit = "resub" /\ Quiet /\ Scope!ResubInit /\ x8 = 0 /\ x9 = 0
     \/ unit = "mux" /\ Quiet /\ Scope!MuxInit

(* Every model may come to an end; who must not be left waiting is said by   *)
(* FeedReturns and CallsGoOn.                                                *)
Rest == UNCHANGED mcvars

MCNext ==
  \/ unit = "feed" /\ Next /\ UNCHANGED <<unit, mutexVars, lent>>
  \/ unit = "mutex" /\ MutexNext /\ UNCHANGED <<unit, vars, lent>>
  \/ unit = "scope" /\ Scope!ScopeNext /\ UNCHANGED <<unit, vars, mutexVars, x9>>
  \/ unit = "resub" /\ Scope!ResubNext /\ UNCHANGED <<unit, vars, mutexVars, x8, x9>>
  \/ unit = "mux" /\ Scope!MuxNext /\ UNCHANGED <<unit, vars, mutexVars>>
  \/ Rest

(* Feed's fairness while it is the model that runs.                          *)
MCFairness ==
  /\ \A s \in Sender : /\ WF_vars(unit = "feed" /\ SendStep(s))
                       /\ SF_vars(unit = "feed" /\ SendLock(s))
  /\ \A c \in Chan : /\ SF_vars(unit = "feed" /\ RemoveStep(c))
                     /\ WF_vars(unit = "feed" /\ sub[c] = "active" /\ Receive(c))

MCSpec == MCInit /\ [][MCNext]_mcvars /\ MCFairness

(* Only the subscription that is set up again, under its fairness.           *)
resub == <<x1, x2, x3, x4, x5, x6, x7>>
ResubSpec == /\ unit = "resub" /\ MCInit /\ [][MCNext]_mcvars
             /\ WF_resub(Scope!LoopStep) /\ WF_resub(Scope!FnReturns)
             /\ \A p \in {p1, p2} : SF_resub(Scope!CallStep(p))

-----------------------------------------------------------------------------
(* ClosableMutex and Subscription: the producer's error is kept for the      *)
(* reader, the goroutine that ended a subscription waited for it and a       *)
(* closed scope tracks nothing; nothing is sent on a closed channel, nor,    *)
(* once Stop has returned, to a subscription whose owner is not inside       *)
(* Unsubscribe; the back-off stays within its limit and the loop leaves no   *)
(* subscription of its own behind.  Blocking calls never wait for one        *)
(* another for ever: TryLock and Close of the mutex, Unsubscribe and Close   *)
(* of a scope, Unsubscribe and Stop of the mux.                              *)
SubscriptionsSound ==
  /\ unit = "mutex" => MutexGoesOn
  /\ unit = "scope" => Scope!SubscriptionSound /\ Scope!SubscriptionGoesOn
  /\ unit = "mux" => Scope!MuxSound /\ Scope!MuxGoesOn
  /\ unit = "resub" => Scope!ResubscribeSound

(* Feed: every Send and every Unsubscribe returns.                           *)
FeedReturns == SendReturns /\ UnsubscribeReturns

(* Subscription: "You must call Unsubscribe in all cases to ensure that      *)
(* resources related to the subscription are released. It can be called any  *)
(* number of times" (subscription.go:39): such a call returns, also when the *)
(* subscription has ended by itself.                                         *)
ResubscribeReturns == \A p \in {p1, p2} : x6[p] # "idle" ~> x6[p] = "done"
=============================================================================
