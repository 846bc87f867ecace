--------------------------- MODULE ClosableMutex ---------------------------
(***************************************************************************)
(* syncx.ClosableMutex (src/utils/syncx/mutex.go), the lock chainmu of     *)
(* core.Blockchain.  The mutex is a channel with one buffer slot: the      *)
(* token is in the channel while the mutex is free; taking the token locks *)
(* it; Close takes the token and closes the channel, after which every     *)
(* receive reports "not ok".  A send on a closed channel panics.           *)
(***************************************************************************)
EXTENDS Naturals

CONSTANT Proc   \* goroutines that use the mutex

VARIABLES ch,        \* the channel: "token", "empty" or "closed"
          goroutine  \* of each: what it is doing with the mutex

mutexVars == <<ch, goroutine>>

MutexState == {"out", "trying", "holding", "refused", "closing", "closed", "panic"}

MutexInit ==
    /\ ch = "token"
    /\ goroutine = [p \in Proc |-> "out"]

CallTryLock(p) ==
    /\ goroutine[p] = "out"
    /\ goroutine' = [goroutine EXCEPT ![p] = "trying"]
    /\ UNCHANGED ch

\* The receive of TryLock and MustLock: blocks while the token is out.
TryLock(p) ==
    /\ goroutine[p] = "trying"
    /\ \/ /\ ch = "token"
          /\ ch' = "empty"
          /\ goroutine' = [goroutine EXCEPT ![p] = "holding"]
       \/ /\ ch = "closed"
          /\ goroutine' = [goroutine EXCEPT ![p] = "refused"]
          /\ UNCHANGED ch

\* Unlock, called by the holder: a send that must not block.
Unlock(p) ==
    /\ goroutine[p] = "holding"
    /\ IF ch = "empty"
       THEN ch' = "token" /\ goroutine' = [goroutine EXCEPT ![p] = "out"]
       ELSE UNCHANGED ch /\ goroutine' = [goroutine EXCEPT ![p] = "panic"]

CallClose(p) ==
    /\ goroutine[p] = "out"
    /\ goroutine' = [goroutine EXCEPT ![p] = "closing"]
    /\ UNCHANGED ch

\* Mutant: the holder is not waited for.
CloseNow(p) ==
    /\ goroutine[p] = "closing"
    /\ ch' = "closed"
    /\ goroutine' = [goroutine EXCEPT ![p] = IF ch = "closed" THEN "panic" ELSE "closed"]

Close(p) ==
    /\ goroutine[p] = "closing"
    /\ \/ /\ ch = "token"
          /\ ch' = "closed"
          /\ goroutine' = [goroutine EXCEPT ![p] = "closed"]
       \/ /\ ch = "closed"
          /\ goroutine' = [goroutine EXCEPT ![p] = "panic"]
          /\ UNCHANGED ch

\* A goroutine whose TryLock was refused goes on without the mutex.
GoOn(p) ==
    /\ goroutine[p] = "refused"
    /\ goroutine' = [goroutine EXCEPT ![p] = "out"]
    /\ UNCHANGED ch

MutexStep(p) == CallTryLock(p) \/ TryLock(p) \/ Unlock(p) \/ CallClose(p) \/ Close(p) \/ GoOn(p)

MutexNext == \E p \in Proc : MutexStep(p)

MutexSpec == MutexInit /\ [][MutexNext]_mutexVars

-----------------------------------------------------------------------------
\* The states of the channel and of the goroutines.
MutexTypeOK ==
    /\ ch \in {"token", "empty", "closed"}
    /\ goroutine \in [Proc -> MutexState]

\* At most one goroutine is between a successful TryLock and its Unlock
\* (chainmu guards Blockchain.blocks), the token is then out of the channel,
\* and the channel is not closed: Close waits for the holder.
MutualExclusion ==
    \A p \in Proc : goroutine[p] = "holding" => ch = "empty" /\ \A q \in Proc : goroutine[q] = "holding" => p = q

\* While a goroutine waits in TryLock or Close, it or the holder can go on:
\* nobody waits for a mutex that was closed.
MutexGoesOn ==
    (\E p \in Proc : goroutine[p] \in {"trying", "closing"}) =>
        \E p \in Proc : ENABLED TryLock(p) \/ ENABLED Close(p) \/ ENABLED Unlock(p)
=============================================================================
