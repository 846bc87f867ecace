--------------------------- MODULE PoolLifecycle ---------------------------
(***************************************************************************)
(* The goroutines of a transaction pool and the channels between them:     *)
(*   - TxPool.loop, which turns chain heads into resets, at most one at a  *)
(*     time, and the resetter goroutine it starts (src/core/txpool/        *)
(*     txpool.go);                                                         *)
(*   - the callers of addTxs;                                              *)
(*   - scheduleReorgLoop, which gathers requests and hands them to         *)
(*     runReorg, one run at a time, and runReorg itself;                   *)
(*   - LegacyPool.loop, whose ticks take pool.mu;                          *)
(*   - the caller of Close (src/core/txpool/legacypool/legacypool.go).     *)
(* Unbuffered channels are rendezvous: one action moves both ends.  What   *)
(* the critical sections do to the pool is the subject of LegacyPool.      *)
(***************************************************************************)
EXTENDS Naturals, TLAPS

CONSTANTS Adder,    \* goroutines that call addTxs
          SyncAdder, \* those of them that wait for the promotion to happen
          MaxHead,  \* bound: number of new chain heads
          MaxRun    \* bound: no adder starts once this many runs were launched

ASSUME LifecycleAssumption == SyncAdder \subseteq Adder /\ MaxHead \in Nat /\ MaxRun \in Nat

VARIABLES loop, newHead, oldHead, busy,   \* TxPool.loop: its place and variables
          resetter, rHead, rDone,         \* resetter: its place, its head, the channel it waits on
          pc, done,                       \* per adder: its place, the channel it waits on
          sched,                          \* scheduleReorgLoop: its place
          curDone, nextDone, launchNext, reset, dirty, events, \* its variables
          run, runDone, runReset, runDirty, runEvents, \* runReorg: its place and arguments
          ticker,                         \* LegacyPool.loop
          mu,                             \* holder of pool.mu
          subscriber,                     \* the reader of txFeed
          closer, shutdown,               \* Close; reorgShutdownCh is closed
          closed, panicked,               \* closed done channels; a channel was closed twice
          poolHead, served                \* the pool's head; history: requests a finished run served

loopVars  == <<loop, newHead, oldHead, busy>>
resetVars == <<resetter, rHead, rDone>>
addVars   == <<pc, done>>
schedVars == <<sched, curDone, nextDone, launchNext, reset, dirty, events>>
runVars   == <<run, runDone, runReset, runDirty, runEvents, poolHead, served>>
endVars   == <<closer, shutdown>>
chanVars  == <<closed, panicked>>
vars == <<loopVars, resetVars, addVars, schedVars, runVars, ticker, mu, subscriber, endVars, chanVars>>

NoOne == "noone"
None == 0            \* a nil channel, or no reset requested

Init ==
    /\ loop = "top" /\ newHead = 1 /\ oldHead = 1 /\ busy = FALSE
    /\ resetter = "none" /\ rHead = None /\ rDone = None
    /\ pc = [a \in Adder |-> "out"] /\ done = [a \in Adder |-> None]
    /\ sched = "top"
    /\ curDone = None /\ nextDone = 1 /\ launchNext = FALSE /\ reset = None /\ dirty = {} /\ events = {}
    /\ run = "idle" /\ runDone = None /\ runReset = None /\ runDirty = {} /\ runEvents = {}
    /\ ticker = "select" /\ mu = NoOne /\ subscriber = "reading"
    /\ closer = "open" /\ shutdown = FALSE
    /\ closed = {} /\ panicked = FALSE
    /\ poolHead = 1 /\ served = {}

CloseChan(c) ==
    /\ closed' = closed \cup {c}
    /\ panicked' = (panicked \/ c \in closed)

-----------------------------------------------------------------------------
(* TxPool.loop and the resetter. *)

\* Top of the loop: start a reset if one is needed and none is running.
LoopTop ==
    /\ loop = "top"
    /\ loop' = "select"
    /\ IF newHead # oldHead /\ ~busy
       THEN busy' = TRUE /\ resetter' = "request" /\ rHead' = newHead
       ELSE UNCHANGED <<busy, resetter, rHead>>
    /\ UNCHANGED <<newHead, oldHead, rDone, addVars, schedVars, runVars, ticker, mu, subscriber, endVars, chanVars>>

\* <-newHeadCh
NewHead ==
    /\ loop = "select" /\ newHead <= MaxHead
    /\ newHead' = newHead + 1
    /\ loop' = "top"
    /\ UNCHANGED <<oldHead, busy, resetVars, addVars, schedVars, runVars, ticker, mu, subscriber, endVars, chanVars>>

\* resetDone <- newHead
ResetDone ==
    /\ loop = "select" /\ resetter = "report"
    /\ oldHead' = rHead /\ busy' = FALSE
    /\ resetter' = "none" /\ rHead' = None
    /\ loop' = "top"
    /\ UNCHANGED <<newHead, rDone, addVars, schedVars, runVars, ticker, mu, subscriber, endVars, chanVars>>

\* LegacyPool.Reset returns when its channel is closed.
ResetterWoken ==
    /\ resetter = "wait"
    /\ rDone \in closed
    /\ resetter' = "report" /\ rDone' = None
    /\ UNCHANGED <<loopVars, rHead, addVars, schedVars, runVars, ticker, mu, subscriber, endVars, chanVars>>

\* requestReset after the shutdown: nothing to wait for.
ResetRefused ==
    /\ resetter = "request" /\ shutdown
    /\ resetter' = "report"
    /\ UNCHANGED <<loopVars, rHead, rDone, addVars, schedVars, runVars, ticker, mu, subscriber, endVars, chanVars>>

-----------------------------------------------------------------------------
(* addTxs *)

\* Under the lock the transaction either replaces a pending one, which must be
\* announced, or not.
AddLock(a) ==
    /\ pc[a] = "out" /\ mu = NoOne
    /\ nextDone <= MaxRun
    /\ mu' = a
    /\ \E place \in {"event", "added"} : pc' = [pc EXCEPT ![a] = place]
    /\ served' = served \ {a}
    /\ UNCHANGED <<loopVars, resetVars, done, schedVars, run, runDone, runReset, runDirty, runEvents, poolHead,
                   ticker, subscriber, endVars, chanVars>>

\* queueTxEvent, called under pool.mu when a pending transaction was replaced:
\* the scheduler takes the event, or is shutting down.
QueueTxEvent(a) ==
    /\ pc[a] = "event" /\ sched = "select"
    /\ events' = events \cup {a}
    /\ sched' = "top"
    /\ pc' = [pc EXCEPT ![a] = "added"]
    /\ UNCHANGED <<loopVars, resetVars, done, curDone, nextDone, launchNext, reset, dirty, runVars,
                   ticker, mu, subscriber, endVars, chanVars>>

EventRefused(a) ==
    /\ pc[a] = "event" /\ shutdown
    /\ pc' = [pc EXCEPT ![a] = "added"]
    /\ UNCHANGED <<loopVars, resetVars, done, schedVars, runVars, ticker, mu, subscriber, endVars, chanVars>>

AddUnlock(a) ==
    /\ pc[a] = "added"
    /\ mu' = NoOne
    /\ pc' = [pc EXCEPT ![a] = "request"]
    /\ UNCHANGED <<loopVars, resetVars, done, schedVars, runVars, ticker, subscriber, endVars, chanVars>>

\* requestPromoteExecutables after the shutdown.
AddRefused(a) ==
    /\ pc[a] = "request" /\ shutdown
    /\ pc' = [pc EXCEPT ![a] = "out"]
    /\ UNCHANGED <<loopVars, resetVars, done, schedVars, runVars, ticker, mu, subscriber, endVars, chanVars>>

AddWoken(a) ==
    /\ pc[a] = "wait" /\ done[a] \in closed
    /\ pc' = [pc EXCEPT ![a] = "out"]
    /\ done' = [done EXCEPT ![a] = None]
    /\ UNCHANGED <<loopVars, resetVars, schedVars, runVars, ticker, mu, subscriber, endVars, chanVars>>

-----------------------------------------------------------------------------
(* scheduleReorgLoop *)

\* Top of the loop: launch a run if one is wanted and none is active.
SchedTop ==
    /\ sched = "top"
    /\ sched' = "select"
    /\ IF curDone = None /\ launchNext
       THEN /\ run' = "lock" /\ runDone' = nextDone
            /\ runReset' = reset /\ runDirty' = dirty /\ runEvents' = events
            /\ curDone' = nextDone /\ nextDone' = nextDone + 1
            /\ launchNext' = FALSE /\ reset' = None /\ dirty' = {} /\ events' = {}
       ELSE UNCHANGED <<run, runDone, runReset, runDirty, runEvents,
                        curDone, nextDone, launchNext, reset, dirty, events>>
    /\ UNCHANGED <<loopVars, resetVars, addVars, poolHead, served, ticker, mu, subscriber, endVars, chanVars>>

\* <-reqResetCh: a request that is already pending takes the newer head.
TakeReset ==
    /\ sched = "select" /\ resetter = "request"
    /\ reset' = rHead /\ launchNext' = TRUE
    /\ sched' = "reply"
    /\ resetter' = "await"
    /\ UNCHANGED <<loopVars, rHead, rDone, addVars, curDone, nextDone, dirty, events, runVars,
                   ticker, mu, subscriber, endVars, chanVars>>

\* <-reqPromoteCh
TakePromote(a) ==
    /\ sched = "select" /\ pc[a] = "request"
    /\ dirty' = dirty \cup {a} /\ launchNext' = TRUE
    /\ sched' = "reply"
    /\ pc' = [pc EXCEPT ![a] = "await"]
    /\ UNCHANGED <<loopVars, resetVars, done, curDone, nextDone, reset, events, runVars,
                   ticker, mu, subscriber, endVars, chanVars>>

\* Mutant: the channel of the run under way is handed out.
ReplyCurrent ==
    /\ sched = "reply"
    /\ \/ /\ resetter = "await"
          /\ rDone' = (IF curDone = None THEN nextDone ELSE curDone) /\ resetter' = "wait"
          /\ UNCHANGED addVars
       \/ \E a \in Adder :
          /\ pc[a] = "await"
          /\ IF a \in SyncAdder
             THEN pc' = [pc EXCEPT ![a] = "wait"] /\ done' = [done EXCEPT ![a] = IF curDone = None THEN nextDone ELSE curDone]
             ELSE pc' = [pc EXCEPT ![a] = "out"] /\ UNCHANGED done
          /\ UNCHANGED <<resetter, rDone>>
    /\ sched' = "top"
    /\ UNCHANGED <<loopVars, rHead, curDone, nextDone, launchNext, reset, dirty, events, runVars,
                   ticker, mu, subscriber, endVars, chanVars>>

\* reorgDoneCh <- nextDone.  The channel is shared by all requesters; only the
\* one whose request was taken is receiving from it.
Reply ==
    /\ sched = "reply"
    /\ \/ /\ resetter = "await"
          /\ rDone' = nextDone /\ resetter' = "wait"
          /\ UNCHANGED addVars
       \/ \E a \in Adder :
          /\ pc[a] = "await"
          /\ IF a \in SyncAdder
             THEN pc' = [pc EXCEPT ![a] = "wait"] /\ done' = [done EXCEPT ![a] = nextDone]
             ELSE pc' = [pc EXCEPT ![a] = "out"] /\ UNCHANGED done
          /\ UNCHANGED <<resetter, rDone>>
    /\ sched' = "top"
    /\ UNCHANGED <<loopVars, rHead, curDone, nextDone, launchNext, reset, dirty, events, runVars,
                   ticker, mu, subscriber, endVars, chanVars>>

\* <-curDone
RunOver ==
    /\ sched = "select" /\ curDone \in closed
    /\ curDone' = None
    /\ sched' = "top"
    /\ UNCHANGED <<loopVars, resetVars, addVars, nextDone, launchNext, reset, dirty, events, runVars,
                   ticker, mu, subscriber, endVars, chanVars>>

\* <-reorgShutdownCh
SchedStop ==
    /\ sched = "select" /\ shutdown
    /\ sched' = "drain"
    /\ UNCHANGED <<loopVars, resetVars, addVars, curDone, nextDone, launchNext, reset, dirty, events, runVars,
                   ticker, mu, subscriber, endVars, chanVars>>

\* Mutant: the run under way is not waited for.
SchedDrainedAtOnce ==
    /\ sched = "drain"
    /\ CloseChan(nextDone)
    /\ sched' = "done"
    /\ UNCHANGED <<loopVars, resetVars, addVars, curDone, nextDone, launchNext, reset, dirty, events, runVars,
                   ticker, mu, subscriber, endVars>>

\* Wait for the current run, then release whoever waits for the next one.
SchedDrained ==
    /\ sched = "drain"
    /\ curDone # None => curDone \in closed
    /\ CloseChan(nextDone)
    /\ sched' = "done"
    /\ UNCHANGED <<loopVars, resetVars, addVars, curDone, nextDone, launchNext, reset, dirty, events, runVars,
                   ticker, mu, subscriber, endVars>>

-----------------------------------------------------------------------------
(* runReorg *)

RunLock ==
    /\ run = "lock" /\ mu = NoOne
    /\ mu' = "run" /\ run' = "work"
    /\ UNCHANGED <<loopVars, resetVars, addVars, schedVars, runDone, runReset, runDirty, runEvents, poolHead, served,
                   ticker, subscriber, endVars, chanVars>>

\* The work under the lock.  A reset moves the pool to its head and may make
\* queued events stale; a promotion may add transactions to announce.
RunWork ==
    /\ run = "work"
    /\ mu' = NoOne
    /\ poolHead' = IF runReset = None THEN poolHead ELSE runReset
    /\ served' = served \cup runDirty
    /\ \E promoted \in BOOLEAN, stale \in SUBSET runEvents :
         /\ stale # {} => runReset # None
         /\ run' = IF promoted \/ runEvents \ stale # {} THEN "send" ELSE "exit"
    /\ UNCHANGED <<loopVars, resetVars, addVars, schedVars, runDone, runReset, runDirty, runEvents,
                   ticker, subscriber, endVars, chanVars>>

\* txFeed.Send returns once every subscriber took the event or is gone.
RunSend ==
    /\ run = "send" /\ subscriber # "stuck"
    /\ run' = "exit"
    /\ UNCHANGED <<loopVars, resetVars, addVars, schedVars, runDone, runReset, runDirty, runEvents, poolHead, served,
                   ticker, mu, subscriber, endVars, chanVars>>

\* The deferred close(done).
RunExit ==
    /\ run = "exit"
    /\ CloseChan(runDone)
    /\ run' = "idle" /\ runDone' = None /\ runReset' = None /\ runDirty' = {} /\ runEvents' = {}
    /\ UNCHANGED <<loopVars, resetVars, addVars, schedVars, poolHead, served,
                   ticker, mu, subscriber, endVars>>

-----------------------------------------------------------------------------
(* LegacyPool.loop, the subscriber and Close. *)

Tick ==
    /\ ticker = "select" /\ mu = NoOne
    /\ ticker' = "locked" /\ mu' = "ticker"
    /\ UNCHANGED <<loopVars, resetVars, addVars, schedVars, runVars, subscriber, endVars, chanVars>>

TickDone ==
    /\ ticker = "locked"
    /\ ticker' = "select" /\ mu' = NoOne
    /\ UNCHANGED <<loopVars, resetVars, addVars, schedVars, runVars, subscriber, endVars, chanVars>>

TickerStop ==
    /\ ticker = "select" /\ shutdown
    /\ ticker' = "done"
    /\ UNCHANGED <<loopVars, resetVars, addVars, schedVars, runVars, mu, subscriber, endVars, chanVars>>

\* The subscriber stops reading: its channel is full, or it has returned.
Stall ==
    /\ subscriber = "reading"
    /\ subscriber' = "stuck"
    /\ UNCHANGED <<loopVars, resetVars, addVars, schedVars, runVars, ticker, mu, endVars, chanVars>>

Resume ==
    /\ subscriber = "stuck"
    /\ subscriber' = "reading"
    /\ UNCHANGED <<loopVars, resetVars, addVars, schedVars, runVars, ticker, mu, endVars, chanVars>>

\* TxPool.Close: quit <- errc ends the head loop ...
CloseQuit ==
    /\ closer = "open" /\ loop = "select"
    /\ closer' = "errc" /\ loop' = "notify"
    /\ UNCHANGED <<newHead, oldHead, busy, resetVars, addVars, schedVars, runVars, ticker, mu, subscriber, shutdown, chanVars>>

\* ... which answers on errc before it returns; ...
CloseNotified ==
    /\ closer = "errc" /\ loop = "notify"
    /\ closer' = "scope" /\ loop' = "done"
    /\ UNCHANGED <<newHead, oldHead, busy, resetVars, addVars, schedVars, runVars, ticker, mu, subscriber, shutdown, chanVars>>

\* Mutant: subscribers are not unsubscribed before the wait.
CloseScopeLate ==
    /\ closer = "scope"
    /\ closer' = "shutdown"
    /\ UNCHANGED <<loopVars, resetVars, addVars, schedVars, runVars, ticker, mu, subscriber, shutdown, chanVars>>

\* ... then LegacyPool.Close unsubscribes everyone, ...
CloseScope ==
    /\ closer = "scope"
    /\ closer' = "shutdown"
    /\ subscriber' = "gone"
    /\ UNCHANGED <<loopVars, resetVars, addVars, schedVars, runVars, ticker, mu, shutdown, chanVars>>

\* ... closes reorgShutdownCh ...
CloseShutdown ==
    /\ closer = "shutdown"
    /\ closer' = "wait" /\ shutdown' = TRUE
    /\ UNCHANGED <<loopVars, resetVars, addVars, schedVars, runVars, ticker, mu, subscriber, chanVars>>

\* ... and waits for the two loops.
CloseWaited ==
    /\ closer = "wait" /\ ticker = "done" /\ sched = "done"
    /\ closer' = "closed"
    /\ UNCHANGED <<loopVars, resetVars, addVars, schedVars, runVars, ticker, mu, subscriber, shutdown, chanVars>>

Next ==
    \/ LoopTop \/ NewHead \/ ResetDone \/ ResetterWoken \/ ResetRefused
    \/ \E a \in Adder : AddLock(a) \/ QueueTxEvent(a) \/ EventRefused(a) \/ AddUnlock(a)
                          \/ AddRefused(a) \/ AddWoken(a) \/ TakePromote(a)
    \/ SchedTop \/ TakeReset \/ Reply \/ RunOver \/ SchedStop \/ SchedDrained
    \/ RunLock \/ RunWork \/ RunSend \/ RunExit
    \/ Tick \/ TickDone \/ TickerStop \/ Stall \/ Resume
    \/ CloseQuit \/ CloseNotified \/ CloseScope \/ CloseShutdown \/ CloseWaited

\* Every goroutine that can run does.  Go's select chooses at random among the
\* ready cases and its mutex is starvation-free, so a case that is ready again
\* and again is taken: strong fairness.  Nothing makes a head arrive, a caller
\* add, a ticker fire, a subscriber read or Close be called.
Fairness ==
    /\ WF_vars(LoopTop) /\ SF_vars(ResetDone)
    /\ WF_vars(ResetterWoken \/ ResetRefused) /\ SF_vars(TakeReset)
    /\ \A a \in Adder :
         /\ WF_vars(EventRefused(a) \/ AddUnlock(a) \/ AddRefused(a) \/ AddWoken(a))
         /\ SF_vars(QueueTxEvent(a) \/ TakePromote(a))
    /\ WF_vars(SchedTop \/ Reply \/ SchedDrained) /\ SF_vars(RunOver) /\ SF_vars(SchedStop)
    /\ WF_vars(RunWork \/ RunExit) /\ SF_vars(RunLock \/ RunSend)
    /\ WF_vars(TickDone) /\ SF_vars(TickerStop)
    /\ WF_vars(CloseNotified \/ CloseScope \/ CloseShutdown \/ CloseWaited)

Spec == Init /\ [][Next]_vars
FairSpec == Spec /\ Fairness

-----------------------------------------------------------------------------
\* Done channels are numbered in the order they are made.
Channel == Nat

TypeOK ==
    /\ loop \in {"top", "select", "notify", "done"}
    /\ newHead \in 1 .. MaxHead + 1 /\ oldHead \in 1 .. newHead /\ busy \in BOOLEAN
    /\ resetter \in {"none", "request", "await", "wait", "report"}
    /\ rHead \in 0 .. newHead /\ rDone \in Channel
    /\ pc \in [Adder -> {"out", "event", "added", "request", "await", "wait"}]
    /\ done \in [Adder -> Channel]
    /\ sched \in {"top", "select", "reply", "drain", "done"}
    /\ curDone \in Channel /\ nextDone \in Channel /\ launchNext \in BOOLEAN
    /\ reset \in 0 .. newHead /\ dirty \subseteq Adder /\ events \subseteq Adder
    /\ run \in {"idle", "lock", "work", "send", "exit"}
    /\ runDone \in Channel /\ runReset \in 0 .. newHead
    /\ runDirty \subseteq Adder /\ runEvents \subseteq Adder
    /\ ticker \in {"select", "locked", "done"}
    /\ mu \in {NoOne, "run", "ticker"} \cup Adder
    /\ subscriber \in {"reading", "stuck", "gone"}
    /\ closer \in {"open", "errc", "scope", "shutdown", "wait", "closed"} /\ shutdown \in BOOLEAN
    /\ closed \subseteq Channel /\ panicked \in BOOLEAN
    /\ poolHead \in 1 .. newHead /\ served \subseteq Adder

(* A run is launched only when the one before it has ended, whatever the order
   in which requests, the end of a run and the shutdown reach the scheduler's
   select: the run's effects under pool.mu and its announcements never
   interleave with those of another (legacypool.go:1127). *)
OneRun == run # "idle" => runDone' \in {runDone, None}

(* No done channel is closed twice, which would panic: the run closes the
   channel it was given, the shutdown only the one no run was given. *)
ClosedOnce == ~panicked

(* Close returns only when no run is active, so that nothing writes the journal
   after Close has closed it, and nothing waits on a channel nobody will close. *)
ClosedIsQuiet ==
    closer = "closed" =>
        /\ run = "idle"
        /\ \A a \in Adder : pc[a] = "wait" => done[a] \in closed

(* A caller that waits on the channel it was given for its request finds, when
   it wakes before the shutdown, that a run took its accounts: the channel is
   the one of the run that merged the request, not of the run under way when
   the request arrived (comment at legacypool.go:1089). *)
SyncSeesRun == \A a \in Adder : pc[a] = "wait" /\ pc'[a] = "out" /\ ~shutdown => a \in served

(* LegacyPool.Reset returns, before the shutdown, with the pool at the
   requested head or a later one. *)
ResetSeesHead == resetter = "wait" /\ resetter' = "report" /\ ~shutdown => poolHead >= rHead

(* The pool shuts down cleanly whatever is under way: no channel is closed
   twice, and when Close has returned no run is active and nobody waits on a
   channel that stays open. *)
ShutdownClean == TypeOK /\ ClosedOnce /\ ClosedIsQuiet

(* Runs do not overlap, and whoever waits for a request is woken by the run
   that took it: a caller finds its accounts looked at, Reset finds the pool
   at the requested head or a later one. *)
RequestsSeeRun == [][OneRun /\ SyncSeesRun /\ ResetSeesHead]_vars

(* Close, once it has stopped the head loop, returns: not even a subscriber
   that stopped reading while a run is sending to it can hold it up. *)
CloseReturns == closer = "errc" ~> closer = "closed"

(* A caller of addTxs always returns.  When it does not wait for the promotion
   neither a run blocked on a subscriber nor the shutdown nor the event it
   sends to the scheduler while it holds pool.mu can hold it up; when it waits,
   it is released by the run or by the shutdown as long as subscribers read. *)
AddReturns == \A a \in Adder : pc[a] # "out" ~> pc[a] = "out"

-----------------------------------------------------------------------------
(* Why the shutdown is clean and nobody is woken early: the inductive
   invariant LifeInv and its proof, for any number of callers, heads and runs. *)

\* The done channels: those below nextDone were given to runs, and all of them
\* are closed except the one of a run that is under way, which the scheduler
\* knows as curDone; the shutdown closes nextDone.
ChannelsOK ==
    /\ nextDone >= 1
    /\ curDone # None => curDone + 1 = nextDone
    /\ \A c \in closed : c \in 1 .. nextDone
    /\ nextDone \in closed <=> sched = "done"
    /\ \A c \in 1 .. nextDone - 1 : c \in closed \/ (c = runDone /\ run # "idle")
    /\ IF run = "idle" THEN runDone = None /\ runReset = None
                       ELSE runDone = curDone /\ curDone # None /\ curDone \notin closed
    /\ ~panicked

\* The shutdown reaches the scheduler before Close returns.
ShutdownOK ==
    /\ sched \in {"drain", "done"} => shutdown
    /\ closer = "closed" => sched = "done"
    /\ sched = "done" => run = "idle"

\* Whoever's request was taken is the only one waiting for the reply.
ReplyOK ==
    /\ resetter = "await" \/ (\E a \in Adder : pc[a] = "await") => sched = "reply"
    /\ \A a \in Adder : pc[a] = "await" => resetter # "await" /\ a \in dirty
    /\ \A a, b \in Adder : pc[a] = "await" /\ pc[b] = "await" => a = b

\* A caller waits for the next run, for the run under way or for one that is
\* over, and its accounts are with that run.
WaitOK(a) ==
    pc[a] = "wait" =>
        \/ done[a] = nextDone /\ a \in dirty
        \/ done[a] = runDone /\ run \in {"lock", "work"} /\ a \in runDirty
        \/ done[a] \in 1 .. nextDone - 1 /\ a \in served

\* The same for the resetter and its head.
ResetOK ==
    /\ resetter = "none" <=> rHead = None
    /\ resetter = "await" => reset = rHead
    /\ resetter = "wait" =>
          \/ rDone = nextDone /\ reset = rHead
          \/ rDone = runDone /\ run \in {"lock", "work"} /\ runReset = rHead
          \/ rDone \in 1 .. nextDone - 1 /\ poolHead >= rHead
    /\ rHead # None => poolHead <= rHead /\ reset <= rHead /\ runReset <= rHead
    /\ reset # None => poolHead <= reset /\ runReset <= reset
    /\ runReset # None => poolHead <= runReset

\* The same for every caller.
WaitAllOK == \A a \in Adder : WaitOK(a)

LifeInv == TypeOK /\ ChannelsOK /\ ShutdownOK /\ ReplyOK /\ WaitAllOK /\ ResetOK

(* Every step of a goroutine preserves LifeInv. *)
LEMMA NextLife == LifeInv /\ [Next]_vars => LifeInv'
<1> SUFFICES ASSUME LifeInv, [Next]_vars PROVE LifeInv'
  BY Zenon
<1> USE LifecycleAssumption DEF None, NoOne, Channel, loopVars, resetVars, addVars, schedVars, runVars, endVars, chanVars
<1>a. TypeOK /\ ChannelsOK /\ ShutdownOK /\ ReplyOK /\ WaitAllOK /\ ResetOK
  BY Zenon DEF LifeInv
<1>1. CASE LoopTop
  <2>1. TypeOK'
    <3>1. CASE newHead # oldHead /\ ~busy
      BY <1>a, <1>1, <3>1 DEF LoopTop, TypeOK
    <3>2. CASE ~(newHead # oldHead /\ ~busy)
      <4>1. UNCHANGED <<busy, resetter, rHead>>
        BY <1>1, <3>2, Zenon DEF LoopTop
      <4> QED
        BY <1>a, <1>1, <4>1 DEF LoopTop, TypeOK
    <3> QED
      BY <3>1, <3>2, Zenon
  <2>2. ReplyOK'
    BY <1>a, <1>1, Zenon DEF LoopTop, ReplyOK, TypeOK
  <2>3. ResetOK'
    BY <1>a, <1>1 DEF LoopTop, ResetOK, TypeOK, ChannelsOK, ReplyOK
  <2>4. ChannelsOK' /\ ShutdownOK' /\ WaitAllOK'
    BY <1>a, <1>1, Zenon DEF LoopTop, ChannelsOK, ShutdownOK, WaitAllOK, WaitOK
  <2> QED
    BY <2>1, <2>2, <2>3, <2>4, Zenon DEF LifeInv
<1>2. CASE NewHead
  <2>1. TypeOK'
    BY <1>a, <1>2 DEF NewHead, TypeOK
  <2>2. ChannelsOK' /\ ShutdownOK' /\ ReplyOK' /\ WaitAllOK' /\ ResetOK'
    BY <1>a, <1>2 DEF NewHead, ChannelsOK, ShutdownOK, ReplyOK, WaitAllOK, ResetOK, WaitOK
  <2> QED
    BY <2>1, <2>2, Zenon DEF LifeInv
<1>3. CASE ResetDone
  <2>1. TypeOK'
    <3>1. rHead \in 1 .. newHead
      BY <1>a, <1>3 DEF ResetDone, TypeOK, ResetOK
    <3>5. busy' \in BOOLEAN
      BY <1>3, Zenon DEF ResetDone
    <3>2. oldHead' \in 1 .. newHead' /\ rHead' \in 0 .. newHead'
      BY <1>a, <1>3, <3>1 DEF ResetDone, TypeOK
    <3>3. loop' = "top" /\ resetter' = "none" /\ UNCHANGED newHead
      BY <1>3, Zenon DEF ResetDone
    <3>4. UNCHANGED <<rDone, addVars, schedVars, runVars, ticker, mu, subscriber, endVars, chanVars>>
      BY <1>3, Zenon DEF ResetDone
    <3> QED
      BY <1>a, <3>2, <3>3, <3>4, <3>5 DEF TypeOK
  <2>2. ReplyOK'
    BY <1>a, <1>3, Zenon DEF ResetDone, ReplyOK, TypeOK
  <2>3. ResetOK'
    BY <1>a, <1>3, Zenon DEF ResetDone, ResetOK, TypeOK, ChannelsOK, ReplyOK
  <2>4. ChannelsOK' /\ ShutdownOK' /\ WaitAllOK'
    BY <1>a, <1>3, Zenon DEF ResetDone, ChannelsOK, ShutdownOK, WaitAllOK, WaitOK
  <2> QED
    BY <2>1, <2>2, <2>3, <2>4, Zenon DEF LifeInv
<1>4. CASE ResetterWoken
  <2>1. TypeOK'
    BY <1>a, <1>4 DEF ResetterWoken, TypeOK
  <2>2. ReplyOK'
    BY <1>a, <1>4, Zenon DEF ResetterWoken, ReplyOK, TypeOK
  <2>3. ResetOK'
    BY <1>a, <1>4, Zenon DEF ResetterWoken, ResetOK, TypeOK, ChannelsOK, ReplyOK
  <2>4. ChannelsOK' /\ ShutdownOK' /\ WaitAllOK'
    BY <1>a, <1>4, Zenon DEF ResetterWoken, ChannelsOK, ShutdownOK, WaitAllOK, WaitOK
  <2> QED
    BY <2>1, <2>2, <2>3, <2>4, Zenon DEF LifeInv
<1>5. CASE ResetRefused
  <2>1. TypeOK'
    BY <1>a, <1>5 DEF ResetRefused, TypeOK
  <2>2. ReplyOK'
    BY <1>a, <1>5, Zenon DEF ResetRefused, ReplyOK, TypeOK
  <2>3. ResetOK'
    BY <1>a, <1>5, Zenon DEF ResetRefused, ResetOK, TypeOK, ChannelsOK, ReplyOK
  <2>4. ChannelsOK' /\ ShutdownOK' /\ WaitAllOK'
    BY <1>a, <1>5, Zenon DEF ResetRefused, ChannelsOK, ShutdownOK, WaitAllOK, WaitOK
  <2> QED
    BY <2>1, <2>2, <2>3, <2>4, Zenon DEF LifeInv
<1>6. ASSUME NEW a \in Adder, AddLock(a) PROVE LifeInv'
  <2>1. TypeOK'
    BY <1>a, <1>6 DEF AddLock, TypeOK
  <2>2. ReplyOK'
    BY <1>a, <1>6 DEF AddLock, ReplyOK, TypeOK
  <2>3. WaitAllOK'
    BY <1>a, <1>6, Zenon DEF AddLock, WaitAllOK, WaitOK, TypeOK, ChannelsOK, ReplyOK
  <2>4. ChannelsOK' /\ ShutdownOK' /\ ResetOK'
    BY <1>a, <1>6, Zenon DEF AddLock, ChannelsOK, ShutdownOK, ResetOK
  <2> QED
    BY <2>1, <2>2, <2>3, <2>4, Zenon DEF LifeInv
<1>7. ASSUME NEW a \in Adder, QueueTxEvent(a) PROVE LifeInv'
  <2>1. TypeOK'
    BY <1>a, <1>7 DEF QueueTxEvent, TypeOK
  <2>2. ChannelsOK'
    BY <1>a, <1>7, Zenon DEF QueueTxEvent, ChannelsOK, TypeOK, ShutdownOK
  <2>3. ShutdownOK'
    BY <1>a, <1>7, Zenon DEF QueueTxEvent, ShutdownOK, TypeOK, ChannelsOK
  <2>4. ReplyOK'
    BY <1>a, <1>7, Zenon DEF QueueTxEvent, ReplyOK, TypeOK
  <2>5. WaitAllOK'
    BY <1>a, <1>7, Zenon DEF QueueTxEvent, WaitAllOK, WaitOK, TypeOK, ChannelsOK, ReplyOK
  <2>6. ResetOK'
    BY <1>a, <1>7, Zenon DEF QueueTxEvent, ResetOK
  <2> QED
    BY <2>1, <2>2, <2>3, <2>4, <2>5, <2>6, Zenon DEF LifeInv
<1>8. ASSUME NEW a \in Adder, EventRefused(a) PROVE LifeInv'
  <2>1. TypeOK'
    BY <1>a, <1>8 DEF EventRefused, TypeOK
  <2>2. ReplyOK'
    BY <1>a, <1>8, Zenon DEF EventRefused, ReplyOK, TypeOK
  <2>3. WaitAllOK'
    BY <1>a, <1>8, Zenon DEF EventRefused, WaitAllOK, WaitOK, TypeOK, ChannelsOK, ReplyOK
  <2>4. ChannelsOK' /\ ShutdownOK' /\ ResetOK'
    BY <1>a, <1>8, Zenon DEF EventRefused, ChannelsOK, ShutdownOK, ResetOK
  <2> QED
    BY <2>1, <2>2, <2>3, <2>4, Zenon DEF LifeInv
<1>9. ASSUME NEW a \in Adder, AddUnlock(a) PROVE LifeInv'
  <2>1. TypeOK'
    BY <1>a, <1>9 DEF AddUnlock, TypeOK
  <2>2. ReplyOK'
    BY <1>a, <1>9, Zenon DEF AddUnlock, ReplyOK, TypeOK
  <2>3. WaitAllOK'
    BY <1>a, <1>9, Zenon DEF AddUnlock, WaitAllOK, WaitOK, TypeOK, ChannelsOK, ReplyOK
  <2>4. ChannelsOK' /\ ShutdownOK' /\ ResetOK'
    BY <1>a, <1>9, Zenon DEF AddUnlock, ChannelsOK, ShutdownOK, ResetOK
  <2> QED
    BY <2>1, <2>2, <2>3, <2>4, Zenon DEF LifeInv
<1>10. ASSUME NEW a \in Adder, AddRefused(a) PROVE LifeInv'
  <2>1. TypeOK'
    BY <1>a, <1>10 DEF AddRefused, TypeOK
  <2>2. ReplyOK'
    BY <1>a, <1>10, Zenon DEF AddRefused, ReplyOK, TypeOK
  <2>3. WaitAllOK'
    BY <1>a, <1>10, Zenon DEF AddRefused, WaitAllOK, WaitOK, TypeOK, ChannelsOK, ReplyOK
  <2>4. ChannelsOK' /\ ShutdownOK' /\ ResetOK'
    BY <1>a, <1>10, Zenon DEF AddRefused, ChannelsOK, ShutdownOK, ResetOK
  <2> QED
    BY <2>1, <2>2, <2>3, <2>4, Zenon DEF LifeInv
<1>11. ASSUME NEW a \in Adder, AddWoken(a) PROVE LifeInv'
  <2>1. TypeOK'
    BY <1>a, <1>11 DEF AddWoken, TypeOK
  <2>2. ReplyOK'
    BY <1>a, <1>11, Zenon DEF AddWoken, ReplyOK, TypeOK
  <2>3. WaitAllOK'
    BY <1>a, <1>11, Zenon DEF AddWoken, WaitAllOK, WaitOK, TypeOK, ChannelsOK, ReplyOK
  <2>4. ChannelsOK' /\ ShutdownOK' /\ ResetOK'
    BY <1>a, <1>11, Zenon DEF AddWoken, ChannelsOK, ShutdownOK, ResetOK
  <2> QED
    BY <2>1, <2>2, <2>3, <2>4, Zenon DEF LifeInv
<1>12. ASSUME NEW a \in Adder, TakePromote(a) PROVE LifeInv'
  <2>1. TypeOK'
    BY <1>a, <1>12 DEF TakePromote, TypeOK
  <2>2. ChannelsOK'
    BY <1>a, <1>12, Zenon DEF TakePromote, ChannelsOK, TypeOK, ShutdownOK
  <2>3. ShutdownOK'
    BY <1>a, <1>12, Zenon DEF TakePromote, ShutdownOK, TypeOK, ChannelsOK
  <2>4. ReplyOK'
    BY <1>a, <1>12, Zenon DEF TakePromote, ReplyOK, TypeOK
  <2>5. WaitAllOK'
    BY <1>a, <1>12, Zenon DEF TakePromote, WaitAllOK, WaitOK, TypeOK, ChannelsOK, ReplyOK
  <2>6. ResetOK'
    BY <1>a, <1>12, Zenon DEF TakePromote, ResetOK
  <2> QED
    BY <2>1, <2>2, <2>3, <2>4, <2>5, <2>6, Zenon DEF LifeInv
<1>13. CASE SchedTop
  <2>1. TypeOK'
    <3>1. CASE curDone = None /\ launchNext
      <4>1. /\ sched' = "select" /\ run' = "lock" /\ runDone' = nextDone
            /\ runReset' = reset /\ runDirty' = dirty /\ runEvents' = events
            /\ curDone' = nextDone /\ nextDone' = nextDone + 1
            /\ reset' = 0 /\ dirty' = {} /\ events' = {}
        BY <1>13, <3>1, Zenon DEF SchedTop
      <4>2. launchNext' \in BOOLEAN
        BY <1>13, <3>1, Zenon DEF SchedTop
      <4>3. UNCHANGED <<loopVars, resetVars, addVars, poolHead, served, ticker, mu, subscriber, endVars, chanVars>>
        BY <1>13, Zenon DEF SchedTop
      <4> QED
        BY <1>a, <4>1, <4>2, <4>3 DEF TypeOK
    <3>2. CASE ~(curDone = None /\ launchNext)
      <4>1. UNCHANGED <<run, runDone, runReset, runDirty, runEvents, curDone, nextDone, launchNext, reset, dirty, events>>
        BY <1>13, <3>2, Zenon DEF SchedTop
      <4> QED
        BY <1>a, <1>13, <4>1 DEF SchedTop, TypeOK
    <3> QED
      BY <3>1, <3>2, Zenon
  <2>2. ChannelsOK'
    BY <1>a, <1>13 DEF SchedTop, ChannelsOK, TypeOK, ShutdownOK
  <2>3. ShutdownOK'
    BY <1>a, <1>13, Zenon DEF SchedTop, ShutdownOK, TypeOK, ChannelsOK
  <2>4. ReplyOK'
    BY <1>a, <1>13, Zenon DEF SchedTop, ReplyOK, TypeOK
  <2>5. WaitAllOK'
    BY <1>a, <1>13 DEF SchedTop, WaitAllOK, WaitOK, TypeOK, ChannelsOK, ReplyOK
  <2>6. ResetOK'
    BY <1>a, <1>13 DEF SchedTop, ResetOK, TypeOK, ChannelsOK, ReplyOK
  <2> QED
    BY <2>1, <2>2, <2>3, <2>4, <2>5, <2>6, Zenon DEF LifeInv
<1>14. CASE TakeReset
  <2>1. TypeOK'
    BY <1>a, <1>14 DEF TakeReset, TypeOK
  <2>2. ChannelsOK'
    BY <1>a, <1>14, Zenon DEF TakeReset, ChannelsOK, TypeOK, ShutdownOK
  <2>3. ShutdownOK'
    BY <1>a, <1>14, Zenon DEF TakeReset, ShutdownOK, TypeOK, ChannelsOK
  <2>4. ReplyOK'
    BY <1>a, <1>14, Zenon DEF TakeReset, ReplyOK, TypeOK
  <2>5. ResetOK'
    BY <1>a, <1>14 DEF TakeReset, ResetOK, TypeOK, ChannelsOK, ReplyOK
  <2>6. WaitAllOK'
    BY <1>a, <1>14, Zenon DEF TakeReset, WaitAllOK, WaitOK
  <2> QED
    BY <2>1, <2>2, <2>3, <2>4, <2>5, <2>6, Zenon DEF LifeInv
<1>15. CASE Reply
  <2>1. TypeOK'
    BY <1>a, <1>15 DEF Reply, TypeOK
  <2>2. ChannelsOK'
    BY <1>a, <1>15, Zenon DEF Reply, ChannelsOK, TypeOK, ShutdownOK
  <2>3. ShutdownOK'
    BY <1>a, <1>15, Zenon DEF Reply, ShutdownOK, TypeOK, ChannelsOK
  <2>4. ReplyOK'
    BY <1>a, <1>15 DEF Reply, ReplyOK, TypeOK
  <2>5. WaitAllOK'
    BY <1>a, <1>15 DEF Reply, WaitAllOK, WaitOK, TypeOK, ChannelsOK, ReplyOK
  <2>6. ResetOK'
    BY <1>a, <1>15, Zenon DEF Reply, ResetOK, TypeOK, ChannelsOK, ReplyOK
  <2> QED
    BY <2>1, <2>2, <2>3, <2>4, <2>5, <2>6, Zenon DEF LifeInv
<1>16. CASE RunOver
  <2>1. TypeOK'
    BY <1>a, <1>16 DEF RunOver, TypeOK
  <2>2. ChannelsOK'
    BY <1>a, <1>16, Zenon DEF RunOver, ChannelsOK, TypeOK, ShutdownOK
  <2>3. ShutdownOK'
    BY <1>a, <1>16, Zenon DEF RunOver, ShutdownOK, TypeOK, ChannelsOK
  <2>4. ReplyOK'
    BY <1>a, <1>16, Zenon DEF RunOver, ReplyOK, TypeOK
  <2>5. WaitAllOK' /\ ResetOK'
    BY <1>a, <1>16, Zenon DEF RunOver, WaitAllOK, ResetOK, WaitOK
  <2> QED
    BY <2>1, <2>2, <2>3, <2>4, <2>5, Zenon DEF LifeInv
<1>17. CASE SchedStop
  <2>1. TypeOK'
    BY <1>a, <1>17 DEF SchedStop, TypeOK
  <2>2. ChannelsOK'
    BY <1>a, <1>17, Zenon DEF SchedStop, ChannelsOK, TypeOK, ShutdownOK
  <2>3. ShutdownOK'
    BY <1>a, <1>17, Zenon DEF SchedStop, ShutdownOK, TypeOK, ChannelsOK
  <2>4. ReplyOK'
    BY <1>a, <1>17, Zenon DEF SchedStop, ReplyOK, TypeOK
  <2>5. WaitAllOK' /\ ResetOK'
    BY <1>a, <1>17, Zenon DEF SchedStop, WaitAllOK, ResetOK, WaitOK
  <2> QED
    BY <2>1, <2>2, <2>3, <2>4, <2>5, Zenon DEF LifeInv
<1>18. CASE SchedDrained
  <2>1. TypeOK'
    BY <1>a, <1>18 DEF SchedDrained, TypeOK, CloseChan
  <2>2. ChannelsOK'
    BY <1>a, <1>18 DEF SchedDrained, ChannelsOK, TypeOK, ShutdownOK, CloseChan
  <2>3. ShutdownOK'
    BY <1>a, <1>18, Zenon DEF SchedDrained, ShutdownOK, TypeOK, ChannelsOK, CloseChan
  <2>4. ReplyOK'
    BY <1>a, <1>18, Zenon DEF SchedDrained, ReplyOK, TypeOK, CloseChan
  <2>5. WaitAllOK' /\ ResetOK'
    BY <1>a, <1>18, Zenon DEF SchedDrained, WaitAllOK, ResetOK, WaitOK
  <2> QED
    BY <2>1, <2>2, <2>3, <2>4, <2>5, Zenon DEF LifeInv
<1>19. CASE RunLock
  <2>1. TypeOK'
    BY <1>a, <1>19 DEF RunLock, TypeOK
  <2>2. ChannelsOK'
    BY <1>a, <1>19, Zenon DEF RunLock, ChannelsOK, TypeOK, ShutdownOK
  <2>3. ShutdownOK'
    BY <1>a, <1>19, Zenon DEF RunLock, ShutdownOK, TypeOK, ChannelsOK
  <2>4. WaitAllOK'
    BY <1>a, <1>19, Zenon DEF RunLock, WaitAllOK, WaitOK, TypeOK, ChannelsOK, ReplyOK
  <2>5. ResetOK'
    BY <1>a, <1>19, Zenon DEF RunLock, ResetOK, TypeOK, ChannelsOK, ReplyOK
  <2>6. ReplyOK'
    BY <1>a, <1>19, Zenon DEF RunLock, ReplyOK
  <2> QED
    BY <2>1, <2>2, <2>3, <2>4, <2>5, <2>6, Zenon DEF LifeInv
<1>20. CASE RunWork
  <2>1. TypeOK'
    BY <1>a, <1>20 DEF RunWork, TypeOK
  <2>2. ChannelsOK'
    BY <1>a, <1>20, Zenon DEF RunWork, ChannelsOK, TypeOK, ShutdownOK
  <2>3. ShutdownOK'
    BY <1>a, <1>20, Zenon DEF RunWork, ShutdownOK, TypeOK, ChannelsOK
  <2>4. WaitAllOK'
    BY <1>a, <1>20 DEF RunWork, WaitAllOK, WaitOK, TypeOK, ChannelsOK, ReplyOK
  <2>5. ResetOK'
    BY <1>a, <1>20 DEF RunWork, ResetOK, TypeOK, ChannelsOK, ReplyOK
  <2>6. ReplyOK'
    BY <1>a, <1>20, Zenon DEF RunWork, ReplyOK
  <2> QED
    BY <2>1, <2>2, <2>3, <2>4, <2>5, <2>6, Zenon DEF LifeInv
<1>21. CASE RunSend
  <2>1. TypeOK'
    BY <1>a, <1>21 DEF RunSend, TypeOK
  <2>2. ChannelsOK'
    BY <1>a, <1>21, Zenon DEF RunSend, ChannelsOK, TypeOK, ShutdownOK
  <2>3. ShutdownOK'
    BY <1>a, <1>21, Zenon DEF RunSend, ShutdownOK, TypeOK, ChannelsOK
  <2>4. WaitAllOK'
    BY <1>a, <1>21, Zenon DEF RunSend, WaitAllOK, WaitOK, TypeOK, ChannelsOK, ReplyOK
  <2>5. ResetOK'
    BY <1>a, <1>21, Zenon DEF RunSend, ResetOK, TypeOK, ChannelsOK, ReplyOK
  <2>6. ReplyOK'
    BY <1>a, <1>21, Zenon DEF RunSend, ReplyOK
  <2> QED
    BY <2>1, <2>2, <2>3, <2>4, <2>5, <2>6, Zenon DEF LifeInv
<1>22. CASE RunExit
  <2>1. TypeOK'
    BY <1>a, <1>22 DEF RunExit, TypeOK, CloseChan
  <2>2. ChannelsOK'
    BY <1>a, <1>22 DEF RunExit, ChannelsOK, TypeOK, ShutdownOK, CloseChan
  <2>3. ShutdownOK'
    BY <1>a, <1>22, Zenon DEF RunExit, ShutdownOK, TypeOK, ChannelsOK, CloseChan
  <2>4. WaitAllOK'
    BY <1>a, <1>22, Zenon DEF RunExit, WaitAllOK, WaitOK, TypeOK, ChannelsOK, ReplyOK, CloseChan
  <2>5. ResetOK'
    BY <1>a, <1>22 DEF RunExit, ResetOK, TypeOK, ChannelsOK, ReplyOK, CloseChan
  <2>6. ReplyOK'
    BY <1>a, <1>22, Zenon DEF RunExit, ReplyOK
  <2> QED
    BY <2>1, <2>2, <2>3, <2>4, <2>5, <2>6, Zenon DEF LifeInv
<1>23. CASE CloseShutdown
  <2>1. TypeOK'
    BY <1>a, <1>23 DEF CloseShutdown, TypeOK
  <2>2. ShutdownOK'
    BY <1>a, <1>23, Zenon DEF CloseShutdown, ShutdownOK, TypeOK, ChannelsOK
  <2>3. ChannelsOK' /\ ReplyOK' /\ WaitAllOK' /\ ResetOK'
    BY <1>a, <1>23 DEF CloseShutdown, ChannelsOK, ReplyOK, WaitAllOK, ResetOK, WaitOK
  <2> QED
    BY <2>1, <2>2, <2>3, Zenon DEF LifeInv
<1>24. CASE CloseWaited
  <2>1. TypeOK'
    BY <1>a, <1>24 DEF CloseWaited, TypeOK
  <2>2. ShutdownOK'
    BY <1>a, <1>24, Zenon DEF CloseWaited, ShutdownOK, TypeOK, ChannelsOK
  <2>3. ChannelsOK' /\ ReplyOK' /\ WaitAllOK' /\ ResetOK'
    BY <1>a, <1>24, Zenon DEF CloseWaited, ChannelsOK, ReplyOK, WaitAllOK, ResetOK, WaitOK
  <2> QED
    BY <2>1, <2>2, <2>3, Zenon DEF LifeInv
<1>25. CASE Tick \/ TickDone \/ TickerStop \/ Stall \/ Resume \/ CloseQuit \/ CloseNotified \/ CloseScope
  <2>1. TypeOK'
    <3>1. CASE Tick
      BY <1>a, <3>1 DEF TypeOK, Tick
    <3>2. CASE TickDone
      BY <1>a, <3>2 DEF TypeOK, TickDone
    <3>4. CASE TickerStop
      BY <1>a, <3>4 DEF TypeOK, TickerStop
    <3>5. CASE Stall
      BY <1>a, <3>5 DEF TypeOK, Stall
    <3>6. CASE Resume
      BY <1>a, <3>6 DEF TypeOK, Resume
    <3>7. CASE CloseScope
      BY <1>a, <3>7 DEF TypeOK, CloseScope
    <3>3. CASE CloseQuit \/ CloseNotified
      BY <1>a, <3>3, ZenonT(40) DEF TypeOK, CloseQuit, CloseNotified
    <3> QED
      BY <1>25, <3>1, <3>2, <3>3, <3>4, <3>5, <3>6, <3>7, Zenon
  <2>2. ShutdownOK'
    BY <1>a, <1>25 DEF ShutdownOK, TypeOK, Tick, TickDone, TickerStop, Stall, Resume, CloseQuit, CloseNotified, CloseScope
  <2>3. ChannelsOK'
    BY <1>a, <1>25 DEF ChannelsOK, Tick, TickDone, TickerStop, Stall, Resume, CloseQuit, CloseNotified, CloseScope
  <2>4. ReplyOK'
    BY <1>a, <1>25, Zenon DEF ReplyOK, Tick, TickDone, TickerStop, Stall, Resume, CloseQuit, CloseNotified, CloseScope
  <2>5. WaitAllOK'
    BY <1>a, <1>25, SMTT(30) DEF WaitAllOK, WaitOK, Tick, TickDone, TickerStop, Stall, Resume, CloseQuit, CloseNotified, CloseScope
  <2>6. ResetOK'
    BY <1>a, <1>25 DEF ResetOK, Tick, TickDone, TickerStop, Stall, Resume, CloseQuit, CloseNotified, CloseScope
  <2> QED
    BY <2>1, <2>2, <2>3, <2>4, <2>5, <2>6, Zenon DEF LifeInv
<1>26. CASE UNCHANGED vars
  <2>1. TypeOK'
    BY <1>a, <1>26 DEF vars, TypeOK
  <2>2. ChannelsOK'
    BY <1>a, <1>26, Zenon DEF vars, ChannelsOK
  <2>3. ShutdownOK'
    BY <1>a, <1>26, Zenon DEF vars, ShutdownOK
  <2>4. ReplyOK'
    BY <1>a, <1>26, Zenon DEF vars, ReplyOK
  <2>5. WaitAllOK'
    BY <1>a, <1>26, Zenon DEF vars, WaitAllOK, WaitOK
  <2>6. ResetOK'
    BY <1>a, <1>26, Zenon DEF vars, ResetOK
  <2> QED
    BY <2>1, <2>2, <2>3, <2>4, <2>5, <2>6, Zenon DEF LifeInv
<1> QED
  BY <1>1, <1>2, <1>3, <1>4, <1>5, <1>6, <1>7, <1>8, <1>9, <1>10, <1>11, <1>12, <1>13,
     <1>14, <1>15, <1>16, <1>17, <1>18, <1>19, <1>20, <1>21, <1>22, <1>23, <1>24, <1>25, <1>26, Zenon DEF Next

(* LifeInv holds when the pool's goroutines start. *)
LEMMA InitLife == Init => LifeInv
<1> SUFFICES ASSUME Init PROVE LifeInv
  BY Zenon
<1>1. TypeOK
  <2>1. {busy, launchNext, shutdown, panicked} \subseteq BOOLEAN
    BY ZenonT(40) DEF Init
  <2>2. /\ newHead \in 1 .. MaxHead + 1 /\ oldHead \in 1 .. newHead /\ poolHead \in 1 .. newHead
        /\ rHead \in 0 .. newHead /\ reset \in 0 .. newHead /\ runReset \in 0 .. newHead
    BY LifecycleAssumption DEF Init, None
  <2>3. {rDone, curDone, nextDone, runDone} \subseteq Channel /\ done \in [Adder -> Channel]
    BY DEF Init, None, Channel
  <2> QED
    BY <2>1, <2>2, <2>3, Zenon DEF Init, TypeOK, NoOne
<1>2. ChannelsOK /\ ShutdownOK /\ ReplyOK /\ ResetOK
  BY DEF Init, ChannelsOK, ShutdownOK, ReplyOK, ResetOK, None
<1>3. WaitAllOK
  BY Zenon DEF Init, WaitAllOK, WaitOK
<1> QED
  BY <1>1, <1>2, <1>3, Zenon DEF LifeInv

(* When Close has returned every channel that was handed out is closed. *)
LEMMA LifeClean == LifeInv => ShutdownClean
<1> SUFFICES ASSUME LifeInv PROVE ShutdownClean
  BY Zenon
<1>1. TypeOK /\ ClosedOnce
  BY Zenon DEF LifeInv, ChannelsOK, ClosedOnce
<1>2. ASSUME closer = "closed" PROVE sched = "done" /\ run = "idle"
  BY <1>2, Zenon DEF LifeInv, ShutdownOK
<1>3. ASSUME closer = "closed", NEW a \in Adder, pc[a] = "wait" PROVE done[a] \in closed
  <2>1. /\ nextDone \in closed
        /\ \A c \in 1 .. nextDone - 1 : c \in closed
    BY <1>2, <1>3, Zenon DEF LifeInv, ChannelsOK
  <2>2. done[a] = nextDone \/ done[a] \in 1 .. nextDone - 1
    BY <1>2, <1>3, Zenon DEF LifeInv, WaitAllOK, WaitOK
  <2> QED
    BY <2>1, <2>2, Zenon
<1> QED
  BY <1>1, <1>2, <1>3, Zenon DEF ShutdownClean, ClosedIsQuiet

(* No step launches a run beside another, or wakes a caller too early. *)
LEMMA StepSeesRun == LifeInv /\ [Next]_vars => [OneRun /\ SyncSeesRun /\ ResetSeesHead]_vars
<1> SUFFICES ASSUME LifeInv, Next PROVE OneRun /\ SyncSeesRun /\ ResetSeesHead
  BY Zenon
<1> USE DEF None, loopVars, resetVars, addVars, schedVars, runVars, endVars, chanVars
<1>1. OneRun
  <2> SUFFICES ASSUME run # "idle" PROVE runDone' \in {runDone, None}
    BY Zenon DEF OneRun
  <2>1. CASE SchedTop
    BY <2>1, Zenon DEF SchedTop, LifeInv, ChannelsOK
  <2>2. CASE RunExit
    BY <2>2, Zenon DEF RunExit
  <2>3. CASE ~SchedTop /\ ~RunExit
    BY <2>3, Zenon DEF Next, LoopTop, NewHead, ResetDone, ResetterWoken, ResetRefused, AddLock, QueueTxEvent,
       EventRefused, AddUnlock, AddRefused, AddWoken, TakePromote, TakeReset, Reply, RunOver, SchedStop,
       SchedDrained, RunLock, RunWork, RunSend, Tick, TickDone, TickerStop, Stall, Resume, CloseQuit,
       CloseNotified, CloseScope, CloseShutdown, CloseWaited
  <2> QED
    BY <2>1, <2>2, <2>3, Zenon
<1>2. SyncSeesRun
  <2> SUFFICES ASSUME NEW a \in Adder, pc[a] = "wait", pc'[a] = "out", ~shutdown PROVE a \in served
    BY Zenon DEF SyncSeesRun
  <2>1. pc \in [Adder -> {"out", "event", "added", "request", "await", "wait"}]
    BY SMTT(30) DEF LifeInv, TypeOK
  <2>2. done[a] \in closed
    <3>1. CASE UNCHANGED pc
      BY <3>1, Zenon
    <3>2. CASE Reply
      <4>1. PICK b \in Adder : pc[b] = "await" /\ \E p \in {"wait", "out"} : pc' = [pc EXCEPT ![b] = p]
        BY <3>2, SMTT(30) DEF Reply
      <4> QED
        BY <4>1, <2>1, Zenon
    <3>3. ASSUME NEW b \in Adder,
                 AddLock(b) \/ QueueTxEvent(b) \/ EventRefused(b) \/ AddUnlock(b) \/ AddRefused(b) \/ TakePromote(b)
          PROVE  FALSE
      BY <3>3, <2>1, Zenon DEF AddLock, QueueTxEvent, EventRefused, AddUnlock, AddRefused, TakePromote
    <3>4. ASSUME NEW b \in Adder, AddWoken(b) PROVE done[a] \in closed
      BY <3>4, <2>1, SMTT(30) DEF AddWoken
    <3>5. UNCHANGED pc \/ Reply \/ \E b \in Adder : AddLock(b) \/ QueueTxEvent(b) \/ EventRefused(b)
             \/ AddUnlock(b) \/ AddRefused(b) \/ TakePromote(b) \/ AddWoken(b)
      BY Zenon DEF Next, LoopTop, NewHead, ResetDone, ResetterWoken, ResetRefused, SchedTop, TakeReset, RunOver, SchedStop,
         SchedDrained, RunLock, RunWork, RunSend, RunExit, Tick, TickDone, TickerStop, Stall, Resume, CloseQuit,
         CloseNotified, CloseScope, CloseShutdown, CloseWaited
    <3> QED
      BY <3>1, <3>2, <3>3, <3>4, <3>5, Zenon
  <2>3. nextDone \notin closed
    BY Zenon DEF LifeInv, ChannelsOK, ShutdownOK
  <2>4. run # "idle" => runDone \notin closed
    BY Zenon DEF LifeInv, ChannelsOK
  <2> QED
    BY <2>2, <2>3, <2>4, Zenon DEF LifeInv, WaitAllOK, WaitOK
<1>3. ResetSeesHead
  <2> SUFFICES ASSUME resetter = "wait", resetter' = "report", ~shutdown PROVE poolHead >= rHead
    BY SMTT(30) DEF ResetSeesHead
  <2>1. rDone \in closed
    BY Zenon DEF Next, LoopTop, NewHead, ResetDone, ResetterWoken, ResetRefused, AddLock, QueueTxEvent,
       EventRefused, AddUnlock, AddRefused, AddWoken, TakePromote, SchedTop, TakeReset, Reply, RunOver, SchedStop,
       SchedDrained, RunLock, RunWork, RunSend, RunExit, Tick, TickDone, TickerStop, Stall, Resume, CloseQuit,
       CloseNotified, CloseScope, CloseShutdown, CloseWaited
  <2>2. nextDone \notin closed
    BY Zenon DEF LifeInv, ChannelsOK, ShutdownOK
  <2>3. run # "idle" => runDone \notin closed
    BY Zenon DEF LifeInv, ChannelsOK
  <2> QED
    BY <2>1, <2>2, <2>3, Zenon DEF LifeInv, ResetOK
<1> QED
  BY <1>1, <1>2, <1>3, Zenon

(* LifeInv is an invariant of the goroutines. *)
LEMMA LifeHolds == Spec => []LifeInv
  BY InitLife, NextLife, PTL DEF Spec

(* Whatever the number of callers, heads and runs, no done channel is closed
   twice, and when LegacyPool.Close has returned no run is active and nobody
   waits on a channel that stays open (legacypool.go:396, 1080). *)
THEOREM PoolShutsDownClean == Spec => []ShutdownClean
  BY LifeHolds, LifeClean, PTL

(* Runs never overlap, and whoever waits on the channel scheduleReorgLoop gave
   it wakes only after the run that took its request: addTxs after its accounts
   were looked at, Reset with the pool at its head or a later one. *)
THEOREM PoolRequestsSeeRun == Spec => RequestsSeeRun
  BY LifeHolds, StepSeesRun, PTL DEF Spec, RequestsSeeRun

=============================================================================
