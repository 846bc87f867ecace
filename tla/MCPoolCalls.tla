---------------------------- MODULE MCPoolCalls ----------------------------
(***************************************************************************)
(* The pool's callers under fairness, in two settings.  "stalling": nobody *)
(* waits for a promotion and the subscriber may stop reading for good.     *)
(* "reading": callers wait for the promotion, a second head may arrive     *)
(* during a reset, and the subscriber always comes back to its channel.    *)
(***************************************************************************)
EXTENDS PoolLifecycle

CONSTANT a1
VARIABLE setting

Reading == INSTANCE PoolLifecycle WITH SyncAdder <- Adder, MaxHead <- 2
allVars == <<setting, vars>>

MCInit == Init /\ setting \in {"stalling", "reading"}
MCNext ==
    /\ UNCHANGED setting
    /\ \/ setting = "stalling" /\ Next
       \/ setting = "reading" /\ Reading!Next

MCSpec ==
    /\ MCInit /\ [][MCNext]_allVars
    /\ IF setting = "stalling" THEN Fairness ELSE Reading!Fairness
    /\ WF_vars(setting = "reading" /\ Resume)

(* Every call returns: Close returns even if a subscriber has stopped reading,
   and so does an add that is under way.  While subscribers keep reading, the
   pool reaches every head the chain announced, or one after it, unless it is
   closed first: a head that arrives during a reset is not forgotten. *)
CallsReturn ==
    /\ CloseReturns
    /\ AddReturns
    /\ \A h \in 2 .. 3 :
         (setting = "reading" /\ newHead = h) ~> (poolHead >= h \/ closer # "open")
=============================================================================
