---------------------------- MODULE MCExecution ----------------------------
(* The models of the execution layer for TLC.  A behaviour is a behaviour of *)
(* one of them, chosen at the start.                                         *)
EXTENDS AccessList, Executor

CONSTANTS a, b, c,      \* addresses, and transactions of the executor
          s, t          \* slots

VARIABLE unit

mcvars == <<unit, vars, serviceVars>>

(* The clients of this node send a, those of another one have sent b.        *)
MCInit == unit \in {"access", "service"} /\ Init /\ ServiceInit /\ net = {b}

MCNext ==
  \/ unit = "access" /\ Next /\ UNCHANGED <<unit, serviceVars>>
  \/ unit = "service" /\ ServiceNext /\ b \notin pend'.queue /\ UNCHANGED <<unit, vars>>

(* The fairness of the executor service.                                     *)
MCSpec == /\ MCInit /\ [][MCNext]_mcvars
          /\ WF_serviceVars(unit = "service" /\ Alive /\ Selecting)
          /\ WF_serviceVars(unit = "service" /\ Alive /\ Executing)
          /\ WF_serviceVars(unit = "service" /\ Alive /\ exec.open /\ RunExecutionPool)
=============================================================================
