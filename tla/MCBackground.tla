---------------------------- MODULE MCBackground ----------------------------
(***************************************************************************)
(* Instances for TLC of the two threads that work in the background:       *)
(* AsyncLog and Timer.  They share no state; one of them is chosen in the  *)
(* first state and moves, under the fairness of its own specification, and *)
(* the variables of the other stay as they are.                            *)
(***************************************************************************)
EXTENDS AsyncLog, Timer

VARIABLE worker

workers == <<worker, vars, timerVars>>

MCInit == worker \in {"log", "timer"} /\ Init /\ TimerInit

MCNext ==
  /\ \/ worker = "log" /\ Next /\ UNCHANGED timerVars
     \/ worker = "timer" /\ TimerNext /\ UNCHANGED vars
  /\ UNCHANGED worker

\* The fairness of FairSpec and of TimerFairSpec.
MCSpec ==
  /\ MCInit /\ [][MCNext]_workers
  /\ WF_vars(worker = "log" /\ Notice) /\ SF_vars(worker = "log" /\ WriterStep)
  /\ WF_timerVars(worker = "timer" /\ TmrStep)
  /\ SF_timerVars(worker = "timer" /\ TimerLookRight)

=============================================================================
