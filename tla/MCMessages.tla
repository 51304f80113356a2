----------------------------- MODULE MCMessages -----------------------------
(***************************************************************************)
(* Instances for TLC of the two stages of a message's way to a script:     *)
(* InputStream and NetMsgQueue.  They share no state; one of them is       *)
(* chosen in the first state and moves, under the fairness of its own      *)
(* specification, and the variables of the other stay as they are.         *)
(***************************************************************************)
EXTENDS NetMsgQueue, MCInputStream

VARIABLE stage

stages == <<stage, vars, inputVars>>

MCInit == stage \in {"input", "queue"} /\ Init /\ InputInit

\* The peer stops sending in the end, and nothing is left to do; the queue has
\* to go on.
MCNext ==
  /\ \/ stage = "queue" /\ Next /\ UNCHANGED inputVars
     \/ stage = "input" /\ InputNext /\ UNCHANGED vars
     \/ stage = "input" /\ UNCHANGED <<vars, inputVars>>
  /\ UNCHANGED stage

\* The fairness of FairSpec and of InputFairSpec.
MCSpec ==
  /\ MCInit /\ [][MCNext]_stages
  /\ \A p \in Producers : WF_vars(stage = "queue" /\ PushStep(p))
  /\ SF_vars(stage = "queue" /\ GetLock)
  /\ WF_vars(stage = "queue" /\ GetStep)
  /\ WF_inputVars(stage = "input" /\ \E n \in 1 .. MaxChunk : Receive(n))
  /\ WF_inputVars(stage = "input" /\ Analyse)

=============================================================================
