----------------------------- MODULE MCThreads -----------------------------
(***************************************************************************)
(* Instances for TLC of what the threads do: Gateway, where they work, and *)
(* Lifecycle, where they come and go.  The two share no state in this      *)
(* model; one of them is chosen in the first state and moves, and the      *)
(* variables of the other stay as they are.                                *)
(***************************************************************************)
EXTENDS MCGateway, Lifecycle

VARIABLE part

parts == <<part, vars, lifeVars>>

MCInit == part \in {"work", "life"} /\ Init /\ LifeInit

MCNext ==
  /\ \/ part = "work" /\ Next /\ UNCHANGED lifeVars
     \/ part = "life" /\ LifeNext /\ UNCHANGED vars
  /\ UNCHANGED part

MCSpec == MCInit /\ [][MCNext]_parts

\* The fairness of FairSpec and of LifeFairSpec.
MCFairSpec ==
  /\ MCSpec
  /\ SF_vars(part = "work" /\ NetStep) /\ SF_vars(part = "work" /\ TmrStep)
  /\ WF_lifeVars(part = "life" /\ MainStop)
  /\ SF_lifeVars(part = "life" /\ NetNext) /\ SF_lifeVars(part = "life" /\ TmrNext)

=============================================================================
