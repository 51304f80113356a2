----------------------------- MODULE MsgChannel -----------------------------
(***************************************************************************)
(* What the message queue between the network thread and the Lua consumer  *)
(* promises: a block it has taken in is handed out once, in the order in   *)
(* which the blocks were taken in.  A push may fail (the pool is out of    *)
(* memory), and then it leaves no trace here.                              *)
(***************************************************************************)
EXTENDS Naturals, Sequences

CONSTANT Blocks     \* what is sent

VARIABLES accepted, \* every block taken in, oldest first
          handed    \* every block handed out, oldest first

Init == accepted = << >> /\ handed = << >>

Accept(b) ==
  /\ accepted' = Append(accepted, b)
  /\ UNCHANGED handed

HandOut ==
  /\ Len(handed) < Len(accepted)
  /\ handed' = Append(handed, accepted[Len(handed) + 1])
  /\ UNCHANGED accepted

Next == (\E b \in Blocks : Accept(b)) \/ HandOut

Spec == Init /\ [][Next]_<<accepted, handed>>

=============================================================================
