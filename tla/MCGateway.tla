----------------------------- MODULE MCGateway -----------------------------
(***************************************************************************)
(* Instance of Gateway for TLC: see the README for the bounds.             *)
(***************************************************************************)
EXTENDS Gateway, TLC

\* Addresses are told apart only by what they hold.
MCSymmetry == Permutations(Sessions) \cup Permutations(Tasks)

=============================================================================
