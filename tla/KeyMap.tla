------------------------------- MODULE KeyMap -------------------------------
(***************************************************************************)
(* What a map from keys to values promises (CMap of utils/rbtree.h): a     *)
(* value is found under its key from map_insert to map_delete.             *)
(***************************************************************************)
CONSTANTS Keys, Values, Nil

VARIABLES
  dict,    \* the value of each key, Nil where there is none
  answer   \* what the last map_find returned

Init == dict = [k \in Keys |-> Nil] /\ answer = Nil

\* map_insert and map_delete.
Insert(k, v) == dict' = [dict EXCEPT ![k] = v] /\ UNCHANGED answer
Delete(k) == dict' = [dict EXCEPT ![k] = Nil] /\ UNCHANGED answer

\* map_find
Find(k) == answer' = dict[k] /\ UNCHANGED dict

Next == \E k \in Keys : Delete(k) \/ Find(k) \/ \E v \in Values : Insert(k, v)

Spec == Init /\ [][Next]_<<dict, answer>>

=============================================================================
