------------------------------- MODULE Listas -------------------------------
(* The operations on the lists of the commons library the code relies on,  *)
(* defined position by position so that the provers need no induction over *)
(* sequences.                                                              *)
EXTENDS Integers, Sequences

\* list_remove and list_remove_by_condition: the list without position k
QuitaPos(s, k) ==
  [j \in 1..(Len(s) - 1) |-> IF j < k THEN s[j] ELSE s[j + 1]]

\* list_add_in_index: e goes right after position k
InsertaDespues(s, k, e) ==
  [j \in 1..(Len(s) + 1) |-> IF j <= k THEN s[j]
                             ELSE IF j = k + 1 THEN e ELSE s[j - 1]]

\* list_find: the first of the positions that satisfy the condition, if any
Primera(posiciones) == {k \in posiciones : \A j \in posiciones : k <= j}
=============================================================================
