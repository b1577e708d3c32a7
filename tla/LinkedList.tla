----------------------------- MODULE LinkedList -----------------------------
(***************************************************************************)
(* The intrusive doubly linked lists both programs keep with macros:       *)
(* LL_ADD and LL_REMOVE (2.4_ustack/tcp_from_king.c), List_insert and      *)
(* List_delete (thread_folder/thread_pool.c).  A list is the sequence of   *)
(* its items, head first; the pointers are what these operators read off   *)
(* it.                                                                     *)
(***************************************************************************)
EXTENDS Naturals, Sequences

Members(list) == {list[i] : i \in 1 .. Len(list)}

Distinct(list) == \A i, j \in 1 .. Len(list) : list[i] = list[j] => i = j

\* Where x stands in a list that holds it.
Position(x, list) == CHOOSE i \in 1 .. Len(list) : list[i] = x

Insert(x, list) == <<x>> \o list

Delete(x, list) ==
    IF x \in Members(list)
      THEN LET i == Position(x, list)
           IN  [j \in 1 .. Len(list) - 1 |-> IF j < i THEN list[j] ELSE list[j + 1]]
      ELSE list

First(list, null) == IF list = <<>> THEN null ELSE list[1]

\* x->next.  LL_REMOVE clears the link of the item it removes, so an item that
\* is in no list has none.
Successor(x, list, null) ==
    IF x \in Members(list) /\ Position(x, list) < Len(list)
      THEN list[Position(x, list) + 1]
      ELSE null

\* The item of S a traversal from the head meets first.
FirstIn(S, list, null) ==
    IF S \cap Members(list) = {}
      THEN null
      ELSE CHOOSE x \in S \cap Members(list) :
             \A y \in S \cap Members(list) : Position(x, list) <= Position(y, list)
=============================================================================
