-------------------------------- MODULE Lists --------------------------------
(***************************************************************************)
(* The linked lists of Contiki (core/lib/list.c) as sequences.  No element *)
(* is in a list twice.                                                     *)
(***************************************************************************)
EXTENDS Naturals, Sequences

Elements(list) == {list[i] : i \in DOMAIN list}

Place(list, x) == CHOOSE i \in DOMAIN list : list[i] = x

\* list_remove, of an element of the list.
Unlink(list, x) ==
  [i \in 1 .. Len(list) - 1 |-> IF i < Place(list, x) THEN list[i] ELSE list[i + 1]]

\* The elements in S, in their order.
Keep(list, S) ==
  LET kept[i \in 0 .. Len(list)] ==
        IF i = 0 THEN << >>
        ELSE IF list[i] \in S THEN Append(kept[i - 1], list[i]) ELSE kept[i - 1]
  IN  kept[Len(list)]

Backwards(list) == [i \in DOMAIN list |-> list[Len(list) + 1 - i]]
=============================================================================
