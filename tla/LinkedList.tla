----------------------------- MODULE LinkedList -----------------------------
(***************************************************************************)
(* How core/lib/list.c keeps a list: a pointer to the first element (head) *)
(* and a pointer in each element (next).  The elements belong to the       *)
(* callers, who may give an element back with an old pointer in it.        *)
(***************************************************************************)
EXTENDS Lists, Integers, FiniteSets

\* NULL, as a pointer.
End == -1

\* The elements that are reached from the head.
Chain(l) ==
  LET at[n \in 0 .. Cardinality(DOMAIN l.next)] ==
        IF n = 0 THEN l.head ELSE IF at[n - 1] = End THEN End ELSE l.next[at[n - 1]]
  IN  [i \in 1 .. Cardinality({n \in DOMAIN at : at[n] # End}) |-> at[i - 1]]

\* Mutant of ListRemove: the first elements go with the one removed.
ListRemoveFirst(l, x) ==
  IF x \notin Elements(Chain(l))
    THEN l
    ELSE [head |-> l.next[x], next |-> [l.next EXCEPT ![x] = End]]

\* list_remove
ListRemove(l, x) ==
  LET chain == Chain(l)
      i == Place(chain, x)
  IN  IF x \notin Elements(chain)
        THEN l
        ELSE [head |-> IF i = 1 THEN l.next[x] ELSE l.head,
              next |-> [e \in DOMAIN l.next |->
                          IF e = x THEN End
                          ELSE IF i > 1 /\ e = chain[i - 1] THEN l.next[x]
                          ELSE l.next[e]]]

\* Mutant of Ended: the element keeps the pointer it came with.
EndedKept(next, x) == next

Ended(next, x) == [next EXCEPT ![x] = End]

\* list_add, with list_tail
ListAdd(l, x) ==
  LET old  == ListRemove(l, x)
      next == Ended(old.next, x)
      rest == Chain([old EXCEPT !.next = next])
  IN  IF rest = << >>
        THEN [head |-> x, next |-> next]
        ELSE [head |-> old.head, next |-> [next EXCEPT ![rest[Len(rest)]] = x]]

\* list_pop; the element popped keeps its pointer.
ListPop(l) == IF l.head = End THEN l ELSE [l EXCEPT !.head = l.next[@]]
=============================================================================
