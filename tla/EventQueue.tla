----------------------------- MODULE EventQueue -----------------------------
(***************************************************************************)
(* What the event queue of the kernel promises (core/sys/process.h,        *)
(* process_post): events wait in the order in which they were posted, at   *)
(* most NUMEVENTS of them, and leave one by one from the front.  An event  *)
(* that finds the queue full is not posted.                                *)
(***************************************************************************)
EXTENDS Naturals, Sequences

CONSTANTS Event, NUMEVENTS, NoEvent

VARIABLES
  queue,  \* the events that wait
  given   \* the event posted last

Init == queue = << >> /\ given = NoEvent

Post ==
  /\ Len(queue) < NUMEVENTS
  /\ \E e \in Event : queue' = Append(queue, e) /\ given' = e

Take == queue # << >> /\ queue' = Tail(queue) /\ UNCHANGED given

Next == Post \/ Take

Spec == Init /\ [][Next]_<<queue, given>>
=============================================================================
