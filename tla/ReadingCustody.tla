---------------------------- MODULE ReadingCustody ----------------------------
(***************************************************************************)
(* What the relays and the base station together promise about a reading:  *)
(* once a relay has taken it, it stays in the network until it arrives at  *)
(* the base station, and it never disappears from either.                  *)
(***************************************************************************)
CONSTANT Reading

VARIABLES
  taken,  \* readings in the network or at the base station
  arrived \* readings at the base station

Init == taken = {} /\ arrived = {}

Take ==
  /\ \E q \in Reading : taken' = taken \cup {q}
  /\ UNCHANGED arrived

Arrive ==
  /\ \E Q \in SUBSET taken : arrived' = arrived \cup Q
  /\ UNCHANGED taken

Next == Take \/ Arrive

Spec == Init /\ [][Next]_<<taken, arrived>>
=============================================================================
