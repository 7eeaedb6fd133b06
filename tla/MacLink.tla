------------------------------- MODULE MacLink -------------------------------
(***************************************************************************)
(* The link from the queues of CsmaQueue to one receiver: which frames it  *)
(* hears, and which ContikiMAC there (input_packet) passes up, by the      *)
(* sequence numbers that net/mac/mac-sequence.c keeps.                     *)
(***************************************************************************)
EXTENDS CsmaQueue

CONSTANTS
  Receiver,     \* address of the receiver, in Dest \ {Broadcast}
  Few           \* how many of the last packets are "the last few"

VARIABLES
  received_seqno, \* entry of received_seqnos for this sender, or 0
  passed          \* history: packets passed up, in order

linkVars == <<received_seqno, passed>>

LinkInit == Init /\ received_seqno = 0 /\ passed = << >>

\* input_packet: mac_sequence_is_duplicate, mac_sequence_register_seqno.  The one
\* entry of the sender is replaced.
Hear(p) ==
  IF p = received_seqno
    THEN UNCHANGED linkVars
    ELSE received_seqno' = p /\ passed' = Append(passed, p)

\* What the sender knows of a frame does not tell whether it was heard: a link layer
\* acknowledgement may be lost.
MayBeHeard(n, status) ==
  n \in {Receiver, Broadcast} /\ status \in {"OK", "NOACK", "COLLISION"}

MustBeHeard(n, status) == n = Receiver /\ status = "OK"

LinkTransmit(status) ==
  /\ Transmit(status)
  /\ \/ MayBeHeard(burst.n, status) /\ Hear(burst.p)
     \/ ~MustBeHeard(burst.n, status) /\ UNCHANGED linkVars

LinkNext ==
  \/ \E status \in {"OK", "NOACK", "COLLISION", "ERR_FATAL", "DEFERRED"} : LinkTransmit(status)
  \/ (Begin \/ Rest) /\ UNCHANGED linkVars

LinkSpec == LinkInit /\ [][LinkNext]_<<vars, linkVars>>

-----------------------------------------------------------------------------
(* Properties *)

\* A packet is not passed up if its number is one of the last few received from its
\* sender (mac-sequence.h:52-54, mac-sequence.c:71-73).
LastFewNotRepeated ==
  \A i, j \in DOMAIN passed : i < j /\ j - i <= Few => passed[i] # passed[j]
=============================================================================
