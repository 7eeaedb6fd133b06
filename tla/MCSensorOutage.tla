--------------------------- MODULE MCSensorOutage ---------------------------
(***************************************************************************)
(* A sensor node with the constants of the program, out of coverage from   *)
(* the start: how long does the buffer last?                               *)
(***************************************************************************)
EXTENDS SensorNode

CONSTANTS
  SAMPLE_RATE, \* seconds between two samples
  Outage       \* seconds a node must be able to store samples for

OutageInit == Init /\ ~in_coverage

\* The node never comes back into coverage.
OutageSpec == OutageInit /\ [][Next /\ ~in_coverage']_vars

\* Seconds from the first sample of packet p (numbered from 0) to the completion of
\* the last one.
Age(p) == (made - p) * SAMPLES_PER_PACKET * SAMPLE_RATE

\* "When out of coverage, each sensor node must be able to store sensor values
\* for a period of up to four hours" (doc/Report2_Group10.tex:533-534): no
\* packet younger than that is overwritten.
StoresForOutage == [][\A p \in dropped' \ dropped : Age(p)' >= Outage]_vars
=============================================================================
