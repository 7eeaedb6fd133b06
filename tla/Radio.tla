-------------------------------- MODULE Radio --------------------------------
(***************************************************************************)
(* The radio medium under the relay nodes and the base station, as the     *)
(* applications see it through Rime's broadcast and unicast (channels 129  *)
(* and 146) over CSMA and ContikiMAC.                                      *)
(*                                                                         *)
(* A transmission reaches a subset of the nodes in range (to = {}: lost, or*)
(* refused by a full MAC queue, which the applications do not notice).     *)
(* Frames wait in the sender's queue or on the air in one of FrameId and   *)
(* are received at any later time, in any order.  With Repeats a frame may *)
(* be received again: CSMA retransmits a unicast frame whose link-layer    *)
(* acknowledgement is lost, and the receiver discards the copy only if no  *)
(* other frame of the sender came between (mac-sequence.c keeps one number *)
(* per sender).                                                            *)
(***************************************************************************)
EXTENDS Naturals, Sequences, FiniteSets

CONSTANTS
  Relay,   \* the relay nodes
  Base,    \* the base station
  Link,    \* Link[n]: the nodes in radio range of n
  FrameId, \* bound: transmissions under way at once
  Repeats  \* TRUE: a frame may be received more than once

Node == Relay \cup {Base}

ASSUME NodeAssumption  == Base \notin Relay
ASSUME LinkAssumption  == Link \in [Node -> SUBSET Node]
ASSUME RepeatsAssumption == Repeats \in BOOLEAN
ASSUME FiniteAssumption == IsFiniteSet(Relay) /\ IsFiniteSet(FrameId)

VARIABLE air

\* The bodies of the messages (common.h).  A packet of aggregated data is known
\* by the relay that built it and the seqno that relay gave it.
HopConf(seqn, hop) == [type |-> "HOP_CONF", seqn |-> seqn, hop_nr |-> hop]
AggData(p) == [type |-> "AGGREGATED_DATA", address |-> p.address,
               seqno |-> p.seqno, hop_nr |-> p.hop_nr]
AckAgg(a) == [type |-> "ACK_AGG", address |-> a.address, seqno |-> a.seqno]

Packet == [address : Relay, seqno : Nat, hop_nr : Nat]
Ack    == [address : Relay, seqno : Nat, dest : Relay]

\* An empty packet slot (flg_agg_send, flg_agg_fwd = 0) and an empty
\* acknowledgement slot (flg_ack_agg = 0).
NoPacket == [address |-> Base, seqno |-> 0, hop_nr |-> 0]
NoAck    == [address |-> Base, seqno |-> 0, dest |-> Base]

Id(p) == <<p.address, p.seqno>>

NoFrame == [src |-> Base, to |-> {}, body |-> [type |-> "NONE"]]

\* A frame from src that will be received by the nodes in to.
Transmit(src, to, body) ==
  IF to = {}
    THEN UNCHANGED air
    ELSE \E f \in FrameId :
           /\ air[f] = NoFrame
           /\ air' = [air EXCEPT ![f] = [src |-> src, to |-> to, body |-> body]]

\* Frame f is no longer under way to n.
Consume(n, f) ==
  air' = [air EXCEPT ![f] =
            IF @.to = {n} THEN NoFrame
            ELSE [src |-> @.src, to |-> @.to \ {n}, body |-> @.body]]

\* Node n receives frame f.
Receive(n, f) ==
  /\ n \in air[f].to
  /\ Consume(n, f) \/ (Repeats /\ UNCHANGED air)

RadioInit == air = [f \in FrameId |-> NoFrame]
=============================================================================
