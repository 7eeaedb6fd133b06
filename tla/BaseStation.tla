----------------------------- MODULE BaseStation -----------------------------
(***************************************************************************)
(* The base station (contiki/examples/project/base_station.c): it starts a *)
(* round of the hop count flood every RECONFIG_TIMER seconds, and prints   *)
(* and acknowledges each packet of aggregated data it receives.            *)
(***************************************************************************)
EXTENDS Radio

CONSTANTS
  ConfMod \* conf_seqn is a uint8_t: 256

ASSUME RoundAssumption == ConfMod \in Nat \ {0}

VARIABLES
  base_conf_seqn,  \* conf_seqn: the current round
  base_ack,        \* ack_agg_fwd and addr_ack_agg_fwd, under flg_ack_agg
  base_et_rnd_ack, \* the timer of unicast_process
  received         \* history: packets received and printed

baseVars == <<base_conf_seqn, base_ack, base_et_rnd_ack, received>>

BaseInit ==
  /\ base_conf_seqn = 0
  /\ base_ack = NoAck
  /\ base_et_rnd_ack = FALSE
  /\ received = {}

\* broadcast_recv, AGGREGATED_DATA: the acknowledgement takes the place of one
\* that has not been sent yet.
BaseRecvAggData(f) ==
  LET m == air[f].body
  IN  /\ Receive(Base, f)
      /\ m.type = "AGGREGATED_DATA"
      /\ received' = received \cup {Id(m)}
      /\ base_ack' = [address |-> m.address, seqno |-> m.seqno, dest |-> air[f].src]
      /\ base_et_rnd_ack' = TRUE
      /\ UNCHANGED base_conf_seqn

\* broadcast_recv, any other type.
BaseIgnore(f) ==
  /\ Receive(Base, f)
  /\ air[f].body.type # "AGGREGATED_DATA"
  /\ UNCHANGED baseVars

\* Mutant of StartRound: conf_seqn is wider than the type of the message.
StartRoundWide(to) ==
  /\ base_conf_seqn' = base_conf_seqn + 1
  /\ Transmit(Base, to, HopConf(base_conf_seqn', 0))
  /\ UNCHANGED <<base_ack, base_et_rnd_ack, received>>

\* broadcast_process: et_init fires.
StartRound(to) ==
  /\ base_conf_seqn' = (base_conf_seqn + 1) % ConfMod
  /\ Transmit(Base, to, HopConf(base_conf_seqn', 0))
  /\ UNCHANGED <<base_ack, base_et_rnd_ack, received>>

\* unicast_process: et_rnd_ack fires.
BaseSendAck(to) ==
  /\ base_et_rnd_ack
  /\ base_ack # NoAck
  /\ Transmit(Base, to, AckAgg(base_ack))
  /\ base_ack' = NoAck
  /\ UNCHANGED <<base_conf_seqn, base_et_rnd_ack, received>>

BaseIdle ==
  /\ base_et_rnd_ack
  /\ base_ack = NoAck
  /\ base_et_rnd_ack' = FALSE
  /\ UNCHANGED <<air, base_conf_seqn, base_ack, received>>

BaseAckStep == \E to \in SUBSET ({base_ack.dest} \cap Link[Base]) : BaseSendAck(to)
=============================================================================
