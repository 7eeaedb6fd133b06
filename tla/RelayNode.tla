------------------------------ MODULE RelayNode ------------------------------
(***************************************************************************)
(* The relay nodes (contiki/examples/project/relay-node.c): they collect   *)
(* sensor data into packets, forward the packets of relays farther from    *)
(* the base station, acknowledge both, and take part in the flood that     *)
(* assigns hop numbers.  A callback or one run of a process between two    *)
(* waits is one action; none is preempted by another.                      *)
(*                                                                         *)
(* A flag and the slot it guards (flg_agg_send, overwrite_send and         *)
(* agg_data_to_be_sent; flg_agg_fwd, overwrite_fwd and agg_data_fwd;       *)
(* flg_ack_agg and ack_agg_fwd) are set and cleared together and are one   *)
(* variable.  A timer is pending (TRUE) until the process it wakes finds   *)
(* nothing to do.                                                          *)
(***************************************************************************)
EXTENDS Radio

CONSTANTS
  Reading,                \* sensor packets: a sensor node and its seqno
  SENSOR_DATA_PER_PACKET,
  HOP_NR_INITIAL,
  MaxBuilt,               \* bound: MaxBuilt[r] packets built by relay r, whose
                          \* seqno (uint8_t) does not come round
  Restarts                \* the relays that may be switched off and on

ASSUME ReadingAssumption == SENSOR_DATA_PER_PACKET \in Nat \ {0}
ASSUME HopAssumption == HOP_NR_INITIAL \in Nat \ {0}
ASSUME BuiltAssumption == MaxBuilt \in [Relay -> 0 .. 256]
ASSUME RestartAssumption == Restarts \subseteq Relay

VARIABLES
  hop_nr, conf_seqn,   \* the relay's place in the current round
  flg_conf,            \* a HOP_CONF is to be sent
  agg_data_buffer,     \* readings collected; its length is spc
  agg_data_to_be_sent, \* packet built here, until acknowledged
  agg_data_fwd,        \* packet taken from another relay, until acknowledged
  ack_agg_fwd,         \* acknowledgement to send to a relay
  sensor_ack_list,     \* readings to acknowledge
  et_rnd, et_rnd_ack,  \* timers of broadcast_process and unicast_process
  built                \* history: readings of each packet built, in order

routeVars == <<hop_nr, conf_seqn, flg_conf>>
aggVars   == <<agg_data_buffer, agg_data_to_be_sent, agg_data_fwd, built>>
ackVars   == <<ack_agg_fwd, sensor_ack_list>>
timerVars == <<et_rnd, et_rnd_ack>>
relayVars == <<routeVars, aggVars, ackVars, timerVars>>

flg_agg_send(r) == agg_data_to_be_sent[r] # NoPacket
flg_agg_fwd(r)  == agg_data_fwd[r] # NoPacket
flg_ack_agg(r)  == ack_agg_fwd[r] # NoAck

RelayInit ==
  /\ hop_nr = [r \in Relay |-> HOP_NR_INITIAL]
  /\ conf_seqn = [r \in Relay |-> 0]
  /\ flg_conf = [r \in Relay |-> FALSE]
  /\ agg_data_buffer = [r \in Relay |-> << >>]
  /\ agg_data_to_be_sent = [r \in Relay |-> NoPacket]
  /\ agg_data_fwd = [r \in Relay |-> NoPacket]
  /\ ack_agg_fwd = [r \in Relay |-> NoAck]
  /\ sensor_ack_list = [r \in Relay |-> << >>]
  /\ et_rnd = [r \in Relay |-> FALSE]
  /\ et_rnd_ack = [r \in Relay |-> FALSE]
  /\ built = [r \in Relay |-> << >>]

Arm(timer, r) == [timer EXCEPT ![r] = TRUE]

-----------------------------------------------------------------------------
(* broadcast_recv *)

\* memb_alloc has 2 * SENSOR_DATA_PER_PACKET elements.  Its NULL result is not
\* checked: the write through it is modelled as a lost acknowledgement.
QueueSensorAck(r, q) ==
  sensor_ack_list' =
    IF Len(sensor_ack_list[r]) < 2 * SENSOR_DATA_PER_PACKET
      THEN [sensor_ack_list EXCEPT ![r] = Append(@, q)]
      ELSE sensor_ack_list

\* Mutant of BuildPacket: overwrite_send is not looked at.
BuildPacketOverwrite(r, buffer) ==
  IF Len(buffer) = SENSOR_DATA_PER_PACKET
    THEN /\ agg_data_to_be_sent' =
              [agg_data_to_be_sent EXCEPT ![r] =
                 [address |-> r, seqno |-> Len(built[r]), hop_nr |-> hop_nr[r]]]
         /\ built' = [built EXCEPT ![r] = Append(@, buffer)]
         /\ agg_data_buffer' = [agg_data_buffer EXCEPT ![r] = << >>]
         /\ et_rnd' = Arm(et_rnd, r)
    ELSE /\ agg_data_buffer' = [agg_data_buffer EXCEPT ![r] = buffer]
         /\ UNCHANGED <<agg_data_to_be_sent, built, et_rnd>>

\* The second part of the handler: a full buffer becomes the packet to send.
BuildPacket(r, buffer) ==
  IF Len(buffer) = SENSOR_DATA_PER_PACKET /\ ~flg_agg_send(r)
    THEN /\ agg_data_to_be_sent' =
              [agg_data_to_be_sent EXCEPT ![r] =
                 [address |-> r, seqno |-> Len(built[r]), hop_nr |-> hop_nr[r]]]
         /\ built' = [built EXCEPT ![r] = Append(@, buffer)]
         /\ agg_data_buffer' = [agg_data_buffer EXCEPT ![r] = << >>]
         /\ et_rnd' = Arm(et_rnd, r)
    ELSE /\ agg_data_buffer' = [agg_data_buffer EXCEPT ![r] = buffer]
         /\ UNCHANGED <<agg_data_to_be_sent, built, et_rnd>>

\* Mutant of StoreSensorData: the acknowledgement is outside the test for room.
StoreSensorDataAckAll(r, q) ==
  /\ Len(built[r]) < MaxBuilt[r]
  /\ QueueSensorAck(r, q)
  /\ et_rnd_ack' = Arm(et_rnd_ack, r)
  /\ BuildPacket(r, IF Len(agg_data_buffer[r]) < SENSOR_DATA_PER_PACKET
                      THEN Append(agg_data_buffer[r], q) ELSE agg_data_buffer[r])
  /\ UNCHANGED <<air, routeVars, agg_data_fwd, ack_agg_fwd>>

\* SENSOR_DATA with room in the buffer: stored, and to be acknowledged.
StoreSensorData(r, q) ==
  /\ Len(built[r]) < MaxBuilt[r]
  /\ Len(agg_data_buffer[r]) < SENSOR_DATA_PER_PACKET
  /\ QueueSensorAck(r, q)
  /\ et_rnd_ack' = Arm(et_rnd_ack, r)
  /\ BuildPacket(r, Append(agg_data_buffer[r], q))
  /\ UNCHANGED <<air, routeVars, agg_data_fwd, ack_agg_fwd>>

\* SENSOR_DATA with the buffer full: not stored, but the buffer may now leave.
RefuseSensorData(r) ==
  /\ Len(built[r]) < MaxBuilt[r]
  /\ Len(agg_data_buffer[r]) = SENSOR_DATA_PER_PACKET
  /\ BuildPacket(r, agg_data_buffer[r])
  /\ UNCHANGED <<air, routeVars, agg_data_fwd, ackVars, et_rnd_ack>>

\* Mutant of RecvHopConf: the latest number heard is taken, not the least.
RecvHopConfLatest(r, f) ==
  LET m == air[f].body
      known == IF conf_seqn[r] # m.seqn THEN HOP_NR_INITIAL ELSE hop_nr[r]
      closer == known # m.hop_nr + 1
  IN  /\ Receive(r, f)
      /\ m.type = "HOP_CONF"
      /\ conf_seqn' = [conf_seqn EXCEPT ![r] = m.seqn]
      /\ hop_nr' = [hop_nr EXCEPT ![r] = IF closer THEN m.hop_nr + 1 ELSE known]
      /\ flg_conf' = [flg_conf EXCEPT ![r] = @ \/ closer]
      /\ et_rnd' = Arm(et_rnd, r)
      /\ UNCHANGED <<aggVars, ackVars, et_rnd_ack>>

\* Mutant of RecvHopConf: only the first number of a round is passed on.
RecvHopConfOnce(r, f) ==
  LET m == air[f].body
      known == IF conf_seqn[r] # m.seqn THEN HOP_NR_INITIAL ELSE hop_nr[r]
      closer == known > m.hop_nr + 1
  IN  /\ Receive(r, f)
      /\ m.type = "HOP_CONF"
      /\ conf_seqn' = [conf_seqn EXCEPT ![r] = m.seqn]
      /\ hop_nr' = [hop_nr EXCEPT ![r] = IF closer THEN m.hop_nr + 1 ELSE known]
      /\ flg_conf' = [flg_conf EXCEPT ![r] = @ \/ (closer /\ known = HOP_NR_INITIAL)]
      /\ et_rnd' = Arm(et_rnd, r)
      /\ UNCHANGED <<aggVars, ackVars, et_rnd_ack>>

\* HOP_CONF: a new seqn starts over; a shorter way is taken and passed on.
RecvHopConf(r, f) ==
  LET m == air[f].body
      known == IF conf_seqn[r] # m.seqn THEN HOP_NR_INITIAL ELSE hop_nr[r]
      closer == known > m.hop_nr + 1
  IN  /\ Receive(r, f)
      /\ m.type = "HOP_CONF"
      /\ conf_seqn' = [conf_seqn EXCEPT ![r] = m.seqn]
      /\ hop_nr' = [hop_nr EXCEPT ![r] = IF closer THEN m.hop_nr + 1 ELSE known]
      /\ flg_conf' = [flg_conf EXCEPT ![r] = @ \/ closer]
      /\ et_rnd' = Arm(et_rnd, r)
      /\ UNCHANGED <<aggVars, ackVars, et_rnd_ack>>

\* Mutant of TakeAggData: overwrite_fwd is not looked at.
TakeAggDataOverwrite(r, f) ==
  LET m == air[f].body
  IN  /\ Receive(r, f)
      /\ m.type = "AGGREGATED_DATA"
      /\ m.hop_nr > hop_nr[r]
      /\ agg_data_fwd' = [agg_data_fwd EXCEPT ![r] =
           [address |-> m.address, seqno |-> m.seqno, hop_nr |-> hop_nr[r]]]
      /\ ack_agg_fwd' = [ack_agg_fwd EXCEPT ![r] =
           [address |-> m.address, seqno |-> m.seqno, dest |-> air[f].src]]
      /\ et_rnd' = Arm(et_rnd, r)
      /\ et_rnd_ack' = Arm(et_rnd_ack, r)
      /\ UNCHANGED <<routeVars, agg_data_buffer, agg_data_to_be_sent, built, sensor_ack_list>>

\* Mutant of TakeAggData: the timer of broadcast_process is not set.
TakeAggDataUnarmed(r, f) ==
  LET m == air[f].body
  IN  /\ Receive(r, f)
      /\ m.type = "AGGREGATED_DATA"
      /\ m.hop_nr > hop_nr[r]
      /\ ~flg_agg_fwd(r)
      /\ agg_data_fwd' = [agg_data_fwd EXCEPT ![r] =
           [address |-> m.address, seqno |-> m.seqno, hop_nr |-> hop_nr[r]]]
      /\ ack_agg_fwd' = [ack_agg_fwd EXCEPT ![r] =
           [address |-> m.address, seqno |-> m.seqno, dest |-> air[f].src]]
      /\ UNCHANGED et_rnd
      /\ et_rnd_ack' = Arm(et_rnd_ack, r)
      /\ UNCHANGED <<routeVars, agg_data_buffer, agg_data_to_be_sent, built, sensor_ack_list>>

\* AGGREGATED_DATA from farther away, with the forwarding slot free: take it
\* over and acknowledge it, in place of an acknowledgement not sent yet.
TakeAggData(r, f) ==
  LET m == air[f].body
  IN  /\ Receive(r, f)
      /\ m.type = "AGGREGATED_DATA"
      /\ m.hop_nr > hop_nr[r]
      /\ ~flg_agg_fwd(r)
      /\ agg_data_fwd' = [agg_data_fwd EXCEPT ![r] =
           [address |-> m.address, seqno |-> m.seqno, hop_nr |-> hop_nr[r]]]
      /\ ack_agg_fwd' = [ack_agg_fwd EXCEPT ![r] =
           [address |-> m.address, seqno |-> m.seqno, dest |-> air[f].src]]
      /\ et_rnd' = Arm(et_rnd, r)
      /\ et_rnd_ack' = Arm(et_rnd_ack, r)
      /\ UNCHANGED <<routeVars, agg_data_buffer, agg_data_to_be_sent, built, sensor_ack_list>>

IgnoreAggData(r, f) ==
  /\ Receive(r, f)
  /\ air[f].body.type = "AGGREGATED_DATA"
  /\ air[f].body.hop_nr <= hop_nr[r] \/ flg_agg_fwd(r)
  /\ UNCHANGED relayVars

-----------------------------------------------------------------------------
(* recv_uc *)

\* Mutant of RecvAckAgg: the acknowledgement is not compared with the packet.
RecvAckAggAny(r, f) ==
  LET m == air[f].body
      mine == flg_agg_send(r)
      other == ~flg_agg_send(r) /\ flg_agg_fwd(r)
  IN  /\ Receive(r, f)
      /\ m.type = "ACK_AGG"
      /\ agg_data_to_be_sent' =
           IF mine THEN [agg_data_to_be_sent EXCEPT ![r] = NoPacket] ELSE agg_data_to_be_sent
      /\ agg_data_fwd' = IF other THEN [agg_data_fwd EXCEPT ![r] = NoPacket] ELSE agg_data_fwd
      /\ UNCHANGED <<routeVars, agg_data_buffer, built, ackVars, timerVars>>

\* An acknowledgement frees the slot of the packet it names.  The forwarding
\* slot is only looked at when there is no packet of the relay's own.
RecvAckAgg(r, f) ==
  LET m == air[f].body
      mine == flg_agg_send(r) /\ Id(agg_data_to_be_sent[r]) = Id(m)
      other == ~flg_agg_send(r) /\ flg_agg_fwd(r) /\ Id(agg_data_fwd[r]) = Id(m)
  IN  /\ Receive(r, f)
      /\ m.type = "ACK_AGG"
      /\ agg_data_to_be_sent' =
           IF mine THEN [agg_data_to_be_sent EXCEPT ![r] = NoPacket] ELSE agg_data_to_be_sent
      /\ agg_data_fwd' = IF other THEN [agg_data_fwd EXCEPT ![r] = NoPacket] ELSE agg_data_fwd
      /\ UNCHANGED <<routeVars, agg_data_buffer, built, ackVars, timerVars>>

-----------------------------------------------------------------------------
(* broadcast_process, woken by et_rnd *)

\* Mutant of SendConf: the number heard is passed on, not the relay's own.
SendConfHeard(r, to) ==
  /\ et_rnd[r]
  /\ flg_conf[r]
  /\ Transmit(r, to, HopConf(conf_seqn[r], hop_nr[r] - 1))
  /\ flg_conf' = [flg_conf EXCEPT ![r] = FALSE]
  /\ UNCHANGED <<hop_nr, conf_seqn, aggVars, ackVars, timerVars>>

SendConf(r, to) ==
  /\ et_rnd[r]
  /\ flg_conf[r]
  /\ Transmit(r, to, HopConf(conf_seqn[r], hop_nr[r]))
  /\ flg_conf' = [flg_conf EXCEPT ![r] = FALSE]
  /\ UNCHANGED <<hop_nr, conf_seqn, aggVars, ackVars, timerVars>>

SendAggData(r, to) ==
  /\ et_rnd[r]
  /\ ~flg_conf[r]
  /\ flg_agg_send(r)
  /\ Transmit(r, to, AggData(agg_data_to_be_sent[r]))
  /\ UNCHANGED relayVars

\* Mutant of ForwardAggData: the slot is freed when the packet has been sent
\* (line 276, commented out in the source).
ForwardAggDataOnce(r, to) ==
  /\ et_rnd[r]
  /\ ~flg_conf[r]
  /\ ~flg_agg_send(r)
  /\ flg_agg_fwd(r)
  /\ Transmit(r, to, AggData(agg_data_fwd[r]))
  /\ agg_data_fwd' = [agg_data_fwd EXCEPT ![r] = NoPacket]
  /\ UNCHANGED <<routeVars, agg_data_buffer, agg_data_to_be_sent, built, ackVars, timerVars>>

ForwardAggData(r, to) ==
  /\ et_rnd[r]
  /\ ~flg_conf[r]
  /\ ~flg_agg_send(r)
  /\ flg_agg_fwd(r)
  /\ Transmit(r, to, AggData(agg_data_fwd[r]))
  /\ UNCHANGED relayVars

\* Nothing to send: the timer is not set again.
BroadcastIdle(r) ==
  /\ et_rnd[r]
  /\ ~flg_conf[r]
  /\ ~flg_agg_send(r)
  /\ ~flg_agg_fwd(r)
  /\ et_rnd' = [et_rnd EXCEPT ![r] = FALSE]
  /\ UNCHANGED <<air, routeVars, aggVars, ackVars, et_rnd_ack>>

-----------------------------------------------------------------------------
(* unicast_process, woken by et_rnd_ack *)

SendAckAgg(r, to) ==
  /\ et_rnd_ack[r]
  /\ flg_ack_agg(r)
  /\ Transmit(r, to, AckAgg(ack_agg_fwd[r]))
  /\ ack_agg_fwd' = [ack_agg_fwd EXCEPT ![r] = NoAck]
  /\ UNCHANGED <<routeVars, aggVars, sensor_ack_list, timerVars>>

\* The acknowledgement leaves for a sensor node, outside this module.
SendAckSensor(r) ==
  /\ et_rnd_ack[r]
  /\ ~flg_ack_agg(r)
  /\ sensor_ack_list[r] # << >>
  /\ sensor_ack_list' = [sensor_ack_list EXCEPT ![r] = Tail(@)]
  /\ UNCHANGED <<air, routeVars, aggVars, ack_agg_fwd, timerVars>>

UnicastIdle(r) ==
  /\ et_rnd_ack[r]
  /\ ~flg_ack_agg(r)
  /\ sensor_ack_list[r] = << >>
  /\ et_rnd_ack' = [et_rnd_ack EXCEPT ![r] = FALSE]
  /\ UNCHANGED <<air, routeVars, aggVars, ackVars, et_rnd>>

-----------------------------------------------------------------------------
\* A relay is switched off and on: all its state is in RAM, its seqno included,
\* and starts from the initial values of the static variables.
Restart(r) ==
  /\ r \in Restarts
  /\ hop_nr' = [hop_nr EXCEPT ![r] = HOP_NR_INITIAL]
  /\ conf_seqn' = [conf_seqn EXCEPT ![r] = 0]
  /\ flg_conf' = [flg_conf EXCEPT ![r] = FALSE]
  /\ agg_data_buffer' = [agg_data_buffer EXCEPT ![r] = << >>]
  /\ agg_data_to_be_sent' = [agg_data_to_be_sent EXCEPT ![r] = NoPacket]
  /\ agg_data_fwd' = [agg_data_fwd EXCEPT ![r] = NoPacket]
  /\ ack_agg_fwd' = [ack_agg_fwd EXCEPT ![r] = NoAck]
  /\ sensor_ack_list' = [sensor_ack_list EXCEPT ![r] = << >>]
  /\ et_rnd' = [et_rnd EXCEPT ![r] = FALSE]
  /\ et_rnd_ack' = [et_rnd_ack EXCEPT ![r] = FALSE]
  /\ built' = [built EXCEPT ![r] = << >>]
  /\ UNCHANGED air

SensorStep(r) == RefuseSensorData(r) \/ \E q \in Reading : StoreSensorData(r, q)

ReceiveStep(r, f) ==
  RecvHopConf(r, f) \/ TakeAggData(r, f) \/ IgnoreAggData(r, f) \/ RecvAckAgg(r, f)

BroadcastStep(r, to) == SendConf(r, to) \/ SendAggData(r, to) \/ ForwardAggData(r, to)

\* A unicast frame reaches its destination or nobody.
SendAckStep(r) ==
  \E to \in SUBSET ({ack_agg_fwd[r].dest} \cap Link[r]) : SendAckAgg(r, to)

RelayStep(r) ==
  \/ SensorStep(r)
  \/ \E f \in FrameId : ReceiveStep(r, f)
  \/ \E to \in SUBSET Link[r] : BroadcastStep(r, to)
  \/ BroadcastIdle(r)
  \/ SendAckStep(r) \/ SendAckSensor(r) \/ UnicastIdle(r)
  \/ Restart(r)
=============================================================================
