------------------------- MODULE CattleNetworkProofs -------------------------
(***************************************************************************)
(* Proofs about CattleNetwork for every set of relays, every topology and  *)
(* every value of the other constants.                                     *)
(***************************************************************************)
EXTENDS CattleNetwork, TLAPS, FiniteSetTheorems, SequenceTheorems

USE NodeAssumption, LinkAssumption, ReadingAssumption, HopAssumption,
    BuiltAssumption, RestartAssumption, RoundAssumption

-----------------------------------------------------------------------------
(* Frames *)

AirType == air \in [FrameId -> Frame \cup {NoFrame}]

LEMMA BodyTypes ==
  /\ \A s \in 0 .. ConfMod - 1, h \in Nat : HopConf(s, h) \in Body
  /\ \A p \in Packet : AggData(p) \in Body
  /\ \A a \in Ack : AckAgg(a) \in Body
BY DEF Body, HopConf, AggData, AckAgg, Packet, Ack

LEMMA EmptySlots ==
  NoPacket \notin Packet /\ NoAck \notin Ack
BY DEF NoPacket, NoAck, Packet, Ack

\* What a body holds, by its type.
LEMMA BodyFields ==
  ASSUME NEW m \in Body
  PROVE  /\ m.type \in {"HOP_CONF", "AGGREGATED_DATA", "ACK_AGG"}
         /\ m.type = "HOP_CONF" => m.seqn \in 0 .. ConfMod - 1 /\ m.hop_nr \in Nat
         /\ m.type = "AGGREGATED_DATA" =>
              m.address \in Relay /\ m.seqno \in Nat /\ m.hop_nr \in Nat
         /\ m.type = "ACK_AGG" => m.address \in Relay /\ m.seqno \in Nat
BY DEF Body

\* A transmission changes at most one place on the air, which was free.
LEMMA TransmitFrames ==
  ASSUME AirType, NEW src \in Node, NEW to \in SUBSET Node, NEW body \in Body,
         Transmit(src, to, body)
  PROVE  /\ AirType'
         /\ \/ air' = air
            \/ \E f \in FrameId :
                 /\ air[f] = NoFrame
                 /\ air'[f] = [src |-> src, to |-> to, body |-> body]
                 /\ \A g \in FrameId \ {f} : air'[g] = air[g]
<1>1. CASE to = {}
  BY <1>1 DEF Transmit, AirType
<1>2. CASE to # {}
  <2>1. PICK f \in FrameId :
          /\ air[f] = NoFrame
          /\ air' = [air EXCEPT ![f] = [src |-> src, to |-> to, body |-> body]]
    BY <1>2 DEF Transmit
  <2>2. [src |-> src, to |-> to, body |-> body] \in Frame
    BY <1>2 DEF Frame
  <2>3. QED BY <2>1, <2>2 DEF AirType
<1>3. QED BY <1>1, <1>2

\* A reception leaves every frame as it is, except for its receivers.
LEMMA ReceiveFrames ==
  ASSUME AirType, NEW n \in Node, NEW f \in FrameId, Receive(n, f)
  PROVE  /\ AirType'
         /\ air[f] \in Frame
         /\ n \in air[f].to
         /\ \A g \in FrameId :
              \/ air'[g] = NoFrame
              \/ /\ air'[g].body = air[g].body
                 /\ air'[g].src = air[g].src
                 /\ air'[g].to \subseteq air[g].to
<1>1. air[f] \in Frame /\ n \in air[f].to
  BY DEF AirType, Receive, NoFrame
<1>2. CASE air' = air
  BY <1>1, <1>2 DEF AirType
<1>3. CASE Consume(n, f)
  <2> DEFINE rest == [src |-> air[f].src, to |-> air[f].to \ {n}, body |-> air[f].body]
  <2>1. rest.body = air[f].body /\ rest.src = air[f].src /\ rest.to = air[f].to \ {n}
    OBVIOUS
  <2>2. air[f].to # {n} => rest \in Frame
    BY <1>1 DEF Frame
  <2>3. air' = [air EXCEPT ![f] = IF air[f].to = {n} THEN NoFrame ELSE rest]
    BY <1>3 DEF Consume
  <2> HIDE DEF rest
  <2>4. QED BY <1>1, <2>1, <2>2, <2>3 DEF AirType
<1>4. QED BY <1>2, <1>3 DEF Receive
-----------------------------------------------------------------------------
(* Type correctness *)

\* Aggregated data is only sent by relays: the receiver's acknowledgement is
\* addressed to one.
DataFromRelay ==
  \A f \in FrameId : air[f].body.type = "AGGREGATED_DATA" => air[f].src \in Relay

NetType == TypeOK /\ DataFromRelay

\* The part of TypeOK about the relays.
RelayType ==
  /\ hop_nr \in [Relay -> Nat]
  /\ conf_seqn \in [Relay -> 0 .. ConfMod - 1]
  /\ flg_conf \in [Relay -> BOOLEAN]
  /\ agg_data_buffer \in [Relay -> Seq(Reading)]
  /\ agg_data_to_be_sent \in [Relay -> Packet \cup {NoPacket}]
  /\ agg_data_fwd \in [Relay -> Packet \cup {NoPacket}]
  /\ ack_agg_fwd \in [Relay -> Ack \cup {NoAck}]
  /\ sensor_ack_list \in [Relay -> Seq(Reading)]
  /\ et_rnd \in [Relay -> BOOLEAN]
  /\ et_rnd_ack \in [Relay -> BOOLEAN]
  /\ built \in [Relay -> Seq(Seq(Reading))]

BaseType ==
  /\ base_conf_seqn \in 0 .. ConfMod - 1
  /\ base_ack \in Ack \cup {NoAck}
  /\ base_et_rnd_ack \in BOOLEAN
  /\ received \in SUBSET (Relay \X Nat)

LEMMA TypeParts == TypeOK <=> AirType /\ RelayType /\ BaseType
BY DEF TypeOK, AirType, RelayType, BaseType

LEMMA InitType == Init => NetType
<1> SUFFICES ASSUME Init PROVE NetType
  OBVIOUS
<1> USE DEF Init, RadioInit, RelayInit, BaseInit
<1>1. AirType /\ DataFromRelay
  BY DEF AirType, DataFromRelay, NoFrame
<1>2. RelayType
  BY DEF RelayType
<1>3. /\ base_conf_seqn = 0 /\ base_ack = NoAck
      /\ base_et_rnd_ack = FALSE /\ received = {}
  OBVIOUS
<1>4. base_conf_seqn \in 0 .. ConfMod - 1
  BY <1>3
<1> HIDE DEF Init, RadioInit, RelayInit, BaseInit
<1>5. BaseType
  BY <1>3, <1>4 DEF BaseType
<1>6. QED BY <1>1, <1>2, <1>5, TypeParts DEF NetType

LEMMA TransmitType ==
  ASSUME NetType, NEW src \in Node, NEW to \in SUBSET Node, NEW body \in Body,
         Transmit(src, to, body), body.type = "AGGREGATED_DATA" => src \in Relay
  PROVE  AirType' /\ DataFromRelay'
<1>1. AirType
  BY TypeParts DEF NetType
<1>2. AirType'
  BY <1>1, TransmitFrames
<1>3. CASE air' = air
  BY <1>2, <1>3 DEF NetType, DataFromRelay
<1>4. CASE \E f \in FrameId :
         /\ air[f] = NoFrame
         /\ air'[f] = [src |-> src, to |-> to, body |-> body]
         /\ \A g \in FrameId \ {f} : air'[g] = air[g]
  BY <1>2, <1>4 DEF NetType, DataFromRelay
<1>5. QED BY <1>1, <1>2, <1>3, <1>4, TransmitFrames

LEMMA ReceiveType ==
  ASSUME NetType, NEW n \in Node, NEW f \in FrameId, Receive(n, f)
  PROVE  /\ AirType' /\ DataFromRelay'
         /\ air[f] \in Frame /\ air[f].src \in Node /\ air[f].body \in Body
<1>1. AirType
  BY TypeParts DEF NetType
<1>2. /\ AirType'
      /\ air[f] \in Frame
      /\ \A g \in FrameId :
           \/ air'[g] = NoFrame
           \/ air'[g].body = air[g].body /\ air'[g].src = air[g].src
  BY <1>1, ReceiveFrames
<1>3. DataFromRelay'
  BY <1>2 DEF NetType, DataFromRelay, NoFrame
<1>4. QED BY <1>2, <1>3 DEF Frame

LEMMA BuildType ==
  ASSUME RelayType, NEW r \in Relay, NEW buffer \in Seq(Reading), BuildPacket(r, buffer)
  PROVE  /\ agg_data_buffer' \in [Relay -> Seq(Reading)]
         /\ agg_data_to_be_sent' \in [Relay -> Packet \cup {NoPacket}]
         /\ built' \in [Relay -> Seq(Seq(Reading))]
         /\ et_rnd' \in [Relay -> BOOLEAN]
<1>1. CASE Len(buffer) = SENSOR_DATA_PER_PACKET /\ ~flg_agg_send(r)
  <2> DEFINE p == [address |-> r, seqno |-> Len(built[r]), hop_nr |-> hop_nr[r]]
  <2>1. p \in Packet
    BY DEF RelayType, Packet
  <2>2. Append(built[r], buffer) \in Seq(Seq(Reading))
    BY DEF RelayType
  <2> HIDE DEF p
  <2>3. /\ agg_data_to_be_sent' = [agg_data_to_be_sent EXCEPT ![r] = p]
        /\ built' = [built EXCEPT ![r] = Append(built[r], buffer)]
        /\ agg_data_buffer' = [agg_data_buffer EXCEPT ![r] = << >>]
        /\ et_rnd' = [et_rnd EXCEPT ![r] = TRUE]
    BY <1>1 DEF BuildPacket, Arm, p
  <2>4. QED BY <2>1, <2>2, <2>3 DEF RelayType
<1>2. CASE ~(Len(buffer) = SENSOR_DATA_PER_PACKET /\ ~flg_agg_send(r))
  <2>1. /\ agg_data_buffer' = [agg_data_buffer EXCEPT ![r] = buffer]
        /\ UNCHANGED <<agg_data_to_be_sent, built, et_rnd>>
    BY <1>2 DEF BuildPacket
  <2>2. QED BY <2>1 DEF RelayType
<1>3. QED BY <1>1, <1>2

LEMMA SensorType ==
  ASSUME RelayType, NEW r \in Relay, SensorStep(r)
  PROVE  RelayType' /\ air' = air
<1>1. CASE RefuseSensorData(r)
  <2>1. agg_data_buffer[r] \in Seq(Reading) /\ BuildPacket(r, agg_data_buffer[r])
    BY <1>1 DEF RelayType, RefuseSensorData
  <2>2. QED BY <1>1, <2>1, BuildType DEF RelayType, RefuseSensorData, routeVars, ackVars
<1>2. ASSUME NEW q \in Reading, StoreSensorData(r, q)
      PROVE  RelayType' /\ air' = air
  <2>1. /\ Append(agg_data_buffer[r], q) \in Seq(Reading)
        /\ BuildPacket(r, Append(agg_data_buffer[r], q))
    BY <1>2 DEF RelayType, StoreSensorData
  <2>2. sensor_ack_list' \in [Relay -> Seq(Reading)]
    BY <1>2 DEF RelayType, StoreSensorData, QueueSensorAck
  <2>3. et_rnd_ack' \in [Relay -> BOOLEAN]
    BY <1>2 DEF RelayType, StoreSensorData, Arm
  <2>4. QED BY <1>2, <2>1, <2>2, <2>3, BuildType DEF RelayType, StoreSensorData, routeVars
<1>3. QED BY <1>1, <1>2 DEF SensorStep

LEMMA ReceiveStepType ==
  ASSUME NetType, NEW r \in Relay, NEW f \in FrameId, ReceiveStep(r, f)
  PROVE  RelayType' /\ AirType' /\ DataFromRelay'
<1>1. Receive(r, f) /\ r \in Node
  BY DEF ReceiveStep, RecvHopConf, TakeAggData, IgnoreAggData, RecvAckAgg, Node
<1>2. /\ AirType' /\ DataFromRelay'
      /\ air[f] \in Frame /\ air[f].src \in Node /\ air[f].body \in Body
  BY <1>1, ReceiveType
<1>3. RelayType
  BY TypeParts DEF NetType
<1>4. CASE RecvHopConf(r, f)
  <2>1. air[f].body.seqn \in 0 .. ConfMod - 1 /\ air[f].body.hop_nr \in Nat
    BY <1>2, <1>4, BodyFields DEF RecvHopConf
  <2> DEFINE m == air[f].body
             known == IF conf_seqn[r] # m.seqn THEN HOP_NR_INITIAL ELSE hop_nr[r]
             closer == known > m.hop_nr + 1
             hop == IF closer THEN m.hop_nr + 1 ELSE known
  <2>2. hop \in Nat
    BY <1>3, <2>1 DEF RelayType
  <2>3. /\ conf_seqn' = [conf_seqn EXCEPT ![r] = m.seqn]
        /\ hop_nr' = [hop_nr EXCEPT ![r] = hop]
        /\ flg_conf' = [flg_conf EXCEPT ![r] = flg_conf[r] \/ closer]
        /\ et_rnd' = [et_rnd EXCEPT ![r] = TRUE]
        /\ UNCHANGED <<aggVars, ackVars, et_rnd_ack>>
    BY <1>4 DEF RecvHopConf, Arm
  <2>4. (flg_conf[r] \/ closer) \in BOOLEAN
    OBVIOUS
  <2> HIDE DEF hop, closer
  <2>5. QED BY <1>2, <1>3, <2>1, <2>2, <2>3, <2>4 DEF RelayType, aggVars, ackVars
<1>5. CASE TakeAggData(r, f)
  <2> DEFINE p == [address |-> air[f].body.address, seqno |-> air[f].body.seqno,
                   hop_nr |-> hop_nr[r]]
             a == [address |-> air[f].body.address, seqno |-> air[f].body.seqno,
                   dest |-> air[f].src]
  <2>1. /\ air[f].body.address \in Relay /\ air[f].body.seqno \in Nat
        /\ air[f].src \in Relay
    BY <1>2, <1>5, BodyFields DEF TakeAggData, NetType, DataFromRelay
  <2>2. p \in Packet /\ a \in Ack
    BY <1>3, <2>1 DEF Packet, Ack, RelayType
  <2>3. /\ agg_data_fwd' = [agg_data_fwd EXCEPT ![r] = p]
        /\ ack_agg_fwd' = [ack_agg_fwd EXCEPT ![r] = a]
        /\ et_rnd' = [et_rnd EXCEPT ![r] = TRUE]
        /\ et_rnd_ack' = [et_rnd_ack EXCEPT ![r] = TRUE]
        /\ UNCHANGED <<routeVars, agg_data_buffer, agg_data_to_be_sent, built, sensor_ack_list>>
    BY <1>5 DEF TakeAggData, Arm
  <2> HIDE DEF p, a
  <2>4. QED BY <1>2, <1>3, <2>2, <2>3 DEF RelayType, routeVars
<1>6. CASE IgnoreAggData(r, f)
  BY <1>2, <1>3, <1>6
     DEF RelayType, IgnoreAggData, relayVars, routeVars, aggVars, ackVars, timerVars
<1>7. CASE RecvAckAgg(r, f)
  BY <1>2, <1>3, <1>7 DEF RelayType, RecvAckAgg, routeVars, ackVars, timerVars
<1>8. QED BY <1>2, <1>4, <1>5, <1>6, <1>7 DEF ReceiveStep

LEMMA SendStepType ==
  ASSUME NetType, NEW r \in Relay,
         \/ \E to \in SUBSET Link[r] : BroadcastStep(r, to)
         \/ SendAckStep(r)
  PROVE  RelayType' /\ AirType' /\ DataFromRelay'
<1>1. RelayType
  BY TypeParts DEF NetType
<1>2. r \in Node /\ Link[r] \subseteq Node
  BY DEF Node
<1>3. ASSUME NEW to \in SUBSET Link[r], SendConf(r, to)
      PROVE  RelayType' /\ AirType' /\ DataFromRelay'
  <2>1. HopConf(conf_seqn[r], hop_nr[r]) \in Body
    BY <1>1, BodyTypes DEF RelayType
  <2>2. AirType' /\ DataFromRelay'
    BY <1>2, <1>3, <2>1, TransmitType DEF SendConf, HopConf
  <2>3. RelayType'
    BY <1>1, <1>3 DEF RelayType, SendConf, aggVars, ackVars, timerVars
  <2>4. QED BY <2>2, <2>3
<1>4. ASSUME NEW to \in SUBSET Link[r], SendAggData(r, to) \/ ForwardAggData(r, to)
      PROVE  RelayType' /\ AirType' /\ DataFromRelay'
  <2>1. PICK p \in Packet : Transmit(r, to, AggData(p))
    BY <1>1, <1>4 DEF RelayType, SendAggData, ForwardAggData, flg_agg_send, flg_agg_fwd
  <2>2. AirType' /\ DataFromRelay'
    BY <1>2, <2>1, BodyTypes, TransmitType
  <2>3. RelayType'
    BY <1>1, <1>4 DEF RelayType, SendAggData, ForwardAggData, relayVars, routeVars,
                      aggVars, ackVars, timerVars
  <2>4. QED BY <2>2, <2>3
<1>5. CASE SendAckStep(r)
  <2>1. PICK to \in SUBSET Link[r] : SendAckAgg(r, to)
    BY <1>5 DEF SendAckStep
  <2>2. ack_agg_fwd[r] \in Ack
    BY <1>1, <2>1 DEF RelayType, SendAckAgg, flg_ack_agg
  <2>3. AirType' /\ DataFromRelay'
    BY <1>2, <2>1, <2>2, BodyTypes, TransmitType DEF SendAckAgg, AckAgg
  <2>4. RelayType'
    BY <1>1, <2>1 DEF RelayType, SendAckAgg, routeVars, aggVars, timerVars
  <2>5. QED BY <2>3, <2>4
<1>6. QED BY <1>3, <1>4, <1>5 DEF BroadcastStep

LEMMA BaseStepType ==
  ASSUME NetType, BaseStep
  PROVE  BaseType' /\ AirType' /\ DataFromRelay'
<1>1. BaseType
  BY TypeParts DEF NetType
<1>2. Base \in Node /\ Link[Base] \subseteq Node
  BY DEF Node
<1>3. ASSUME NEW f \in FrameId, BaseRecvAggData(f)
      PROVE  BaseType' /\ AirType' /\ DataFromRelay'
  <2> DEFINE a == [address |-> air[f].body.address, seqno |-> air[f].body.seqno,
                   dest |-> air[f].src]
  <2>1. /\ AirType' /\ DataFromRelay'
        /\ air[f].body \in Body
    BY <1>2, <1>3, ReceiveType DEF BaseRecvAggData
  <2>2. /\ air[f].body.address \in Relay /\ air[f].body.seqno \in Nat
        /\ air[f].src \in Relay
    BY <1>3, <2>1, BodyFields DEF BaseRecvAggData, NetType, DataFromRelay
  <2>3. a \in Ack /\ Id(air[f].body) \in Relay \X Nat
    BY <2>2 DEF Ack, Id
  <2>4. /\ base_ack' = a /\ base_et_rnd_ack' = TRUE
        /\ received' = received \cup {Id(air[f].body)}
        /\ UNCHANGED base_conf_seqn
    BY <1>3 DEF BaseRecvAggData
  <2> HIDE DEF a
  <2>5. QED BY <1>1, <2>1, <2>3, <2>4 DEF BaseType
<1>4. ASSUME NEW f \in FrameId, BaseIgnore(f)
      PROVE  BaseType' /\ AirType' /\ DataFromRelay'
  BY <1>1, <1>2, <1>4, ReceiveType DEF BaseIgnore, BaseType, baseVars
<1>5. ASSUME NEW to \in SUBSET Link[Base], Round(to)
      PROVE  BaseType' /\ AirType' /\ DataFromRelay'
  <2>1. base_conf_seqn' \in 0 .. ConfMod - 1
    BY <1>1, <1>5 DEF Round, StartRound, BaseType
  <2>2. HopConf(base_conf_seqn', 0) \in Body
    BY <2>1, BodyTypes
  <2>3. AirType' /\ DataFromRelay'
    BY <1>2, <1>5, <2>2, TransmitType DEF Round, StartRound, HopConf
  <2>4. QED BY <1>1, <1>5, <2>1, <2>3 DEF Round, StartRound, BaseType
<1>6. CASE BaseAckStep
  <2>1. PICK to \in SUBSET Link[Base] : BaseSendAck(to)
    BY <1>6 DEF BaseAckStep
  <2>2. AckAgg(base_ack) \in Body
    BY <1>1, <2>1, BodyTypes DEF BaseSendAck, BaseType
  <2>3. AirType' /\ DataFromRelay'
    BY <1>2, <2>1, <2>2, TransmitType DEF BaseSendAck, AckAgg
  <2>4. QED BY <1>1, <2>1, <2>3 DEF BaseSendAck, BaseType
<1>7. CASE BaseIdle
  BY <1>1, <1>7, TypeParts DEF BaseIdle, BaseType, NetType, AirType, DataFromRelay
<1>8. QED BY <1>3, <1>4, <1>5, <1>6, <1>7 DEF BaseStep

LEMMA LocalStepType ==
  ASSUME RelayType, NEW r \in Relay,
         BroadcastIdle(r) \/ SendAckSensor(r) \/ UnicastIdle(r) \/ Restart(r)
  PROVE  RelayType' /\ air' = air
<1>1. CASE BroadcastIdle(r)
  BY <1>1 DEF BroadcastIdle, RelayType, routeVars, aggVars, ackVars
<1>2. CASE SendAckSensor(r)
  <2>1. Tail(sensor_ack_list[r]) \in Seq(Reading)
    BY <1>2, HeadTailProperties DEF SendAckSensor, RelayType
  <2>2. QED BY <1>2, <2>1 DEF SendAckSensor, RelayType, routeVars, aggVars, timerVars
<1>3. CASE UnicastIdle(r)
  BY <1>3 DEF UnicastIdle, RelayType, routeVars, aggVars, ackVars
<1>4. CASE Restart(r)
  <2>1. HOP_NR_INITIAL \in Nat /\ 0 \in 0 .. ConfMod - 1
    OBVIOUS
  <2>2. << >> \in Seq(Reading) /\ << >> \in Seq(Seq(Reading))
    OBVIOUS
  <2>3. QED BY <1>4, <2>1, <2>2 DEF Restart, RelayType
<1>5. QED BY <1>1, <1>2, <1>3, <1>4

LEMMA StepType == NetType /\ [Next]_vars => NetType'
<1> SUFFICES ASSUME NetType, [Next]_vars PROVE NetType'
  OBVIOUS
<1>1. AirType /\ RelayType /\ BaseType /\ DataFromRelay
  BY TypeParts DEF NetType
<1>2. SUFFICES AirType' /\ RelayType' /\ BaseType' /\ DataFromRelay'
  BY TypeParts, PTL DEF NetType
<1>3. ASSUME NEW r \in Relay, RelayStep(r), UNCHANGED baseVars
      PROVE  AirType' /\ RelayType' /\ BaseType' /\ DataFromRelay'
  <2>1. BaseType'
    BY <1>1, <1>3 DEF BaseType, baseVars
  <2>2. CASE SensorStep(r) \/ BroadcastIdle(r) \/ SendAckSensor(r) \/ UnicastIdle(r) \/ Restart(r)
    <3>1. RelayType' /\ air' = air
      BY <1>1, <2>2, SensorType, LocalStepType
    <3>2. QED BY <1>1, <2>1, <3>1 DEF AirType, DataFromRelay
  <2>3. CASE \E f \in FrameId : ReceiveStep(r, f)
    BY <2>1, <2>3, ReceiveStepType
  <2>4. CASE (\E to \in SUBSET Link[r] : BroadcastStep(r, to)) \/ SendAckStep(r)
    BY <2>1, <2>4, SendStepType
  <2>5. QED BY <1>3, <2>2, <2>3, <2>4 DEF RelayStep
<1>4. CASE BaseStep /\ UNCHANGED relayVars
  <2>1. RelayType'
    BY <1>1, <1>4 DEF RelayType, relayVars, routeVars, aggVars, ackVars, timerVars
  <2>2. QED BY <1>4, <2>1, BaseStepType
<1>5. CASE UNCHANGED vars
  <2>1. UNCHANGED air /\ UNCHANGED relayVars /\ UNCHANGED baseVars
    BY <1>5 DEF vars
  <2>2. RelayType'
    BY <1>1, <2>1 DEF RelayType, relayVars, routeVars, aggVars, ackVars, timerVars
  <2>3. BaseType'
    BY <1>1, <2>1 DEF BaseType, baseVars
  <2>4. QED BY <1>1, <2>1, <2>2, <2>3 DEF AirType, DataFromRelay
<1>6. QED BY <1>3, <1>4, <1>5 DEF Next

\* The variables of the network keep their types, and aggregated data is only sent by
\* relays: the network's type invariant for every topology.
THEOREM TypeCorrect == Spec => [](TypeOK /\ DataFromRelay)
<1>1. Spec => []NetType
  BY InitType, StepType, PTL DEF Spec
<1>2. QED BY <1>1, PTL DEF NetType

-----------------------------------------------------------------------------
(* Waiting work has a timer *)

\* A step of one relay leaves the others alone.
LEMMA OneRelay ==
  ASSUME RelayType, NEW r \in Relay, RelayStep(r), NEW s \in Relay \ {r}
  PROVE  /\ hop_nr'[s] = hop_nr[s] /\ conf_seqn'[s] = conf_seqn[s]
         /\ flg_conf'[s] = flg_conf[s]
         /\ agg_data_buffer'[s] = agg_data_buffer[s]
         /\ agg_data_to_be_sent'[s] = agg_data_to_be_sent[s]
         /\ agg_data_fwd'[s] = agg_data_fwd[s]
         /\ ack_agg_fwd'[s] = ack_agg_fwd[s]
         /\ sensor_ack_list'[s] = sensor_ack_list[s]
         /\ et_rnd'[s] = et_rnd[s] /\ et_rnd_ack'[s] = et_rnd_ack[s]
         /\ built'[s] = built[s]
<1> USE DEF RelayType, relayVars, routeVars, aggVars, ackVars, timerVars
<1>1. CASE SensorStep(r)
  <2>1. ASSUME NEW buffer, BuildPacket(r, buffer)
        PROVE  /\ agg_data_buffer'[s] = agg_data_buffer[s]
               /\ agg_data_to_be_sent'[s] = agg_data_to_be_sent[s]
               /\ et_rnd'[s] = et_rnd[s] /\ built'[s] = built[s]
    BY <2>1 DEF BuildPacket, Arm
  <2>2. ASSUME NEW q, QueueSensorAck(r, q)
        PROVE  sensor_ack_list'[s] = sensor_ack_list[s]
    BY <2>2 DEF QueueSensorAck
  <2>3. CASE RefuseSensorData(r)
    <3>1. BuildPacket(r, agg_data_buffer[r])
      BY <2>3 DEF RefuseSensorData
    <3>2. QED BY <2>1, <2>3, <3>1 DEF RefuseSensorData
  <2>4. ASSUME NEW q \in Reading, StoreSensorData(r, q)
        PROVE  et_rnd_ack'[s] = et_rnd_ack[s] /\ UNCHANGED <<routeVars, agg_data_fwd, ack_agg_fwd>>
    BY <2>4 DEF StoreSensorData, Arm
  <2>5. QED BY <1>1, <2>1, <2>2, <2>3, <2>4 DEF SensorStep, StoreSensorData
<1>2. CASE \E f \in FrameId : ReceiveStep(r, f)
  <2>1. PICK f \in FrameId : ReceiveStep(r, f)
    BY <1>2
  <2>2. CASE RecvHopConf(r, f)
    BY <2>2 DEF RecvHopConf, Arm
  <2>3. CASE TakeAggData(r, f)
    BY <2>3 DEF TakeAggData, Arm
  <2>4. CASE IgnoreAggData(r, f)
    BY <2>4 DEF IgnoreAggData
  <2>5. CASE RecvAckAgg(r, f)
    BY <2>5 DEF RecvAckAgg
  <2>6. QED BY <2>1, <2>2, <2>3, <2>4, <2>5 DEF ReceiveStep
<1>3. CASE \E to \in SUBSET Link[r] : BroadcastStep(r, to)
  BY <1>3 DEF BroadcastStep, SendConf, SendAggData, ForwardAggData
<1>4. CASE BroadcastIdle(r)
  BY <1>4 DEF BroadcastIdle
<1>5. CASE SendAckStep(r) \/ SendAckSensor(r) \/ UnicastIdle(r)
  BY <1>5 DEF SendAckStep, SendAckAgg, SendAckSensor, UnicastIdle
<1>6. CASE Restart(r)
  BY <1>6 DEF Restart
<1>7. QED BY <1>1, <1>2, <1>3, <1>4, <1>5, <1>6 DEF RelayStep

Armed(r) ==
  /\ flg_conf[r] \/ flg_agg_send(r) \/ flg_agg_fwd(r) => et_rnd[r]
  /\ flg_ack_agg(r) \/ sensor_ack_list[r] # << >> => et_rnd_ack[r]

LEMMA BuildArms ==
  ASSUME RelayType, NEW r \in Relay, NEW buffer \in Seq(Reading), BuildPacket(r, buffer),
         Armed(r), UNCHANGED <<flg_conf, agg_data_fwd>>
  PROVE  (flg_conf[r] \/ flg_agg_send(r) \/ flg_agg_fwd(r) => et_rnd[r])'
<1>1. CASE Len(buffer) = SENSOR_DATA_PER_PACKET /\ ~flg_agg_send(r)
  BY <1>1 DEF BuildPacket, Arm, RelayType
<1>2. CASE ~(Len(buffer) = SENSOR_DATA_PER_PACKET /\ ~flg_agg_send(r))
  <2>1. UNCHANGED <<agg_data_to_be_sent, et_rnd>>
    BY <1>2 DEF BuildPacket
  <2>2. QED BY <2>1 DEF Armed, flg_agg_send, flg_agg_fwd
<1>3. QED BY <1>1, <1>2

LEMMA StepArmed ==
  ASSUME RelayType, NEW r \in Relay, RelayStep(r), Armed(r)
  PROVE  Armed(r)'
<1>1. CASE RefuseSensorData(r)
  <2>1. agg_data_buffer[r] \in Seq(Reading) /\ BuildPacket(r, agg_data_buffer[r])
        /\ UNCHANGED <<flg_conf, agg_data_fwd, ack_agg_fwd, sensor_ack_list, et_rnd_ack>>
    BY <1>1 DEF RefuseSensorData, RelayType, routeVars, ackVars
  <2>2. QED BY <2>1, BuildArms DEF Armed, flg_ack_agg
<1>2. ASSUME NEW q \in Reading, StoreSensorData(r, q)
      PROVE  Armed(r)'
  <2>1. /\ Append(agg_data_buffer[r], q) \in Seq(Reading)
        /\ BuildPacket(r, Append(agg_data_buffer[r], q))
        /\ UNCHANGED <<flg_conf, agg_data_fwd>>
        /\ et_rnd_ack'[r]
    BY <1>2 DEF StoreSensorData, RelayType, routeVars, Arm
  <2>2. QED BY <2>1, BuildArms DEF Armed
<1>3. ASSUME NEW f \in FrameId, ReceiveStep(r, f)
      PROVE  Armed(r)'
  <2>1. CASE RecvHopConf(r, f)
    <3>1. et_rnd'[r] /\ UNCHANGED <<ack_agg_fwd, sensor_ack_list, et_rnd_ack>>
      BY <2>1 DEF RecvHopConf, Arm, ackVars, RelayType
    <3>2. QED BY <3>1 DEF Armed, flg_ack_agg
  <2>2. CASE TakeAggData(r, f)
    BY <2>2 DEF TakeAggData, Arm, Armed, RelayType
  <2>3. CASE IgnoreAggData(r, f)
    BY <2>3 DEF IgnoreAggData, Armed, flg_agg_send, flg_agg_fwd, flg_ack_agg, relayVars,
                routeVars, aggVars, ackVars, timerVars
  <2>4. CASE RecvAckAgg(r, f)
    <3>1. /\ agg_data_to_be_sent'[r] \in {agg_data_to_be_sent[r], NoPacket}
          /\ agg_data_fwd'[r] \in {agg_data_fwd[r], NoPacket}
          /\ UNCHANGED <<flg_conf, ack_agg_fwd, sensor_ack_list, et_rnd, et_rnd_ack>>
      BY <2>4 DEF RecvAckAgg, RelayType, routeVars, ackVars, timerVars
    <3>2. QED BY <3>1 DEF Armed, flg_agg_send, flg_agg_fwd, flg_ack_agg
  <2>5. QED BY <1>3, <2>1, <2>2, <2>3, <2>4 DEF ReceiveStep
<1>4. ASSUME NEW to \in SUBSET Link[r], BroadcastStep(r, to)
      PROVE  Armed(r)'
  BY <1>4 DEF BroadcastStep, SendConf, SendAggData, ForwardAggData, Armed, flg_agg_send,
              flg_agg_fwd, flg_ack_agg, relayVars, routeVars, aggVars, ackVars, timerVars, RelayType
<1>5. CASE BroadcastIdle(r)
  BY <1>5 DEF BroadcastIdle, Armed, flg_agg_send, flg_agg_fwd, flg_ack_agg, routeVars,
              aggVars, ackVars
<1>6. CASE SendAckStep(r) \/ SendAckSensor(r)
  <2>1. /\ et_rnd_ack'[r]
        /\ UNCHANGED <<flg_conf, agg_data_to_be_sent, agg_data_fwd, et_rnd>>
    BY <1>6 DEF SendAckStep, SendAckAgg, SendAckSensor, routeVars, aggVars, timerVars
  <2>2. QED BY <2>1 DEF Armed, flg_agg_send, flg_agg_fwd
<1>7. CASE UnicastIdle(r)
  BY <1>7 DEF UnicastIdle, Armed, flg_agg_send, flg_agg_fwd, flg_ack_agg, routeVars,
              aggVars, ackVars
<1>8. CASE Restart(r)
  BY <1>8 DEF Restart, Armed, flg_agg_send, flg_agg_fwd, flg_ack_agg, RelayType
<1>9. QED BY <1>1, <1>2, <1>3, <1>4, <1>5, <1>6, <1>7, <1>8 DEF RelayStep, SensorStep

LEMMA StepTimers == NetType /\ TimersArmed /\ [Next]_vars => TimersArmed'
<1> SUFFICES ASSUME NetType, TimersArmed, [Next]_vars PROVE TimersArmed'
  OBVIOUS
<1>1. RelayType /\ \A r \in Relay : Armed(r)
  BY TypeParts DEF NetType, TimersArmed, Armed
<1>2. ASSUME NEW r \in Relay, RelayStep(r), UNCHANGED baseVars
      PROVE  TimersArmed'
  <2>1. Armed(r)'
    BY <1>1, <1>2, StepArmed
  <2>2. ASSUME NEW s \in Relay \ {r}
        PROVE  Armed(s)'
    BY <1>1, <1>2, OneRelay DEF Armed, flg_agg_send, flg_agg_fwd, flg_ack_agg
  <2>3. (base_ack # NoAck => base_et_rnd_ack)'
    BY <1>2 DEF TimersArmed, baseVars
  <2>4. QED BY <2>1, <2>2, <2>3 DEF TimersArmed, Armed
<1>3. CASE BaseStep /\ UNCHANGED relayVars
  <2>1. \A r \in Relay : Armed(r)'
    BY <1>1, <1>3 DEF Armed, flg_agg_send, flg_agg_fwd, flg_ack_agg, relayVars, routeVars,
                     aggVars, ackVars, timerVars
  <2>2. (base_ack # NoAck => base_et_rnd_ack)'
    BY <1>3 DEF BaseStep, BaseRecvAggData, BaseIgnore, Round, StartRound, BaseAckStep,
                BaseSendAck, BaseIdle, baseVars, TimersArmed
  <2>3. QED BY <2>1, <2>2 DEF TimersArmed, Armed
<1>4. CASE UNCHANGED vars
  BY <1>4 DEF vars, TimersArmed, flg_agg_send, flg_agg_fwd, flg_ack_agg, relayVars,
              routeVars, aggVars, ackVars, timerVars, baseVars
<1>5. QED BY <1>2, <1>3, <1>4 DEF Next

\* Work that waits always has a timer running, at every relay and at the base
\* station: nothing is forgotten between a callback and its process.
THEOREM TimersStayArmed == Spec => []TimersArmed
<1>1. Init => TimersArmed
  BY DEF Init, RelayInit, BaseInit, TimersArmed, flg_agg_send, flg_agg_fwd, flg_ack_agg
<1>2. Spec => []NetType
  BY InitType, StepType, PTL DEF Spec
<1>3. QED BY <1>1, <1>2, StepTimers, PTL DEF Spec

-----------------------------------------------------------------------------
(* Hop numbers *)

\* A hop number on the air is no smaller than the distance of its sender, and is
\* heard in range of it.
FramesRouted ==
  \A f \in FrameId : air[f].body.type = "HOP_CONF" =>
    air[f].body.hop_nr >= Dist[air[f].src] /\ air[f].to \subseteq Link[air[f].src]

\* A relay that has yet to send its number may have been reset by another round
\* meanwhile; the number it then sends is still large enough.
Routed(r) ==
  /\ hop_nr[r] <= HOP_NR_INITIAL
  /\ hop_nr[r] = HOP_NR_INITIAL \/ hop_nr[r] >= Dist[r]
  /\ flg_conf[r] => HOP_NR_INITIAL > Dist[r]

RouteInv == FramesRouted /\ \A r \in Relay : Routed(r)

LEMMA DistFacts ==
  /\ \A n \in Node : Dist[n] \in Nat
  /\ Dist[Base] = 0
  /\ \A m \in Node : \A n \in Link[m] : n \in Node /\ Dist[n] <= Dist[m] + 1
BY DistAssumption DEF Node

LEMMA TransmitRouted ==
  ASSUME NetType, FramesRouted, NEW src \in Node, NEW to \in SUBSET Link[src],
         NEW body \in Body, Transmit(src, to, body),
         body.type = "HOP_CONF" => body.hop_nr >= Dist[src]
  PROVE  FramesRouted'
<1>1. AirType /\ to \in SUBSET Node
  BY TypeParts DEF NetType
<1>2. CASE air' = air
  BY <1>2 DEF FramesRouted
<1>3. CASE \E f \in FrameId :
         /\ air[f] = NoFrame
         /\ air'[f] = [src |-> src, to |-> to, body |-> body]
         /\ \A g \in FrameId \ {f} : air'[g] = air[g]
  BY <1>3 DEF FramesRouted
<1>4. QED BY <1>1, <1>2, <1>3, TransmitFrames

LEMMA ReceiveRouted ==
  ASSUME NetType, FramesRouted, NEW n \in Node, NEW f \in FrameId, Receive(n, f)
  PROVE  FramesRouted'
<1>1. AirType
  BY TypeParts DEF NetType
<1>2. \A g \in FrameId :
        \/ air'[g] = NoFrame
        \/ /\ air'[g].body = air[g].body
           /\ air'[g].src = air[g].src
           /\ air'[g].to \subseteq air[g].to
  BY <1>1, ReceiveFrames
<1>3. QED BY <1>2 DEF FramesRouted, NoFrame

\* The steps that neither take nor give a hop number.
LEMMA UnrelatedRouted ==
  ASSUME NEW r \in Relay, Routed(r), UNCHANGED routeVars
  PROVE  Routed(r)'
BY DEF Routed, routeVars

LEMMA HopConfRouted ==
  ASSUME NetType, FramesRouted, NEW r \in Relay, Routed(r), NEW f \in FrameId,
         RecvHopConf(r, f)
  PROVE  Routed(r)'
<1> DEFINE m == air[f].body
           known == IF conf_seqn[r] # m.seqn THEN HOP_NR_INITIAL ELSE hop_nr[r]
           closer == known > m.hop_nr + 1
<1>1. RelayType /\ AirType
  BY TypeParts DEF NetType
<1>2. /\ air[f] \in Frame /\ air[f].src \in Node /\ air[f].body \in Body
      /\ r \in air[f].to /\ r \in Node
  BY <1>1, ReceiveFrames DEF RecvHopConf, Frame, Node
<1>3. /\ m.hop_nr \in Nat
      /\ m.hop_nr >= Dist[air[f].src]
      /\ r \in Link[air[f].src]
  BY <1>2, BodyFields DEF RecvHopConf, FramesRouted
<1>4. /\ Dist[r] \in Nat /\ Dist[air[f].src] \in Nat
      /\ Dist[r] <= Dist[air[f].src] + 1
  BY <1>2, <1>3, DistFacts
<1>5. Dist[r] <= m.hop_nr + 1
  BY <1>3, <1>4
<1>6. /\ known \in Nat /\ known <= HOP_NR_INITIAL
      /\ known = HOP_NR_INITIAL \/ known >= Dist[r]
  BY <1>1 DEF Routed, RelayType
<1>7. /\ hop_nr'[r] = IF closer THEN m.hop_nr + 1 ELSE known
      /\ flg_conf'[r] = (flg_conf[r] \/ closer)
  BY <1>1 DEF RecvHopConf, RelayType
<1> HIDE DEF known
<1>8. closer => HOP_NR_INITIAL > Dist[r] /\ m.hop_nr + 1 <= HOP_NR_INITIAL
  BY <1>3, <1>4, <1>5, <1>6
<1>9. /\ hop_nr'[r] <= HOP_NR_INITIAL
      /\ hop_nr'[r] = HOP_NR_INITIAL \/ hop_nr'[r] >= Dist[r]
  BY <1>3, <1>5, <1>6, <1>7, <1>8
<1>10. flg_conf'[r] => HOP_NR_INITIAL > Dist[r]
  BY <1>7, <1>8 DEF Routed
<1>11. QED BY <1>9, <1>10 DEF Routed

LEMMA RelayStepRouted ==
  ASSUME NetType, FramesRouted, NEW r \in Relay, Routed(r), RelayStep(r)
  PROVE  FramesRouted' /\ Routed(r)'
<1>1. RelayType
  BY TypeParts DEF NetType
<1>2. r \in Node
  BY DEF Node
<1>3. CASE SensorStep(r) \/ BroadcastIdle(r) \/ SendAckSensor(r) \/ UnicastIdle(r)
  <2>1. UNCHANGED routeVars /\ UNCHANGED air
    BY <1>3 DEF SensorStep, RefuseSensorData, StoreSensorData, BroadcastIdle, SendAckSensor,
                UnicastIdle
  <2>2. QED BY <2>1, UnrelatedRouted DEF FramesRouted
<1>4. ASSUME NEW f \in FrameId, ReceiveStep(r, f)
      PROVE  FramesRouted' /\ Routed(r)'
  <2>1. Receive(r, f)
    BY <1>4 DEF ReceiveStep, RecvHopConf, TakeAggData, IgnoreAggData, RecvAckAgg
  <2>2. FramesRouted'
    BY <1>2, <2>1, ReceiveRouted
  <2>3. CASE RecvHopConf(r, f)
    BY <2>2, <2>3, HopConfRouted
  <2>4. CASE TakeAggData(r, f) \/ IgnoreAggData(r, f) \/ RecvAckAgg(r, f)
    BY <2>2, <2>4, UnrelatedRouted DEF TakeAggData, IgnoreAggData, RecvAckAgg, relayVars
  <2>5. QED BY <1>4, <2>3, <2>4 DEF ReceiveStep
<1>5. ASSUME NEW to \in SUBSET Link[r], SendConf(r, to)
      PROVE  FramesRouted' /\ Routed(r)'
  <2>1. HopConf(conf_seqn[r], hop_nr[r]) \in Body
    BY <1>1, BodyTypes DEF RelayType
  <2>2. hop_nr[r] \in Nat /\ Dist[r] \in Nat
    BY <1>1, <1>2, DistFacts DEF RelayType
  <2>3. hop_nr[r] >= Dist[r]
    BY <1>5, <2>2 DEF SendConf, Routed
  <2>4. FramesRouted'
    BY <1>2, <1>5, <2>1, <2>3, TransmitRouted DEF SendConf, HopConf
  <2>5. Routed(r)'
    BY <1>1, <1>5 DEF SendConf, Routed, RelayType
  <2>6. QED BY <2>4, <2>5
<1>6. ASSUME NEW to \in SUBSET Link[r], SendAggData(r, to) \/ ForwardAggData(r, to)
      PROVE  FramesRouted' /\ Routed(r)'
  <2>1. PICK p \in Packet : Transmit(r, to, AggData(p))
    BY <1>1, <1>6 DEF RelayType, SendAggData, ForwardAggData, flg_agg_send, flg_agg_fwd
  <2>2. FramesRouted'
    BY <1>2, <2>1, BodyTypes, TransmitRouted DEF AggData
  <2>3. QED BY <1>6, <2>2, UnrelatedRouted DEF SendAggData, ForwardAggData, relayVars
<1>7. CASE SendAckStep(r)
  <2>1. PICK to \in SUBSET Link[r] : SendAckAgg(r, to)
    BY <1>7 DEF SendAckStep
  <2>2. ack_agg_fwd[r] \in Ack
    BY <1>1, <2>1 DEF RelayType, SendAckAgg, flg_ack_agg
  <2>3. FramesRouted'
    BY <1>2, <2>1, <2>2, BodyTypes, TransmitRouted DEF SendAckAgg, AckAgg
  <2>4. QED BY <2>1, <2>3, UnrelatedRouted DEF SendAckAgg
<1>8. CASE Restart(r)
  <2>1. hop_nr'[r] = HOP_NR_INITIAL /\ flg_conf'[r] = FALSE /\ air' = air
    BY <1>1, <1>8 DEF Restart, RelayType
  <2>2. QED BY <2>1 DEF Routed, FramesRouted
<1>9. QED BY <1>3, <1>4, <1>5, <1>6, <1>7, <1>8 DEF RelayStep, BroadcastStep

LEMMA BaseStepRouted ==
  ASSUME NetType, FramesRouted, BaseStep
  PROVE  FramesRouted'
<1>1. BaseType
  BY TypeParts DEF NetType
<1>2. Base \in Node
  BY DEF Node
<1>3. ASSUME NEW f \in FrameId, BaseRecvAggData(f) \/ BaseIgnore(f)
      PROVE  FramesRouted'
  BY <1>2, <1>3, ReceiveRouted DEF BaseRecvAggData, BaseIgnore
<1>4. ASSUME NEW to \in SUBSET Link[Base], Round(to)
      PROVE  FramesRouted'
  <2>1. HopConf(base_conf_seqn', 0) \in Body
    BY <1>1, <1>4, BodyTypes DEF Round, StartRound, BaseType
  <2>2. HopConf(base_conf_seqn', 0).hop_nr >= Dist[Base]
    BY DistFacts DEF HopConf
  <2>3. QED BY <1>2, <1>4, <2>1, <2>2, TransmitRouted DEF Round, StartRound
<1>5. CASE BaseAckStep
  <2>1. PICK to \in SUBSET Link[Base] : BaseSendAck(to)
    BY <1>5 DEF BaseAckStep
  <2>2. AckAgg(base_ack) \in Body
    BY <1>1, <2>1, BodyTypes DEF BaseSendAck, BaseType
  <2>3. QED BY <1>2, <2>1, <2>2, TransmitRouted DEF BaseSendAck, AckAgg
<1>6. CASE BaseIdle
  BY <1>6 DEF BaseIdle, FramesRouted
<1>7. QED BY <1>3, <1>4, <1>5, <1>6 DEF BaseStep

LEMMA StepRouted == NetType /\ RouteInv /\ [Next]_vars => RouteInv'
<1> SUFFICES ASSUME NetType, RouteInv, [Next]_vars PROVE RouteInv'
  OBVIOUS
<1>1. RelayType /\ FramesRouted /\ \A r \in Relay : Routed(r)
  BY TypeParts DEF NetType, RouteInv
<1>2. ASSUME NEW r \in Relay, RelayStep(r)
      PROVE  RouteInv'
  <2>1. FramesRouted' /\ Routed(r)'
    BY <1>1, <1>2, RelayStepRouted
  <2>2. ASSUME NEW s \in Relay \ {r}
        PROVE  Routed(s)'
    BY <1>1, <1>2, OneRelay DEF Routed
  <2>3. QED BY <2>1, <2>2 DEF RouteInv
<1>3. CASE BaseStep /\ UNCHANGED relayVars
  BY <1>1, <1>3, BaseStepRouted, UnrelatedRouted DEF relayVars, RouteInv
<1>4. CASE UNCHANGED vars
  BY <1>1, <1>4, UnrelatedRouted DEF vars, relayVars, RouteInv, FramesRouted
<1>5. QED BY <1>2, <1>3, <1>4 DEF Next

LEMMA RouteInit == Init => RouteInv
<1> SUFFICES ASSUME Init PROVE RouteInv
  OBVIOUS
<1>1. FramesRouted
  BY DEF Init, RadioInit, FramesRouted, NoFrame
<1>2. QED BY <1>1 DEF Init, RelayInit, Routed, RouteInv

\* However rounds overlap, wrap and are heard again, and whichever relays restart, no
\* relay believes to be closer to the base station than it is.
THEOREM HopNumbersSound == Spec => []HopSound
<1>1. Spec => []NetType
  BY InitType, StepType, PTL DEF Spec
<1>2. RouteInv => HopSound
  BY DEF RouteInv, Routed, HopSound
<1>3. QED BY <1>1, <1>2, RouteInit, StepRouted, PTL DEF Spec
=============================================================================
