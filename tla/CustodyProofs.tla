---------------------------- MODULE CustodyProofs ----------------------------
(***************************************************************************)
(* Proofs about the custody of packets and readings in CattleNetwork, for  *)
(* relays that keep running and a radio that does not repeat frames.       *)
(***************************************************************************)
EXTENDS CattleNetworkProofs

USE FiniteAssumption, NodeAssumption, LinkAssumption

-----------------------------------------------------------------------------
(* Counting *)

LEMMA CountKeeps ==
  ASSUME NEW C, NEW F, NEW S, NEW D, NEW G, NEW T,
         IsFiniteSet(D), IsFiniteSet(F), IsFiniteSet(S),
         C \subseteq D, G \subseteq F, T \subseteq S,
         Cardinality(C) > Cardinality(F) + Cardinality(S)
  PROVE  Cardinality(D) > Cardinality(G) + Cardinality(T)
<1>1. Cardinality(C) <= Cardinality(D) /\ IsFiniteSet(C)
  BY FS_Subset
<1>2. Cardinality(G) <= Cardinality(F) /\ IsFiniteSet(G)
  BY FS_Subset
<1>3. Cardinality(T) <= Cardinality(S) /\ IsFiniteSet(T)
  BY FS_Subset
<1>4. /\ Cardinality(C) \in Nat /\ Cardinality(D) \in Nat
      /\ Cardinality(F) \in Nat /\ Cardinality(G) \in Nat
      /\ Cardinality(S) \in Nat /\ Cardinality(T) \in Nat
  BY <1>1, <1>2, <1>3, FS_CardinalityType
<1>5. QED BY <1>1, <1>2, <1>3, <1>4

\* A copy and an acknowledgement to send are added.
LEMMA CountTake ==
  ASSUME NEW C, NEW F, NEW S, NEW D, NEW G, NEW T, NEW x, NEW U, NEW y \in U,
         IsFiniteSet(D), IsFiniteSet(F), IsFiniteSet(S),
         x \notin C, C \cup {x} \subseteq D, G \subseteq F, T \subseteq S \cup {y},
         Cardinality(C) > Cardinality(F) + Cardinality(S)
  PROVE  Cardinality(D) > Cardinality(G) + Cardinality(T)
<1>1. Cardinality(C \cup {x}) <= Cardinality(D) /\ IsFiniteSet(C)
  <2>1. Cardinality(C \cup {x}) <= Cardinality(D) /\ C \in SUBSET D
    BY FS_Subset
  <2>2. IsFiniteSet(C)
    BY <2>1, FS_Subset
  <2>3. QED BY <2>1, <2>2
<1>2. Cardinality(C \cup {x}) = Cardinality(C) + 1
  BY <1>1, FS_AddElement
<1>3. Cardinality(G) <= Cardinality(F) /\ IsFiniteSet(G)
  BY FS_Subset
<1>4. /\ IsFiniteSet(S \cup {y})
      /\ Cardinality(S \cup {y}) \in {Cardinality(S), Cardinality(S) + 1}
  BY FS_AddElement
<1>5. Cardinality(T) <= Cardinality(S \cup {y}) /\ IsFiniteSet(T)
  BY <1>4, FS_Subset
<1>6. /\ Cardinality(C) \in Nat /\ Cardinality(D) \in Nat
      /\ Cardinality(F) \in Nat /\ Cardinality(G) \in Nat
      /\ Cardinality(S) \in Nat /\ Cardinality(T) \in Nat
  BY <1>1, <1>3, <1>5, FS_CardinalityType
<1>7. QED BY <1>1, <1>2, <1>3, <1>4, <1>5, <1>6

\* A copy and the acknowledgement that releases it are removed.
LEMMA CountRelease ==
  ASSUME NEW C, NEW F, NEW S, NEW D, NEW G, NEW T, NEW U, NEW x \in U, NEW y,
         IsFiniteSet(C), IsFiniteSet(D), IsFiniteSet(F), IsFiniteSet(S),
         C \ {x} \subseteq D, y \in F, G \subseteq F \ {y}, T \subseteq S,
         Cardinality(C) > Cardinality(F) + Cardinality(S)
  PROVE  Cardinality(D) > Cardinality(G) + Cardinality(T)
<1>1. /\ Cardinality(C \ {x}) <= Cardinality(D)
      /\ Cardinality(C \ {x}) \in {Cardinality(C), Cardinality(C) - 1}
  BY FS_Subset, FS_RemoveElement
<1>2. /\ IsFiniteSet(F \ {y}) /\ Cardinality(F \ {y}) = Cardinality(F) - 1
  BY FS_RemoveElement
<1>3. Cardinality(G) <= Cardinality(F \ {y}) /\ IsFiniteSet(G)
  BY <1>2, FS_Subset
<1>4. Cardinality(T) <= Cardinality(S) /\ IsFiniteSet(T)
  BY FS_Subset
<1>5. /\ Cardinality(C) \in Nat /\ Cardinality(D) \in Nat
      /\ Cardinality(F) \in Nat /\ Cardinality(G) \in Nat
      /\ Cardinality(S) \in Nat /\ Cardinality(T) \in Nat
  BY <1>3, <1>4, FS_CardinalityType
<1>6. QED BY <1>1, <1>2, <1>3, <1>4, <1>5

\* An acknowledgement to send becomes one on the air, or is lost.
LEMMA CountSend ==
  ASSUME NEW C, NEW F, NEW S, NEW D, NEW G, NEW T, NEW x, NEW y,
         IsFiniteSet(D), IsFiniteSet(F), IsFiniteSet(S),
         C \subseteq D, G \subseteq F \cup {y}, x \in S, T \subseteq S \ {x},
         Cardinality(C) > Cardinality(F) + Cardinality(S)
  PROVE  Cardinality(D) > Cardinality(G) + Cardinality(T)
<1>1. Cardinality(C) <= Cardinality(D) /\ IsFiniteSet(C)
  BY FS_Subset
<1>2. /\ IsFiniteSet(F \cup {y})
      /\ Cardinality(F \cup {y}) \in {Cardinality(F), Cardinality(F) + 1}
  BY FS_AddElement
<1>3. Cardinality(G) <= Cardinality(F \cup {y}) /\ IsFiniteSet(G)
  BY <1>2, FS_Subset
<1>4. IsFiniteSet(S \ {x}) /\ Cardinality(S \ {x}) = Cardinality(S) - 1
  BY FS_RemoveElement
<1>5. Cardinality(T) <= Cardinality(S \ {x}) /\ IsFiniteSet(T)
  BY <1>4, FS_Subset
<1>6. /\ Cardinality(C) \in Nat /\ Cardinality(D) \in Nat
      /\ Cardinality(F) \in Nat /\ Cardinality(G) \in Nat
      /\ Cardinality(S) \in Nat /\ Cardinality(T) \in Nat
  BY <1>1, <1>3, <1>5, FS_CardinalityType
<1>7. QED BY <1>1, <1>2, <1>3, <1>4, <1>5, <1>6

-----------------------------------------------------------------------------
(* Packets that exist *)

\* Every frame of data and every acknowledgement is about a packet that was built,
\* and an acknowledgement has one receiver.
FramesKnown ==
  \A f \in FrameId :
    /\ air[f].body.type \in {"AGGREGATED_DATA", "ACK_AGG"} => Id(air[f].body) \in PacketIds
    /\ air[f].body.type = "ACK_AGG" => \E n \in Node : air[f].to \subseteq {n}

SlotsKnown ==
  \A r \in Relay :
    /\ flg_agg_send(r) => Id(agg_data_to_be_sent[r]) \in PacketIds
    /\ flg_agg_fwd(r) => Id(agg_data_fwd[r]) \in PacketIds
    /\ flg_ack_agg(r) => Id(ack_agg_fwd[r]) \in PacketIds

BaseKnown ==
  /\ received \subseteq PacketIds
  /\ base_ack # NoAck => Id(base_ack) \in received

Known == FramesKnown /\ SlotsKnown /\ BaseKnown

Held(id) == Cardinality(Copies(id)) > Cardinality(AckFrames(id)) + Cardinality(AckSlots(id))

CustodyInv == Known /\ Custody

LEMMA PacketIdsElements ==
  ASSUME RelayType, NEW id
  PROVE  id \in PacketIds <=>
           id \in Relay \X Nat /\ id[2] < Len(built[id[1]])
<1>1. \A r \in Relay : Len(built[r]) \in Nat
  BY DEF RelayType
<1>2. ASSUME NEW r \in Relay, id \in {r} \X (0 .. Len(built[r]) - 1)
      PROVE  id \in Relay \X Nat /\ id[2] < Len(built[id[1]])
  BY <1>1, <1>2
<1>3. ASSUME id \in Relay \X Nat, id[2] < Len(built[id[1]])
      PROVE  id[1] \in Relay /\ id \in {id[1]} \X (0 .. Len(built[id[1]]) - 1)
  BY <1>1, <1>3
<1>4. QED BY <1>2, <1>3 DEF PacketIds

\* A packet built takes an identity of its own.
LEMMA BuildIds ==
  ASSUME RelayType, NEW r \in Relay, NEW buffer,
         built' = [built EXCEPT ![r] = Append(built[r], buffer)],
         NEW new, new = <<r, Len(built[r])>>
  PROVE  new \notin PacketIds /\ PacketIds' = PacketIds \cup {new}
<1>1. /\ \A s \in Relay : Len(built[s]) \in Nat
      /\ Len(built'[r]) = Len(built[r]) + 1
      /\ \A s \in Relay \ {r} : built'[s] = built[s]
  BY DEF RelayType
<1>2. new \in Relay \X Nat /\ new[1] = r /\ new[2] = Len(built[r])
  BY <1>1
<1>3. new \notin PacketIds
  BY <1>1, <1>2, PacketIdsElements
<1>4. ASSUME NEW id
      PROVE  id \in PacketIds' <=> id \in Relay \X Nat /\ id[2] < Len(built'[id[1]])
  <2>1. \A s \in Relay : Len(built'[s]) \in Nat
    BY <1>1
  <2>2. ASSUME NEW s \in Relay, id \in {s} \X (0 .. Len(built'[s]) - 1)
        PROVE  id \in Relay \X Nat /\ id[2] < Len(built'[id[1]])
    BY <2>1, <2>2
  <2>3. ASSUME id \in Relay \X Nat, id[2] < Len(built'[id[1]])
        PROVE  id[1] \in Relay /\ id \in {id[1]} \X (0 .. Len(built'[id[1]]) - 1)
    BY <2>1, <2>3
  <2>4. QED BY <2>2, <2>3 DEF PacketIds
<1>5. ASSUME NEW id \in Relay \X Nat
      PROVE  id[2] < Len(built'[id[1]]) <=> id[2] < Len(built[id[1]]) \/ id = new
  <2>1. CASE id[1] = r
    BY <1>1, <2>1
  <2>2. CASE id[1] # r
    BY <1>1, <1>2, <2>2
  <2>3. QED BY <2>1, <2>2
<1>6. \A id : id \in PacketIds' <=> id \in PacketIds \/ id = new
  BY <1>2, <1>4, <1>5, PacketIdsElements
<1>7. QED BY <1>3, <1>6

LEMMA CountedFinite ==
  ASSUME NEW id
  PROVE  IsFiniteSet(Copies(id)) /\ IsFiniteSet(AckFrames(id)) /\ IsFiniteSet(AckSlots(id))
<1>1. IsFiniteSet({"send", "fwd"})
  <2>1. IsFiniteSet({"send"}) /\ {"send", "fwd"} = {"send"} \cup {"fwd"}
    BY FS_Singleton
  <2>2. QED BY <2>1, FS_AddElement
<1>2. IsFiniteSet(Slots)
  BY <1>1, FS_Product DEF Slots
<1>3. Copies(id) \in SUBSET Slots /\ AckFrames(id) \in SUBSET FrameId
      /\ AckSlots(id) \in SUBSET Relay
  BY DEF Copies, AckFrames, AckSlots
<1>4. QED BY <1>2, <1>3, FS_Subset

LEMMA CountedFiniteNext ==
  ASSUME NEW id
  PROVE  IsFiniteSet(Copies(id)') /\ IsFiniteSet(AckFrames(id)') /\ IsFiniteSet(AckSlots(id)')
<1>1. IsFiniteSet({"send", "fwd"})
  <2>1. IsFiniteSet({"send"}) /\ {"send", "fwd"} = {"send"} \cup {"fwd"}
    BY FS_Singleton
  <2>2. QED BY <2>1, FS_AddElement
<1>2. IsFiniteSet(Slots)
  BY <1>1, FS_Product DEF Slots
<1>3. Copies(id)' \in SUBSET Slots /\ AckFrames(id)' \in SUBSET FrameId
      /\ AckSlots(id)' \in SUBSET Relay
  BY DEF Copies, AckFrames, AckSlots, Slots
<1>4. QED BY <1>2, <1>3, FS_Subset

-----------------------------------------------------------------------------
(* Frames *)

LEMMA ReceiveKnown ==
  ASSUME NetType, FramesKnown, NEW n \in Node, NEW f \in FrameId, Receive(n, f),
         PacketIds' = PacketIds
  PROVE  FramesKnown' /\ \A id : AckFrames(id)' \subseteq AckFrames(id)
<1>1. AirType
  BY TypeParts DEF NetType
<1>2. \A g \in FrameId :
        \/ air'[g] = NoFrame
        \/ air'[g].body = air[g].body /\ air'[g].to \subseteq air[g].to
  BY <1>1, ReceiveFrames
<1>3. FramesKnown'
  BY <1>2 DEF FramesKnown, NoFrame
<1>4. ASSUME NEW id
      PROVE  AckFrames(id)' \subseteq AckFrames(id)
  BY <1>2 DEF AckFrames, NoFrame
<1>5. QED BY <1>3, <1>4

LEMMA TransmitKnown ==
  ASSUME NetType, FramesKnown, NEW src \in Node, NEW to \in SUBSET Node, NEW body \in Body,
         Transmit(src, to, body), PacketIds' = PacketIds,
         body.type \in {"AGGREGATED_DATA", "ACK_AGG"} => Id(body) \in PacketIds,
         body.type = "ACK_AGG" => \E n \in Node : to \subseteq {n}
  PROVE  /\ FramesKnown'
         /\ \A id : body.type # "ACK_AGG" \/ Id(body) # id =>
                     AckFrames(id)' \subseteq AckFrames(id)
         /\ \A id : \E y : AckFrames(id)' \subseteq AckFrames(id) \cup {y}
<1>1. AirType
  BY TypeParts DEF NetType
<1>2. CASE air' = air
  BY <1>2 DEF FramesKnown, AckFrames
<1>3. ASSUME NEW f \in FrameId,
             air[f] = NoFrame,
             air'[f] = [src |-> src, to |-> to, body |-> body],
             \A g \in FrameId \ {f} : air'[g] = air[g]
      PROVE  /\ FramesKnown'
             /\ \A id : body.type # "ACK_AGG" \/ Id(body) # id =>
                         AckFrames(id)' \subseteq AckFrames(id)
             /\ \A id : AckFrames(id)' \subseteq AckFrames(id) \cup {f}
  <2>1. air'[f].body = body /\ air'[f].to = to
    BY <1>3
  <2>2. FramesKnown'
    BY <1>3, <2>1 DEF FramesKnown
  <2>3. ASSUME NEW id
        PROVE  /\ body.type # "ACK_AGG" \/ Id(body) # id => AckFrames(id)' \subseteq AckFrames(id)
               /\ AckFrames(id)' \subseteq AckFrames(id) \cup {f}
    BY <1>3, <2>1 DEF AckFrames
  <2>4. QED BY <2>2, <2>3
<1>4. QED BY <1>1, <1>2, <1>3, TransmitFrames

-----------------------------------------------------------------------------
(* Steps that neither take nor release a packet *)

LEMMA HeldStays ==
  ASSUME NEW id, Held(id),
         Copies(id) \subseteq Copies(id)', AckFrames(id)' \subseteq AckFrames(id),
         AckSlots(id)' \subseteq AckSlots(id)
  PROVE  Held(id)'
<1>1. Cardinality(Copies(id)) > Cardinality(AckFrames(id)) + Cardinality(AckSlots(id))
  BY DEF Held
<1>2. Cardinality(Copies(id)') > Cardinality(AckFrames(id)') + Cardinality(AckSlots(id)')
  BY <1>1, CountedFinite, CountedFiniteNext, CountKeeps
<1>3. QED BY <1>2 DEF Held

LEMMA QuietCustody ==
  ASSUME CustodyInv, PacketIds' = PacketIds, FramesKnown', BaseKnown',
         UNCHANGED <<agg_data_to_be_sent, agg_data_fwd>>,
         received \subseteq received',
         \A r \in Relay : ack_agg_fwd'[r] \in {ack_agg_fwd[r], NoAck},
         \A id : id \in received' \/ AckFrames(id)' \subseteq AckFrames(id)
  PROVE  CustodyInv'
<1>1. SlotsKnown'
  BY DEF CustodyInv, Known, SlotsKnown, flg_agg_send, flg_agg_fwd, flg_ack_agg
<1>2. ASSUME NEW id \in PacketIds, id \notin received'
      PROVE  Held(id)'
  <2>1. Held(id)
    BY <1>2 DEF CustodyInv, Custody, Held
  <2>2. Copies(id) \subseteq Copies(id)'
    BY DEF Copies, InSlot, Slots
  <2>3. AckSlots(id)' \subseteq AckSlots(id)
    BY DEF AckSlots, flg_ack_agg
  <2>4. QED BY <1>2, <2>1, <2>2, <2>3, HeldStays
<1>3. Custody'
  BY <1>2 DEF Custody, Held
<1>4. QED BY <1>1, <1>3 DEF CustodyInv, Known

LEMMA QuietStep ==
  ASSUME NetType, CustodyInv, NEW r \in Relay, UNCHANGED baseVars,
         \/ \E f \in FrameId : RecvHopConf(r, f) \/ IgnoreAggData(r, f)
         \/ \E to \in SUBSET Link[r] : BroadcastStep(r, to)
         \/ BroadcastIdle(r) \/ SendAckSensor(r) \/ UnicastIdle(r)
  PROVE  CustodyInv'
<1>1. RelayType /\ r \in Node /\ Link[r] \subseteq Node
  <2>1. RelayType
    BY TypeParts DEF NetType
  <2>2. r \in Node /\ Link[r] \subseteq Node
    BY DEF Node
  <2>3. QED BY <2>1, <2>2
<1>2. FramesKnown /\ SlotsKnown /\ BaseKnown
  BY DEF CustodyInv, Known
<1>3. UNCHANGED <<built, agg_data_to_be_sent, agg_data_fwd, ack_agg_fwd>>
  BY DEF RecvHopConf, IgnoreAggData, BroadcastStep, SendConf, SendAggData, ForwardAggData,
         BroadcastIdle, SendAckSensor, UnicastIdle, relayVars, aggVars, ackVars
<1>4. PacketIds' = PacketIds
  BY <1>3 DEF PacketIds
<1>5. BaseKnown' /\ received' = received
  BY <1>2, <1>4 DEF BaseKnown, baseVars
<1>6. FramesKnown' /\ \A id : AckFrames(id)' \subseteq AckFrames(id)
  <2>1. CASE \E f \in FrameId : RecvHopConf(r, f) \/ IgnoreAggData(r, f)
    <3>1. PICK f \in FrameId : Receive(r, f)
      BY <2>1 DEF RecvHopConf, IgnoreAggData
    <3>2. QED BY <1>1, <1>2, <1>4, <3>1, ReceiveKnown
  <2>2. ASSUME NEW to \in SUBSET Link[r], SendConf(r, to)
        PROVE  FramesKnown' /\ \A id : AckFrames(id)' \subseteq AckFrames(id)
    <3>1. HopConf(conf_seqn[r], hop_nr[r]) \in Body
      BY <1>1, BodyTypes DEF RelayType
    <3>2. HopConf(conf_seqn[r], hop_nr[r]).type = "HOP_CONF"
      BY DEF HopConf
    <3>3. QED BY <1>1, <1>2, <1>4, <2>2, <3>1, <3>2, TransmitKnown DEF SendConf
  <2>3. ASSUME NEW to \in SUBSET Link[r], SendAggData(r, to) \/ ForwardAggData(r, to)
        PROVE  FramesKnown' /\ \A id : AckFrames(id)' \subseteq AckFrames(id)
    <3>1. PICK p \in Packet : Transmit(r, to, AggData(p)) /\ Id(p) \in PacketIds
      BY <1>1, <1>2, <2>3
         DEF RelayType, SendAggData, ForwardAggData, SlotsKnown, flg_agg_send, flg_agg_fwd
    <3>2. /\ AggData(p) \in Body /\ AggData(p).type = "AGGREGATED_DATA"
          /\ Id(AggData(p)) = Id(p)
      BY BodyTypes DEF AggData, Id
    <3>3. QED BY <1>1, <1>2, <1>4, <3>1, <3>2, TransmitKnown
  <2>4. CASE BroadcastIdle(r) \/ SendAckSensor(r) \/ UnicastIdle(r)
    <3>1. air' = air
      BY <2>4 DEF BroadcastIdle, SendAckSensor, UnicastIdle
    <3>2. QED BY <1>2, <1>4, <3>1 DEF FramesKnown, AckFrames
  <2>5. QED BY <2>1, <2>2, <2>3, <2>4 DEF BroadcastStep
<1>7. QED BY <1>3, <1>4, <1>5, <1>6, QuietCustody

-----------------------------------------------------------------------------
(* The steps of the custody protocol *)

LEMMA SensorCustody ==
  ASSUME NetType, CustodyInv, NEW r \in Relay, SensorStep(r), UNCHANGED baseVars
  PROVE  CustodyInv'
<1>1. RelayType /\ RelayType' /\ air' = air
  BY TypeParts, SensorType DEF NetType
<1>2. PICK buffer : BuildPacket(r, buffer)
  BY DEF SensorStep, RefuseSensorData, StoreSensorData
<1>3. UNCHANGED <<agg_data_fwd, ack_agg_fwd>>
  BY DEF SensorStep, RefuseSensorData, StoreSensorData, ackVars
<1>4. FramesKnown /\ SlotsKnown /\ BaseKnown
  BY DEF CustodyInv, Known
<1>5. CASE UNCHANGED <<agg_data_to_be_sent, built>>
  <2>1. PacketIds' = PacketIds
    BY <1>5 DEF PacketIds
  <2>2. FramesKnown' /\ BaseKnown' /\ received' = received
    BY <1>1, <1>4, <2>1 DEF FramesKnown, BaseKnown, baseVars
  <2>3. \A id : AckFrames(id)' = AckFrames(id)
    BY <1>1 DEF AckFrames
  <2>4. QED BY <1>3, <1>5, <2>1, <2>2, <2>3, QuietCustody
<1>6. CASE /\ Len(buffer) = SENSOR_DATA_PER_PACKET /\ ~flg_agg_send(r)
  <2> DEFINE p == [address |-> r, seqno |-> Len(built[r]), hop_nr |-> hop_nr[r]]
  <2>1. /\ agg_data_to_be_sent' = [agg_data_to_be_sent EXCEPT ![r] = p]
        /\ built' = [built EXCEPT ![r] = Append(built[r], buffer)]
    BY <1>2, <1>6 DEF BuildPacket
  <2>2. /\ p # NoPacket /\ p.address = r /\ p.seqno = Len(built[r])
        /\ Len(built[r]) \in Nat
    <3>1. NoPacket.address = Base /\ r # Base
      BY DEF NoPacket
    <3>2. p.address = r /\ p.seqno = Len(built[r])
      OBVIOUS
    <3>3. Len(built[r]) \in Nat
      BY <1>1 DEF RelayType
    <3>4. QED BY <3>1, <3>2, <3>3
  <2> HIDE DEF p
  <2>3. PICK new : new = <<r, Len(built[r])>> /\ Id(p) = new
    BY <2>2 DEF Id
  <2>4. new \notin PacketIds /\ PacketIds' = PacketIds \cup {new}
    BY <1>1, <2>1, <2>3, BuildIds
  <2>5. UNCHANGED <<air, received, base_ack, agg_data_fwd, ack_agg_fwd>>
    BY <1>1, <1>3 DEF baseVars
  <2>6. Known'
    <3>1. FramesKnown'
      BY <1>4, <2>4, <2>5 DEF FramesKnown
    <3>2. BaseKnown'
      BY <1>4, <2>4, <2>5 DEF BaseKnown
    <3>3. SlotsKnown'
      BY <1>1, <1>4, <2>1, <2>3, <2>4, <2>5
         DEF SlotsKnown, flg_agg_send, flg_agg_fwd, flg_ack_agg, RelayType
    <3>4. QED BY <3>1, <3>2, <3>3 DEF Known
  <2>7. ASSUME NEW id \in PacketIds, id \notin received
        PROVE  Held(id)'
    <3>1. Held(id)
      BY <2>7 DEF CustodyInv, Custody, Held
    <3>2. AckFrames(id)' \subseteq AckFrames(id) /\ AckSlots(id)' \subseteq AckSlots(id)
      BY <2>5 DEF AckFrames, AckSlots, flg_ack_agg
    <3>3. Copies(id) \subseteq Copies(id)'
      BY <1>1, <1>6, <2>1, <2>5 DEF Copies, InSlot, Slots, flg_agg_send, RelayType
    <3>4. QED BY <3>1, <3>2, <3>3, HeldStays
  <2>8. Held(new)'
    <3>1. AckFrames(new)' = {} /\ AckSlots(new)' = {}
      BY <1>4, <2>4, <2>5 DEF AckFrames, AckSlots, FramesKnown, SlotsKnown, flg_ack_agg
    <3>2. <<r, "send">> \in Copies(new)'
      BY <1>1, <2>1, <2>2, <2>3 DEF Copies, InSlot, Slots, RelayType
    <3>3. /\ Cardinality(AckFrames(new)') = 0 /\ Cardinality(AckSlots(new)') = 0
      BY <3>1, FS_EmptySet
    <3>4. Cardinality(Copies(new)') \in Nat /\ Cardinality(Copies(new)') # 0
      <4>1. IsFiniteSet(Copies(new)')
        BY CountedFiniteNext
      <4>2. QED BY <3>2, <4>1, FS_CardinalityType, FS_EmptySet
    <3>5. QED BY <3>3, <3>4 DEF Held
  <2>9. Custody'
    BY <2>4, <2>5, <2>7, <2>8 DEF Custody, Held
  <2>10. QED BY <2>6, <2>9 DEF CustodyInv
<1>7. QED BY <1>2, <1>5, <1>6 DEF BuildPacket

LEMMA TakeCustody ==
  ASSUME NetType, CustodyInv, NEW r \in Relay, NEW f \in FrameId, TakeAggData(r, f),
         UNCHANGED baseVars
  PROVE  CustodyInv'
<1> DEFINE m == air[f].body
           p == [address |-> m.address, seqno |-> m.seqno, hop_nr |-> hop_nr[r]]
           a == [address |-> m.address, seqno |-> m.seqno, dest |-> air[f].src]
<1>1. RelayType /\ FramesKnown /\ SlotsKnown /\ BaseKnown
  BY TypeParts DEF NetType, CustodyInv, Known
<1>2. /\ r \in Node /\ Receive(r, f) /\ m.type = "AGGREGATED_DATA"
      /\ agg_data_fwd[r] = NoPacket
  BY DEF TakeAggData, flg_agg_fwd, Node
<1>3. UNCHANGED <<built, agg_data_to_be_sent, received, base_ack>>
  BY DEF TakeAggData, baseVars
<1>4. PacketIds' = PacketIds
  BY <1>3 DEF PacketIds
<1>5. FramesKnown' /\ \A id : AckFrames(id)' \subseteq AckFrames(id)
  BY <1>1, <1>2, <1>4, ReceiveKnown
<1>6. BaseKnown'
  BY <1>1, <1>3, <1>4 DEF BaseKnown
<1>7. m.address \in Relay /\ Id(m) \in PacketIds
  <2>1. air[f].body \in Body
    BY <1>2, ReceiveType
  <2>2. QED BY <1>1, <1>2, <2>1, BodyFields DEF FramesKnown
<1>8. /\ agg_data_fwd' = [agg_data_fwd EXCEPT ![r] = p]
      /\ ack_agg_fwd' = [ack_agg_fwd EXCEPT ![r] = a]
  BY DEF TakeAggData
<1>9. Id(p) = Id(m) /\ Id(a) = Id(m)
  BY DEF Id
<1>10. p # NoPacket
  <2>1. p.address = m.address /\ NoPacket.address = Base
    BY DEF NoPacket
  <2>2. QED BY <1>7, <2>1
<1> HIDE DEF p, a
<1>11. /\ agg_data_fwd'[r] = p /\ ack_agg_fwd'[r] = a
       /\ \A s \in Relay \ {r} : /\ agg_data_fwd'[s] = agg_data_fwd[s]
                                /\ ack_agg_fwd'[s] = ack_agg_fwd[s]
  BY <1>1, <1>8 DEF RelayType
<1>12. SlotsKnown'
  BY <1>1, <1>3, <1>4, <1>7, <1>9, <1>11
     DEF SlotsKnown, flg_agg_send, flg_agg_fwd, flg_ack_agg
<1>13. ASSUME NEW id \in PacketIds, id \notin received
       PROVE  Held(id)'
  <2>1. Held(id)
    BY <1>13 DEF CustodyInv, Custody, Held
  <2>2. CASE id = Id(m)
    <3>1. <<r, "fwd">> \notin Copies(id)
      BY <1>2 DEF Copies, InSlot
    <3>2. Copies(id) \cup {<<r, "fwd">>} \subseteq Copies(id)'
      <4>1. <<r, "fwd">> \in Copies(id)'
        BY <1>9, <1>10, <1>11, <2>2 DEF Copies, InSlot, Slots
      <4>2. Copies(id) \subseteq Copies(id)'
        BY <1>2, <1>3, <1>11 DEF Copies, InSlot, Slots
      <4>3. QED BY <4>1, <4>2
    <3>3. AckSlots(id)' \subseteq AckSlots(id) \cup {r}
      BY <1>11 DEF AckSlots, flg_ack_agg
    <3>4. Cardinality(Copies(id)) > Cardinality(AckFrames(id)) + Cardinality(AckSlots(id))
      BY <2>1 DEF Held
    <3>5. Cardinality(Copies(id)') > Cardinality(AckFrames(id)') + Cardinality(AckSlots(id)')
      <4>1. /\ IsFiniteSet(Copies(id)) /\ IsFiniteSet(AckFrames(id)) /\ IsFiniteSet(AckSlots(id))
            /\ IsFiniteSet(Copies(id)')
        BY CountedFinite, CountedFiniteNext
      <4>2. AckFrames(id)' \subseteq AckFrames(id)
        BY <1>5
      <4>3. QED BY <3>1, <3>2, <3>3, <3>4, <4>1, <4>2, CountTake
    <3>6. QED BY <3>5 DEF Held
  <2>3. CASE id # Id(m)
    <3>1. Copies(id) \subseteq Copies(id)'
      BY <1>2, <1>3, <1>11 DEF Copies, InSlot, Slots
    <3>2. AckSlots(id)' \subseteq AckSlots(id)
      BY <1>9, <1>11, <2>3 DEF AckSlots, flg_ack_agg
    <3>3. QED BY <1>5, <2>1, <3>1, <3>2, HeldStays
  <2>4. QED BY <2>2, <2>3
<1>14. Custody'
  BY <1>3, <1>4, <1>13 DEF Custody, Held
<1>15. QED BY <1>5, <1>6, <1>12, <1>14 DEF CustodyInv, Known

\* The acknowledgement leaves the air with the one packet it releases.
LEMMA ReleaseCustody ==
  ASSUME Repeats = FALSE, NetType, CustodyInv, NEW r \in Relay, NEW f \in FrameId,
         RecvAckAgg(r, f), UNCHANGED baseVars
  PROVE  CustodyInv'
<1> DEFINE m == air[f].body
<1>1. RelayType /\ AirType /\ FramesKnown /\ SlotsKnown /\ BaseKnown
  BY TypeParts DEF NetType, CustodyInv, Known
<1>2. /\ r \in Node /\ Receive(r, f) /\ Consume(r, f) /\ m.type = "ACK_AGG"
      /\ r \in air[f].to
  BY DEF RecvAckAgg, Receive, Node
<1>3. UNCHANGED <<built, ack_agg_fwd, received, base_ack>>
  BY DEF RecvAckAgg, ackVars, baseVars
<1>4. PacketIds' = PacketIds
  BY <1>3 DEF PacketIds
<1>5. FramesKnown' /\ \A id : AckFrames(id)' \subseteq AckFrames(id)
  BY <1>1, <1>2, <1>4, ReceiveKnown
<1>6. BaseKnown'
  BY <1>1, <1>3, <1>4 DEF BaseKnown
<1>7. air'[f] = NoFrame
  <2>1. air[f].to = {r}
    BY <1>1, <1>2 DEF FramesKnown
  <2>2. QED BY <1>1, <1>2, <2>1 DEF Consume, AirType
<1>8. /\ \A s \in Relay : /\ agg_data_to_be_sent'[s] \in {agg_data_to_be_sent[s], NoPacket}
                        /\ agg_data_fwd'[s] \in {agg_data_fwd[s], NoPacket}
      /\ \A s \in Relay \ {r} : /\ agg_data_to_be_sent'[s] = agg_data_to_be_sent[s]
                               /\ agg_data_fwd'[s] = agg_data_fwd[s]
  BY <1>1 DEF RecvAckAgg, RelayType
<1>9. \/ agg_data_to_be_sent'[r] = agg_data_to_be_sent[r]
      \/ Id(agg_data_to_be_sent[r]) = Id(m) /\ agg_data_fwd'[r] = agg_data_fwd[r]
  BY <1>1 DEF RecvAckAgg, RelayType
<1>10. \/ agg_data_fwd'[r] = agg_data_fwd[r]
       \/ Id(agg_data_fwd[r]) = Id(m)
  BY <1>1 DEF RecvAckAgg, RelayType
<1>11. SlotsKnown'
  BY <1>1, <1>3, <1>4, <1>8 DEF SlotsKnown, flg_agg_send, flg_agg_fwd, flg_ack_agg
<1>12. ASSUME NEW id \in PacketIds, id \notin received
       PROVE  Held(id)'
  <2>1. Held(id)
    BY <1>12 DEF CustodyInv, Custody, Held
  <2>2. AckSlots(id)' \subseteq AckSlots(id)
    BY <1>3 DEF AckSlots, flg_ack_agg
  <2>3. CASE id = Id(m)
    <3>1. f \in AckFrames(id) /\ AckFrames(id)' \subseteq AckFrames(id) \ {f}
      <4>1. f \in AckFrames(id)
        BY <1>2, <2>3 DEF AckFrames
      <4>2. f \notin AckFrames(id)'
        BY <1>7 DEF AckFrames, NoFrame
      <4>3. QED BY <1>5, <4>1, <4>2
    <3>2. PICK x \in Slots : Copies(id) \ {x} \subseteq Copies(id)'
      <4>1. CASE agg_data_to_be_sent'[r] = agg_data_to_be_sent[r]
        <5>1. Copies(id) \ {<<r, "fwd">>} \subseteq Copies(id)'
          BY <1>8, <4>1 DEF Copies, InSlot, Slots
        <5>2. QED BY <5>1 DEF Slots
      <4>2. CASE agg_data_fwd'[r] = agg_data_fwd[r]
        <5>1. Copies(id) \ {<<r, "send">>} \subseteq Copies(id)'
          BY <1>8, <4>2 DEF Copies, InSlot, Slots
        <5>2. QED BY <5>1 DEF Slots
      <4>3. QED BY <1>9, <4>1, <4>2
    <3>3. Cardinality(Copies(id)) > Cardinality(AckFrames(id)) + Cardinality(AckSlots(id))
      BY <2>1 DEF Held
    <3>4. Cardinality(Copies(id)') > Cardinality(AckFrames(id)') + Cardinality(AckSlots(id)')
      <4>1. /\ IsFiniteSet(Copies(id)) /\ IsFiniteSet(AckFrames(id)) /\ IsFiniteSet(AckSlots(id))
            /\ IsFiniteSet(Copies(id)')
        BY CountedFinite, CountedFiniteNext
      <4>2. QED BY <2>2, <3>1, <3>2, <3>3, <4>1, CountRelease
    <3>5. QED BY <3>4 DEF Held
  <2>4. CASE id # Id(m)
    <3>1. Copies(id) \subseteq Copies(id)'
      BY <1>8, <1>9, <1>10, <2>4 DEF Copies, InSlot, Slots
    <3>2. QED BY <1>5, <2>1, <2>2, <3>1, HeldStays
  <2>5. QED BY <2>3, <2>4
<1>13. Custody'
  BY <1>3, <1>4, <1>12 DEF Custody, Held
<1>14. QED BY <1>5, <1>6, <1>11, <1>13 DEF CustodyInv, Known

LEMMA SendAckCustody ==
  ASSUME NetType, CustodyInv, NEW r \in Relay, SendAckStep(r), UNCHANGED baseVars
  PROVE  CustodyInv'
<1>1. RelayType /\ FramesKnown /\ SlotsKnown /\ BaseKnown
  BY TypeParts DEF NetType, CustodyInv, Known
<1>2. PICK to \in SUBSET ({ack_agg_fwd[r].dest} \cap Link[r]) : SendAckAgg(r, to)
  BY DEF SendAckStep
<1>3. UNCHANGED <<built, agg_data_to_be_sent, agg_data_fwd, received, base_ack>>
  BY <1>2 DEF SendAckAgg, aggVars, baseVars
<1>4. PacketIds' = PacketIds
  BY <1>3 DEF PacketIds
<1> DEFINE body == AckAgg(ack_agg_fwd[r])
<1>5. /\ ack_agg_fwd[r] \in Ack /\ ack_agg_fwd[r] # NoAck
      /\ Id(ack_agg_fwd[r]) \in PacketIds
      /\ Transmit(r, to, body)
      /\ ack_agg_fwd' = [ack_agg_fwd EXCEPT ![r] = NoAck]
  BY <1>1, <1>2 DEF SendAckAgg, RelayType, SlotsKnown, flg_ack_agg
<1>6. body \in Body /\ body.type = "ACK_AGG" /\ Id(body) = Id(ack_agg_fwd[r])
  BY <1>5, BodyTypes DEF AckAgg, Id
<1>7. r \in Node /\ to \in SUBSET Node /\ \E n \in Node : to \subseteq {n}
  <2>1. r \in Node /\ Link[r] \subseteq Node
    BY DEF Node
  <2>2. ack_agg_fwd[r].dest \in Node
    BY <1>5 DEF Ack, Node
  <2>3. QED BY <2>1, <2>2
<1> HIDE DEF body
<1>8. /\ FramesKnown'
      /\ \A id : Id(body) # id => AckFrames(id)' \subseteq AckFrames(id)
      /\ \A id : \E y : AckFrames(id)' \subseteq AckFrames(id) \cup {y}
  BY <1>1, <1>4, <1>5, <1>6, <1>7, TransmitKnown
<1>9. /\ ack_agg_fwd'[r] = NoAck
      /\ \A s \in Relay \ {r} : ack_agg_fwd'[s] = ack_agg_fwd[s]
  BY <1>1, <1>5 DEF RelayType
<1>10. BaseKnown' /\ SlotsKnown'
  BY <1>1, <1>3, <1>4, <1>9
     DEF BaseKnown, SlotsKnown, flg_agg_send, flg_agg_fwd, flg_ack_agg
<1>11. ASSUME NEW id \in PacketIds, id \notin received
       PROVE  Held(id)'
  <2>1. Held(id)
    BY <1>11 DEF CustodyInv, Custody, Held
  <2>2. Copies(id) \subseteq Copies(id)'
    BY <1>3 DEF Copies, InSlot, Slots
  <2>3. CASE id = Id(ack_agg_fwd[r])
    <3>1. r \in AckSlots(id) /\ AckSlots(id)' \subseteq AckSlots(id) \ {r}
      BY <1>5, <1>9, <2>3 DEF AckSlots, flg_ack_agg
    <3>2. PICK y : AckFrames(id)' \subseteq AckFrames(id) \cup {y}
      BY <1>8
    <3>3. Cardinality(Copies(id)) > Cardinality(AckFrames(id)) + Cardinality(AckSlots(id))
      BY <2>1 DEF Held
    <3>4. Cardinality(Copies(id)') > Cardinality(AckFrames(id)') + Cardinality(AckSlots(id)')
      BY <2>2, <3>1, <3>2, <3>3, CountedFinite, CountedFiniteNext, CountSend
    <3>5. QED BY <3>4 DEF Held
  <2>4. CASE id # Id(ack_agg_fwd[r])
    <3>1. AckSlots(id)' \subseteq AckSlots(id)
      BY <1>9, <2>4 DEF AckSlots, flg_ack_agg
    <3>2. QED BY <1>6, <1>8, <2>1, <2>2, <2>4, <3>1, HeldStays
  <2>5. QED BY <2>3, <2>4
<1>12. Custody'
  BY <1>3, <1>4, <1>11 DEF Custody, Held
<1>13. QED BY <1>8, <1>10, <1>12 DEF CustodyInv, Known

LEMMA BaseCustody ==
  ASSUME NetType, CustodyInv, BaseStep, UNCHANGED relayVars
  PROVE  CustodyInv'
<1>1. BaseType /\ FramesKnown /\ BaseKnown
  BY TypeParts DEF NetType, CustodyInv, Known
<1>2. Base \in Node /\ Link[Base] \subseteq Node
  BY DEF Node
<1>3. UNCHANGED <<built, agg_data_to_be_sent, agg_data_fwd, ack_agg_fwd>>
  BY DEF relayVars, aggVars, ackVars
<1>4. PacketIds' = PacketIds
  BY <1>3 DEF PacketIds
<1>5. SUFFICES /\ FramesKnown' /\ BaseKnown' /\ received \subseteq received'
               /\ \A id : id \in received' \/ AckFrames(id)' \subseteq AckFrames(id)
  BY <1>3, <1>4, QuietCustody
<1>6. ASSUME NEW f \in FrameId, BaseRecvAggData(f)
      PROVE  /\ FramesKnown' /\ BaseKnown' /\ received \subseteq received'
             /\ \A id : AckFrames(id)' \subseteq AckFrames(id)
  <2> DEFINE a == [address |-> air[f].body.address, seqno |-> air[f].body.seqno,
                   dest |-> air[f].src]
  <2>1. Receive(Base, f)
    BY <1>6 DEF BaseRecvAggData
  <2>2. FramesKnown' /\ \A id : AckFrames(id)' \subseteq AckFrames(id)
    BY <1>1, <1>2, <1>4, <2>1, ReceiveKnown
  <2>3. Id(air[f].body) \in PacketIds
    BY <1>1, <1>6 DEF BaseRecvAggData, FramesKnown
  <2>4. Id(a) = Id(air[f].body)
    BY DEF Id
  <2>5. base_ack' = a /\ received' = received \cup {Id(air[f].body)}
    BY <1>6 DEF BaseRecvAggData
  <2> HIDE DEF a
  <2>6. BaseKnown'
    BY <1>1, <1>4, <2>3, <2>4, <2>5 DEF BaseKnown
  <2>7. QED BY <2>2, <2>5, <2>6
<1>7. ASSUME NEW f \in FrameId, BaseIgnore(f)
      PROVE  /\ FramesKnown' /\ BaseKnown' /\ received \subseteq received'
             /\ \A id : AckFrames(id)' \subseteq AckFrames(id)
  <2>1. Receive(Base, f) /\ UNCHANGED <<received, base_ack>>
    BY <1>7 DEF BaseIgnore, baseVars
  <2>2. QED BY <1>1, <1>2, <1>4, <2>1, ReceiveKnown DEF BaseKnown
<1>8. ASSUME NEW to \in SUBSET Link[Base], Round(to)
      PROVE  /\ FramesKnown' /\ BaseKnown' /\ received \subseteq received'
             /\ \A id : AckFrames(id)' \subseteq AckFrames(id)
  <2>1. base_conf_seqn' \in 0 .. ConfMod - 1
    BY <1>1, <1>8, RoundAssumption DEF Round, StartRound, BaseType
  <2>2. PICK body \in Body : Transmit(Base, to, body) /\ body.type = "HOP_CONF"
    BY <1>8, <2>1, BodyTypes DEF Round, StartRound, HopConf
  <2>3. UNCHANGED <<received, base_ack>>
    BY <1>8 DEF Round, StartRound
  <2>4. QED BY <1>1, <1>2, <1>4, <2>2, <2>3, TransmitKnown DEF BaseKnown
<1>9. CASE BaseAckStep
  <2>1. PICK to \in SUBSET ({base_ack.dest} \cap Link[Base]) : BaseSendAck(to)
    BY <1>9 DEF BaseAckStep
  <2>2. /\ base_ack \in Ack /\ Id(base_ack) \in received
        /\ Transmit(Base, to, AckAgg(base_ack))
        /\ base_ack' = NoAck /\ received' = received
    BY <1>1, <2>1 DEF BaseSendAck, BaseType, BaseKnown
  <2>3. /\ AckAgg(base_ack) \in Body /\ AckAgg(base_ack).type = "ACK_AGG"
        /\ Id(AckAgg(base_ack)) = Id(base_ack)
    BY <2>2, BodyTypes DEF AckAgg, Id
  <2>4. base_ack.dest \in Node
    BY <2>2 DEF Ack, Node
  <2>5. to \in SUBSET Node /\ to \subseteq {base_ack.dest}
    BY <1>2
  <2>6. PICK body \in Body : body = AckAgg(base_ack)
    BY <2>3
  <2>7. /\ Transmit(Base, to, body) /\ body.type = "ACK_AGG" /\ Id(body) = Id(base_ack)
    BY <2>2, <2>3, <2>6
  <2>8. Id(body) \in PacketIds /\ Id(body) \in received
    BY <1>1, <2>2, <2>7 DEF BaseKnown
  <2>9. FramesKnown' /\ \A id : Id(body) # id => AckFrames(id)' \subseteq AckFrames(id)
    BY <1>1, <1>2, <1>4, <2>4, <2>5, <2>7, <2>8, TransmitKnown
  <2>10. BaseKnown'
    BY <1>1, <1>4, <2>2 DEF BaseKnown
  <2>11. QED BY <2>2, <2>8, <2>9, <2>10
<1>10. CASE BaseIdle
  <2>1. UNCHANGED <<air, received, base_ack>>
    BY <1>10 DEF BaseIdle
  <2>2. QED BY <1>1, <1>4, <2>1 DEF FramesKnown, BaseKnown, AckFrames
<1>11. QED BY <1>6, <1>7, <1>8, <1>9, <1>10 DEF BaseStep

-----------------------------------------------------------------------------
(* Custody is kept *)

LEMMA InitCustody == Init => CustodyInv
<1> SUFFICES ASSUME Init PROVE CustodyInv
  OBVIOUS
<1>1. FramesKnown
  BY DEF Init, RadioInit, FramesKnown, NoFrame
<1>2. SlotsKnown
  BY DEF Init, RelayInit, SlotsKnown, flg_agg_send, flg_agg_fwd, flg_ack_agg
<1>3. BaseKnown
  BY DEF Init, BaseInit, BaseKnown
<1>4. PacketIds = {}
  <2>1. \A r \in Relay : Len(built[r]) = 0
    BY DEF Init, RelayInit
  <2>2. \A r \in Relay : {r} \X (0 .. Len(built[r]) - 1) = {}
    BY <2>1
  <2>3. QED BY <2>2 DEF PacketIds
<1>5. QED BY <1>1, <1>2, <1>3, <1>4 DEF CustodyInv, Known, Custody

LEMMA StepCustody ==
  ASSUME Repeats = FALSE, Restarts = {}
  PROVE  NetType /\ CustodyInv /\ [Next]_vars => CustodyInv'
<1> SUFFICES ASSUME NetType, CustodyInv, [Next]_vars PROVE CustodyInv'
  OBVIOUS
<1>1. ASSUME NEW r \in Relay, RelayStep(r), UNCHANGED baseVars
      PROVE  CustodyInv'
  <2>1. CASE SensorStep(r)
    BY <1>1, <2>1, SensorCustody
  <2>2. ASSUME NEW f \in FrameId, ReceiveStep(r, f)
        PROVE  CustodyInv'
    <3>1. CASE RecvHopConf(r, f) \/ IgnoreAggData(r, f)
      BY <1>1, <3>1, QuietStep
    <3>2. CASE TakeAggData(r, f)
      BY <1>1, <3>2, TakeCustody
    <3>3. CASE RecvAckAgg(r, f)
      BY <1>1, <3>3, ReleaseCustody
    <3>4. QED BY <2>2, <3>1, <3>2, <3>3 DEF ReceiveStep
  <2>3. CASE \E to \in SUBSET Link[r] : BroadcastStep(r, to)
    BY <1>1, <2>3, QuietStep
  <2>4. CASE BroadcastIdle(r) \/ SendAckSensor(r) \/ UnicastIdle(r)
    BY <1>1, <2>4, QuietStep
  <2>5. CASE SendAckStep(r)
    BY <1>1, <2>5, SendAckCustody
  <2>6. ~Restart(r)
    BY DEF Restart
  <2>7. QED BY <1>1, <2>1, <2>2, <2>3, <2>4, <2>5, <2>6 DEF RelayStep
<1>2. CASE BaseStep /\ UNCHANGED relayVars
  BY <1>2, BaseCustody
<1>3. CASE UNCHANGED vars
  <2>1. UNCHANGED <<air, built, agg_data_to_be_sent, agg_data_fwd, ack_agg_fwd, received, base_ack>>
    BY <1>3 DEF vars, relayVars, aggVars, ackVars, baseVars
  <2>2. PacketIds' = PacketIds
    BY <2>1 DEF PacketIds
  <2>3. FramesKnown' /\ BaseKnown' /\ \A id : AckFrames(id)' = AckFrames(id)
    BY <2>1, <2>2 DEF CustodyInv, Known, FramesKnown, BaseKnown, AckFrames
  <2>4. QED BY <2>1, <2>2, <2>3, QuietCustody
<1>4. QED BY <1>1, <1>2, <1>3 DEF Next

\* Every packet a relay has built either has arrived or has more copies in the
\* network than acknowledgements that can release one, whatever the topology, the
\* losses and the order of reception.
THEOREM PacketsKept ==
  ASSUME Repeats = FALSE, Restarts = {}
  PROVE  Spec => []Custody
<1>1. NetType /\ CustodyInv /\ [Next]_vars => CustodyInv'
  BY StepCustody
<1>2. Spec => []NetType
  BY InitType, StepType, PTL DEF Spec
<1>3. CustodyInv => Custody
  BY DEF CustodyInv
<1>4. QED BY <1>1, <1>2, <1>3, InitCustody, PTL DEF Spec

LEMMA CustodyHeld == CustodyInv => PacketHeld
<1> SUFFICES ASSUME CustodyInv, NEW id \in PacketIds, id \notin received
             PROVE  Copies(id) # {}
  BY DEF PacketHeld
<1>1. Cardinality(Copies(id)) > Cardinality(AckFrames(id)) + Cardinality(AckSlots(id))
  BY DEF CustodyInv, Custody
<1>2. /\ Cardinality(AckFrames(id)) \in Nat /\ Cardinality(AckSlots(id)) \in Nat
  BY CountedFinite, FS_CardinalityType
<1>3. Cardinality(Copies(id)) # 0
  BY <1>1, <1>2, CountedFinite, FS_CardinalityType
<1>4. QED BY <1>3, FS_EmptySet

\* No packet is lost between the relay that built it and the base station.
THEOREM PacketsHeld ==
  ASSUME Repeats = FALSE, Restarts = {}
  PROVE  Spec => []PacketHeld
<1>1. NetType /\ CustodyInv /\ [Next]_vars => CustodyInv'
  BY StepCustody
<1>2. Spec => []NetType
  BY InitType, StepType, PTL DEF Spec
<1>3. QED BY <1>1, <1>2, CustodyHeld, InitCustody, PTL DEF Spec

-----------------------------------------------------------------------------
(* Readings *)

\* With every packet held, the readings taken are those collected and packed.
AllReadings == Collected \cup UNION {Contents(id) : id \in PacketIds}

LEMMA TakenAll == CustodyInv => TakenReadings = AllReadings
<1> SUFFICES ASSUME CustodyInv PROVE TakenReadings = AllReadings
  OBVIOUS
<1>1. PacketHeld /\ received \subseteq PacketIds
  BY CustodyHeld DEF CustodyInv, Known, BaseKnown
<1>2. \A id : id \in PacketIds <=> id \in {i \in PacketIds : Copies(i) # {}} \/ id \in received
  BY <1>1 DEF PacketHeld
<1>3. QED BY <1>2 DEF TakenReadings, AllReadings, HeldReadings, ArrivedReadings

LEMMA RangeOfAppend ==
  ASSUME NEW seq \in Seq(Reading), NEW q \in Reading
  PROVE  RangeOf(Append(seq, q)) = RangeOf(seq) \cup {q}
<1>1. Len(seq) \in Nat
  OBVIOUS
<1>2. DOMAIN seq = 1 .. Len(seq) /\ DOMAIN Append(seq, q) = 1 .. Len(seq) + 1
  OBVIOUS
<1>3. /\ \A i \in 1 .. Len(seq) : Append(seq, q)[i] = seq[i]
      /\ Append(seq, q)[Len(seq) + 1] = q
  OBVIOUS
<1>4. QED BY <1>1, <1>2, <1>3 DEF RangeOf

LEMMA RangeOfTail ==
  ASSUME NEW seq \in Seq(Reading), seq # << >>
  PROVE  RangeOf(Tail(seq)) \subseteq RangeOf(seq)
<1>1. Len(seq) \in Nat /\ DOMAIN seq = 1 .. Len(seq)
  OBVIOUS
<1>2. /\ DOMAIN Tail(seq) = 1 .. Len(seq) - 1
      /\ \A i \in 1 .. Len(seq) - 1 : Tail(seq)[i] = seq[i + 1]
  BY HeadTailProperties
<1>3. QED BY <1>1, <1>2 DEF RangeOf

LEMMA SameReadings ==
  ASSUME UNCHANGED <<built, agg_data_buffer>>
  PROVE  AllReadings' = AllReadings /\ \A id : Contents(id)' = Contents(id)
<1>1. \A id : Contents(id)' = Contents(id)
  BY DEF Contents
<1>2. Collected' = Collected /\ PacketIds' = PacketIds
  BY DEF Collected, PacketIds
<1>3. QED BY <1>1, <1>2 DEF AllReadings

\* Packing the buffer moves readings, and loses none.
LEMMA BuildReadings ==
  ASSUME RelayType, NEW r \in Relay, NEW buffer \in Seq(Reading), BuildPacket(r, buffer),
         RangeOf(agg_data_buffer[r]) \subseteq RangeOf(buffer)
  PROVE  /\ AllReadings' = AllReadings \cup RangeOf(buffer)
         /\ PacketIds \subseteq PacketIds'
         /\ \A id \in PacketIds : Contents(id)' = Contents(id)
<1>1. CASE Len(buffer) = SENSOR_DATA_PER_PACKET /\ ~flg_agg_send(r)
  <2>1. /\ built' = [built EXCEPT ![r] = Append(built[r], buffer)]
        /\ agg_data_buffer' = [agg_data_buffer EXCEPT ![r] = << >>]
    BY <1>1 DEF BuildPacket
  <2>2. PICK new : new = <<r, Len(built[r])>>
    OBVIOUS
  <2>3. PacketIds' = PacketIds \cup {new}
    BY <2>1, <2>2, BuildIds
  <2>4. ASSUME NEW id \in PacketIds
        PROVE  Contents(id)' = Contents(id)
    <3>1. id[1] \in Relay /\ id[2] \in Nat /\ id[2] < Len(built[id[1]])
      BY PacketIdsElements
    <3>2. built'[id[1]][id[2] + 1] = built[id[1]][id[2] + 1]
      <4>1. CASE id[1] = r
        <5>1. built'[r] = Append(built[r], buffer)
          BY <2>1 DEF RelayType
        <5>2. built[r] \in Seq(Seq(Reading)) /\ id[2] + 1 \in 1 .. Len(built[r])
          BY <3>1, <4>1 DEF RelayType
        <5>3. QED BY <4>1, <5>1, <5>2
      <4>2. CASE id[1] # r
        BY <2>1, <3>1, <4>2 DEF RelayType
      <4>3. QED BY <4>1, <4>2
    <3>3. QED BY <3>2 DEF Contents
  <2>5. Contents(new)' = RangeOf(buffer)
    <3>1. built'[r] = Append(built[r], buffer) /\ built[r] \in Seq(Seq(Reading))
      BY <2>1 DEF RelayType
    <3>2. built'[r][Len(built[r]) + 1] = buffer
      BY <3>1
    <3>3. QED BY <2>2, <3>2 DEF Contents
  <2>6. /\ RangeOf(agg_data_buffer'[r]) = {}
        /\ \A s \in Relay \ {r} : agg_data_buffer'[s] = agg_data_buffer[s]
    BY <2>1 DEF RelayType, RangeOf
  <2>7. ASSUME NEW q
        PROVE  q \in AllReadings' <=> q \in AllReadings \/ q \in RangeOf(buffer)
    <3>1. q \in AllReadings <=>
            (\E s \in Relay : q \in RangeOf(agg_data_buffer[s]))
            \/ \E id \in PacketIds : q \in Contents(id)
      BY DEF AllReadings, Collected
    <3>2. q \in AllReadings' <=>
            (\E s \in Relay : q \in RangeOf(agg_data_buffer'[s]))
            \/ \E id \in PacketIds' : q \in Contents(id)'
      BY DEF AllReadings, Collected
    <3>3. (\E id \in PacketIds' : q \in Contents(id)') <=>
            (\E id \in PacketIds : q \in Contents(id)) \/ q \in RangeOf(buffer)
      BY <2>3, <2>4, <2>5
    <3>4. (\E s \in Relay : q \in RangeOf(agg_data_buffer'[s])) <=>
            \E s \in Relay \ {r} : q \in RangeOf(agg_data_buffer[s])
      BY <2>6
    <3>5. QED BY <3>1, <3>2, <3>3, <3>4
  <2>8. QED BY <2>3, <2>4, <2>7
<1>2. CASE ~(Len(buffer) = SENSOR_DATA_PER_PACKET /\ ~flg_agg_send(r))
  <2>1. /\ agg_data_buffer' = [agg_data_buffer EXCEPT ![r] = buffer]
        /\ built' = built
    BY <1>2 DEF BuildPacket
  <2>2. PacketIds' = PacketIds /\ \A id : Contents(id)' = Contents(id)
    BY <2>1 DEF PacketIds, Contents
  <2>3. /\ agg_data_buffer'[r] = buffer
        /\ \A s \in Relay \ {r} : agg_data_buffer'[s] = agg_data_buffer[s]
    BY <2>1 DEF RelayType
  <2>4. Collected' = Collected \cup RangeOf(buffer)
    BY <2>3 DEF Collected
  <2>5. AllReadings' = AllReadings \cup RangeOf(buffer)
    BY <2>2, <2>4 DEF AllReadings
  <2>6. QED BY <2>2, <2>5
<1>3. QED BY <1>1, <1>2

\* What a step of a relay does to the readings: nothing, or one is taken.
LEMMA RelayReadings ==
  ASSUME NetType, Restarts = {}, NEW r \in Relay, RelayStep(r)
  PROVE  /\ AllReadings' = AllReadings
            \/ \E q \in Reading : AllReadings' = AllReadings \cup {q}
         /\ PacketIds \subseteq PacketIds'
         /\ \A id \in PacketIds : Contents(id)' = Contents(id)
         /\ RangeOf(sensor_ack_list'[r]) \subseteq RangeOf(sensor_ack_list[r]) \cup AllReadings'
<1>1. RelayType
  BY TypeParts DEF NetType
<1>2. RangeOf(agg_data_buffer[r]) \subseteq AllReadings
  BY DEF AllReadings, Collected
<1>3. CASE RefuseSensorData(r)
  <2>1. /\ agg_data_buffer[r] \in Seq(Reading) /\ BuildPacket(r, agg_data_buffer[r])
        /\ sensor_ack_list' = sensor_ack_list
    BY <1>1, <1>3 DEF RefuseSensorData, RelayType, ackVars
  <2>2. /\ AllReadings' = AllReadings \cup RangeOf(agg_data_buffer[r])
        /\ PacketIds \subseteq PacketIds'
        /\ \A id \in PacketIds : Contents(id)' = Contents(id)
    BY <1>1, <2>1, BuildReadings
  <2>3. AllReadings' = AllReadings
    BY <1>2, <2>2
  <2>4. QED BY <2>1, <2>2, <2>3
<1>4. ASSUME NEW q \in Reading, StoreSensorData(r, q)
      PROVE  /\ AllReadings' = AllReadings \cup {q}
             /\ PacketIds \subseteq PacketIds'
             /\ \A id \in PacketIds : Contents(id)' = Contents(id)
             /\ RangeOf(sensor_ack_list'[r]) \subseteq RangeOf(sensor_ack_list[r]) \cup AllReadings'
  <2> DEFINE buffer == Append(agg_data_buffer[r], q)
  <2>1. /\ agg_data_buffer[r] \in Seq(Reading) /\ sensor_ack_list[r] \in Seq(Reading)
        /\ buffer \in Seq(Reading)
    BY <1>1 DEF RelayType
  <2>2. RangeOf(buffer) = RangeOf(agg_data_buffer[r]) \cup {q}
    BY <2>1, RangeOfAppend
  <2>3. BuildPacket(r, buffer)
    BY <1>4 DEF StoreSensorData
  <2>4. \/ sensor_ack_list'[r] = sensor_ack_list[r]
        \/ sensor_ack_list'[r] = Append(sensor_ack_list[r], q)
    BY <1>1, <1>4 DEF StoreSensorData, QueueSensorAck, RelayType
  <2>5. RangeOf(sensor_ack_list'[r]) \subseteq RangeOf(sensor_ack_list[r]) \cup {q}
    BY <2>1, <2>4, RangeOfAppend
  <2> HIDE DEF buffer
  <2>6. /\ AllReadings' = AllReadings \cup RangeOf(buffer)
        /\ PacketIds \subseteq PacketIds'
        /\ \A id \in PacketIds : Contents(id)' = Contents(id)
    BY <1>1, <2>1, <2>2, <2>3, BuildReadings
  <2>7. AllReadings' = AllReadings \cup {q}
    BY <1>2, <2>2, <2>6
  <2>8. QED BY <2>5, <2>6, <2>7
<1>5. CASE ~SensorStep(r)
  <2>1. UNCHANGED <<built, agg_data_buffer>>
    BY <1>5 DEF RelayStep, ReceiveStep, RecvHopConf, TakeAggData, IgnoreAggData, RecvAckAgg,
                BroadcastStep, SendConf, SendAggData, ForwardAggData, BroadcastIdle, SendAckStep,
                SendAckAgg, SendAckSensor, UnicastIdle, Restart, relayVars, aggVars
  <2>2. \/ sensor_ack_list'[r] = sensor_ack_list[r]
        \/ /\ sensor_ack_list[r] # << >>
           /\ sensor_ack_list' = [sensor_ack_list EXCEPT ![r] = Tail(sensor_ack_list[r])]
    BY <1>5 DEF RelayStep, ReceiveStep, RecvHopConf, TakeAggData, IgnoreAggData, RecvAckAgg,
                BroadcastStep, SendConf, SendAggData, ForwardAggData, BroadcastIdle, SendAckStep,
                SendAckAgg, SendAckSensor, UnicastIdle, Restart, relayVars, ackVars
  <2>3. RangeOf(sensor_ack_list'[r]) \subseteq RangeOf(sensor_ack_list[r])
    <3>1. /\ sensor_ack_list \in [Relay -> Seq(Reading)]
          /\ sensor_ack_list[r] \in Seq(Reading)
      BY <1>1 DEF RelayType
    <3>2. QED BY <2>2, <3>1, RangeOfTail
  <2>4. /\ AllReadings' = AllReadings /\ PacketIds' = PacketIds
        /\ \A id : Contents(id)' = Contents(id)
    BY <2>1, SameReadings DEF PacketIds
  <2>5. QED BY <2>3, <2>4
<1>6. QED BY <1>3, <1>4, <1>5 DEF SensorStep

AckedInv == \A r \in Relay : RangeOf(sensor_ack_list[r]) \subseteq AllReadings

LEMMA StepAcked ==
  ASSUME Restarts = {}
  PROVE  NetType /\ AckedInv /\ [Next]_vars => AckedInv'
<1> SUFFICES ASSUME NetType, AckedInv, [Next]_vars PROVE AckedInv'
  OBVIOUS
<1>1. RelayType
  BY TypeParts DEF NetType
<1>2. ASSUME NEW r \in Relay, RelayStep(r)
      PROVE  AckedInv'
  <2>1. /\ AllReadings \subseteq AllReadings'
        /\ RangeOf(sensor_ack_list'[r]) \subseteq RangeOf(sensor_ack_list[r]) \cup AllReadings'
    BY <1>2, RelayReadings
  <2>2. \A s \in Relay \ {r} : sensor_ack_list'[s] = sensor_ack_list[s]
    BY <1>1, <1>2, OneRelay
  <2>3. QED BY <2>1, <2>2 DEF AckedInv
<1>3. CASE UNCHANGED relayVars
  <2>1. UNCHANGED <<built, agg_data_buffer, sensor_ack_list>>
    BY <1>3 DEF relayVars, aggVars, ackVars
  <2>2. QED BY <2>1, SameReadings DEF AckedInv
<1>4. QED BY <1>2, <1>3 DEF Next, vars

LEMMA InitAcked == Init => AckedInv
BY DEF Init, RelayInit, AckedInv, RangeOf

\* A sensor node is told that its reading has been taken only while the network holds
\* the reading or after it has arrived, for ever.
THEOREM AcknowledgedIsTaken ==
  ASSUME Repeats = FALSE, Restarts = {}
  PROVE  Spec => []AckedIsTaken
<1>1. NetType /\ CustodyInv /\ [Next]_vars => CustodyInv'
  BY StepCustody
<1>2. NetType /\ AckedInv /\ [Next]_vars => AckedInv'
  BY StepAcked
<1>3. Spec => []NetType
  BY InitType, StepType, PTL DEF Spec
<1>4. CustodyInv /\ AckedInv => AckedIsTaken
  BY TakenAll DEF AckedInv, AckedIsTaken
<1>5. QED BY <1>1, <1>2, <1>3, <1>4, InitCustody, InitAcked, PTL DEF Spec

-----------------------------------------------------------------------------
(* The network implements the custody of readings *)

LEMMA StepRefines ==
  ASSUME Restarts = {}, NetType, CustodyInv, CustodyInv', [Next]_vars
  PROVE  [RC!Next]_<<TakenReadings, ArrivedReadings>>
<1>1. TakenReadings = AllReadings /\ TakenReadings' = AllReadings'
  <2>1. TakenReadings = AllReadings
    BY TakenAll
  <2>2. (CustodyInv => TakenReadings = AllReadings)'
    BY TakenAll, PTL
  <2>3. QED BY <2>1, <2>2
<1>2. received \subseteq PacketIds
  BY DEF CustodyInv, Known, BaseKnown
<1>3. ASSUME NEW r \in Relay, RelayStep(r), UNCHANGED baseVars
      PROVE  [RC!Next]_<<TakenReadings, ArrivedReadings>>
  <2>1. /\ \/ AllReadings' = AllReadings
           \/ \E q \in Reading : AllReadings' = AllReadings \cup {q}
        /\ \A id \in PacketIds : Contents(id)' = Contents(id)
    BY <1>3, RelayReadings
  <2>2. received' = received
    BY <1>3 DEF baseVars
  <2>3. ArrivedReadings' = ArrivedReadings
    BY <1>2, <2>1, <2>2 DEF ArrivedReadings
  <2>4. QED BY <1>1, <2>1, <2>3 DEF RC!Next, RC!Take
<1>4. CASE BaseStep /\ UNCHANGED relayVars
  <2>1. /\ AllReadings' = AllReadings
        /\ \A id : Contents(id)' = Contents(id)
    BY <1>4, SameReadings DEF relayVars, aggVars
  <2>2. received \subseteq received' /\ received' \subseteq PacketIds
    <3>1. received \subseteq received'
      BY <1>4 DEF BaseStep, BaseRecvAggData, BaseIgnore, Round, StartRound, BaseAckStep,
                  BaseSendAck, BaseIdle, baseVars
    <3>2. received' \subseteq PacketIds'
      BY DEF CustodyInv, Known, BaseKnown
    <3>3. PacketIds' = PacketIds
      BY <1>4 DEF relayVars, aggVars, PacketIds
    <3>4. QED BY <3>1, <3>2, <3>3
  <2> DEFINE Q == UNION {Contents(id) : id \in received'}
  <2>3. ArrivedReadings' = ArrivedReadings \cup Q
    BY <2>1, <2>2 DEF ArrivedReadings
  <2>4. Q \subseteq TakenReadings
    BY <1>1, <2>2 DEF AllReadings
  <2> HIDE DEF Q
  <2>5. QED BY <1>1, <2>1, <2>3, <2>4 DEF RC!Next, RC!Arrive
<1>5. CASE UNCHANGED vars
  <2>1. AllReadings' = AllReadings /\ \A id : Contents(id)' = Contents(id)
    BY <1>5, SameReadings DEF vars, relayVars, aggVars
  <2>2. ArrivedReadings' = ArrivedReadings
    BY <1>5, <2>1 DEF ArrivedReadings, vars, baseVars
  <2>3. QED BY <1>1, <2>1, <2>2
<1>6. QED BY <1>3, <1>4, <1>5 DEF Next

LEMMA InitRefines == Init => RC!Init
<1> SUFFICES ASSUME Init PROVE RC!Init
  OBVIOUS
<1>1. ArrivedReadings = {}
  BY DEF Init, BaseInit, ArrivedReadings
<1>2. Collected = {}
  BY DEF Init, RelayInit, Collected, RangeOf
<1>3. PacketIds = {}
  <2>1. \A r \in Relay : {r} \X (0 .. Len(built[r]) - 1) = {}
    BY DEF Init, RelayInit
  <2>2. QED BY <2>1 DEF PacketIds
<1>4. HeldReadings = {}
  BY <1>3 DEF HeldReadings
<1>5. QED BY <1>1, <1>2, <1>4 DEF TakenReadings, RC!Init

\* The relays and the base station implement the custody of readings: a reading is taken
\* once, may arrive, and never disappears from the network or from the base station.
THEOREM ReadingsKept ==
  ASSUME Repeats = FALSE, Restarts = {}
  PROVE  Spec => KeepsCustody
<1>1. NetType /\ CustodyInv /\ [Next]_vars => CustodyInv'
  BY StepCustody
<1>2. Spec => []NetType
  BY InitType, StepType, PTL DEF Spec
<1>3. NetType /\ CustodyInv /\ CustodyInv' /\ [Next]_vars
        => [RC!Next]_<<TakenReadings, ArrivedReadings>>
  BY StepRefines
<1>4. QED BY <1>1, <1>2, <1>3, InitCustody, InitRefines, PTL DEF Spec, KeepsCustody, RC!Spec
=============================================================================
