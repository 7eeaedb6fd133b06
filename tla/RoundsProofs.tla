----------------------------- MODULE RoundsProofs -----------------------------
(***************************************************************************)
(* What a round of the hop count flood achieves, proved for every set of   *)
(* relays and every topology, for rounds of which each is over before the  *)
(* next one starts.                                                        *)
(***************************************************************************)
EXTENDS Rounds, CattleNetworkProofs, ListFacts

USE NodeAssumption, LinkAssumption, HopAssumption, RoundAssumption

IsConf(f) == air[f].body.type = "HOP_CONF"

-----------------------------------------------------------------------------
(* The kinds of steps *)

\* The messages on the air after a step were there before, and those who are to
\* receive them are no more.
AirOnly ==
  /\ \A f \in FrameId : IsConf(f)' => IsConf(f) /\ air'[f].body = air[f].body

\* A message for a relay stays on the air for it, unless the relay receives it.
Kept(n) ==
  \A f \in FrameId : \A m \in Relay \ {n} :
    IsConf(f) /\ m \in air[f].to => air'[f].body = air[f].body /\ m \in air'[f].to

\* The flood is not concerned.
Unconcerned == AirOnly /\ Kept(Base) /\ UNCHANGED <<hop_nr, conf_seqn, flg_conf, base_conf_seqn>>

LEMMA TransmitKeeps ==
  ASSUME NetType, NEW src \in Node, NEW to \in SUBSET Node, NEW body \in Body,
         Transmit(src, to, body)
  PROVE  /\ Kept(Base)
         /\ \A f \in FrameId : IsConf(f)' =>
              \/ IsConf(f) /\ air'[f].body = air[f].body
              \/ air'[f].body = body
         /\ \A f \in FrameId : air[f] = NoFrame /\ air'[f] # NoFrame => air'[f].body = body
<1>1. \/ air' = air
      \/ \E f \in FrameId :
           /\ air[f] = NoFrame
           /\ air'[f] = [src |-> src, to |-> to, body |-> body]
           /\ \A g \in FrameId \ {f} : air'[g] = air[g]
  BY TransmitFrames, TypeParts DEF NetType
<1>2. CASE air' = air
  BY <1>2 DEF Kept, IsConf
<1>3. CASE air' # air
  <2>1. PICK f \in FrameId :
           /\ air[f] = NoFrame
           /\ air'[f] = [src |-> src, to |-> to, body |-> body]
           /\ \A g \in FrameId \ {f} : air'[g] = air[g]
    BY <1>1, <1>3
  <2>2. ~ IsConf(f) /\ air'[f].body = body
    BY <2>1 DEF IsConf, NoFrame
  <2>3. QED BY <2>1, <2>2 DEF Kept, IsConf
<1>4. QED BY <1>2, <1>3

LEMMA ReceiveKeeps ==
  ASSUME NetType, NEW n \in Node, NEW f \in FrameId, Receive(n, f)
  PROVE  /\ AirOnly
         /\ \A g \in FrameId : \A m \in Relay : IsConf(g) /\ m \in air[g].to =>
              \/ air'[g].body = air[g].body /\ m \in air'[g].to
              \/ g = f /\ m = n
<1>1. air \in [FrameId -> Frame \cup {NoFrame}]
  BY DEF NetType, TypeOK
<1>2. CASE air' = air
  BY <1>2 DEF AirOnly, IsConf
<1>3. CASE Consume(n, f)
  <2> DEFINE rest == [src |-> air[f].src, to |-> air[f].to \ {n}, body |-> air[f].body]
  <2>1. rest.body = air[f].body /\ rest.to = air[f].to \ {n}
    OBVIOUS
  <2>2. air' = [air EXCEPT ![f] = IF air[f].to = {n} THEN NoFrame ELSE rest]
    BY <1>3 DEF Consume
  <2> HIDE DEF rest
  <2>3. \A g \in FrameId \ {f} : air'[g] = air[g]
    BY <1>1, <2>2
  <2>4. air'[f] = IF air[f].to = {n} THEN NoFrame ELSE rest
    BY <1>1, <2>2
  <2>5. NoFrame.body.type # "HOP_CONF"
    BY DEF NoFrame
  <2>6. AirOnly
    BY <2>1, <2>3, <2>4, <2>5 DEF AirOnly, IsConf
  <2>7. ASSUME NEW g \in FrameId, NEW m \in Relay, IsConf(g), m \in air[g].to, g = f => m # n
        PROVE  air'[g].body = air[g].body /\ m \in air'[g].to
    BY <2>1, <2>3, <2>4, <2>7
  <2>8. QED BY <2>6, <2>7
<1>4. QED BY <1>2, <1>3 DEF Receive

\* Every step of the network is of one of these kinds.
LEMMA StepKinds ==
  ASSUME NetType, Next, \A r \in Relay : ~Restart(r)
  PROVE  \/ \E r \in Relay, f \in FrameId : RecvHopConf(r, f) /\ UNCHANGED base_conf_seqn
         \/ \E r \in Relay : \E to \in SUBSET Link[r] : SendConf(r, to) /\ UNCHANGED base_conf_seqn
         \/ \E to \in SUBSET Link[Base] : Round(to) /\ UNCHANGED <<hop_nr, conf_seqn, flg_conf>>
         \/ Unconcerned
<1> USE DEF relayVars, routeVars, baseVars
<1>1. Base \in Node /\ Relay \subseteq Node
  BY DEF Node
<1>2. \A n \in Node : Link[n] \in SUBSET Node
  OBVIOUS
<1>3. ASSUME NEW n \in Node, NEW f \in FrameId, Receive(n, f), ~ IsConf(f) \/ n = Base,
             UNCHANGED <<hop_nr, conf_seqn, flg_conf, base_conf_seqn>>
      PROVE  Unconcerned
  BY <1>3, ReceiveKeeps DEF Unconcerned, Kept
<1>4. ASSUME NEW src \in Node, NEW to \in SUBSET Node, NEW body \in Body,
             Transmit(src, to, body), body.type # "HOP_CONF",
             UNCHANGED <<hop_nr, conf_seqn, flg_conf, base_conf_seqn>>
      PROVE  Unconcerned
  BY <1>4, TransmitKeeps DEF Unconcerned, AirOnly, IsConf
<1>5. ASSUME UNCHANGED <<air, hop_nr, conf_seqn, flg_conf, base_conf_seqn>>
      PROVE  Unconcerned
  BY <1>5 DEF Unconcerned, AirOnly, Kept, IsConf
<1>6. CASE BaseStep /\ UNCHANGED relayVars
  <2>1. ASSUME NEW f \in FrameId, BaseRecvAggData(f) \/ BaseIgnore(f) PROVE Unconcerned
    <3>1. Receive(Base, f) /\ UNCHANGED base_conf_seqn
      BY <2>1 DEF BaseRecvAggData, BaseIgnore
    <3>2. QED BY <1>3, <1>6, <3>1 DEF Node
  <2>2. ASSUME BaseAckStep PROVE Unconcerned
    <3>1. PICK to \in SUBSET Link[Base] : BaseSendAck(to)
      BY <2>2 DEF BaseAckStep
    <3>2. /\ base_ack \in Ack /\ Transmit(Base, to, AckAgg(base_ack))
          /\ UNCHANGED base_conf_seqn
      BY <3>1 DEF BaseSendAck, NetType, TypeOK
    <3>3. AckAgg(base_ack) \in Body /\ AckAgg(base_ack).type # "HOP_CONF"
      BY <3>2, BodyTypes DEF AckAgg
    <3>4. Base \in Node /\ to \in SUBSET Node
      BY <1>1, <1>2
    <3>5. QED BY <1>4, <1>6, <3>2, <3>3, <3>4
  <2>3. CASE BaseIdle
    BY <1>5, <1>6, <2>3 DEF BaseIdle
  <2>4. QED BY <1>6, <2>1, <2>2, <2>3 DEF BaseStep
<1>7. CASE (\E r \in Relay : RelayStep(r)) /\ UNCHANGED baseVars
  <2>1. PICK r \in Relay : RelayStep(r)
    BY <1>7
  <2>2. r \in Node /\ Link[r] \in SUBSET Node
    BY <1>1, <1>2
  <2>3. CASE SensorStep(r)
    BY <1>5, <1>7, <2>3 DEF SensorStep, RefuseSensorData, StoreSensorData
  <2>4. ASSUME NEW f \in FrameId, ReceiveStep(r, f)
        PROVE  RecvHopConf(r, f) \/ Unconcerned
    <3>1. CASE TakeAggData(r, f) \/ IgnoreAggData(r, f) \/ RecvAckAgg(r, f)
      <4>1. /\ Receive(r, f) /\ ~ IsConf(f)
            /\ UNCHANGED <<hop_nr, conf_seqn, flg_conf, base_conf_seqn>>
        BY <1>7, <3>1 DEF TakeAggData, IgnoreAggData, RecvAckAgg, IsConf
      <4>2. QED BY <1>3, <2>2, <4>1
    <3>2. QED BY <2>4, <3>1 DEF ReceiveStep
  <2>5. ASSUME NEW to \in SUBSET Link[r], BroadcastStep(r, to)
        PROVE  SendConf(r, to) \/ Unconcerned
    <3>1. CASE SendAggData(r, to) \/ ForwardAggData(r, to)
      <4>1. PICK p \in Packet : Transmit(r, to, AggData(p))
        BY <3>1 DEF NetType, TypeOK, SendAggData, ForwardAggData, flg_agg_send, flg_agg_fwd
      <4>2. AggData(p) \in Body /\ AggData(p).type # "HOP_CONF"
        BY BodyTypes DEF AggData
      <4>3. UNCHANGED <<hop_nr, conf_seqn, flg_conf, base_conf_seqn>>
        BY <1>7, <3>1 DEF SendAggData, ForwardAggData
      <4>4. QED BY <1>4, <2>2, <4>1, <4>2, <4>3
    <3>2. QED BY <2>5, <3>1 DEF BroadcastStep
  <2>6. CASE SendAckStep(r)
    <3>1. PICK to \in SUBSET Link[r] : SendAckAgg(r, to)
      BY <2>6 DEF SendAckStep
    <3>2. ack_agg_fwd[r] \in Ack /\ Transmit(r, to, AckAgg(ack_agg_fwd[r]))
      BY <3>1 DEF NetType, TypeOK, SendAckAgg, flg_ack_agg
    <3>3. AckAgg(ack_agg_fwd[r]) \in Body /\ AckAgg(ack_agg_fwd[r]).type # "HOP_CONF"
      BY <3>2, BodyTypes DEF AckAgg
    <3>4. UNCHANGED <<hop_nr, conf_seqn, flg_conf, base_conf_seqn>>
      BY <1>7, <3>1 DEF SendAckAgg
    <3>5. QED BY <1>4, <2>2, <3>2, <3>3, <3>4
  <2>7. CASE BroadcastIdle(r) \/ SendAckSensor(r) \/ UnicastIdle(r)
    BY <1>5, <1>7, <2>7 DEF BroadcastIdle, SendAckSensor, UnicastIdle
  <2>8. QED BY <1>7, <2>1, <2>3, <2>4, <2>5, <2>6, <2>7 DEF RelayStep
<1>8. QED BY <1>6, <1>7 DEF Next
-----------------------------------------------------------------------------
(* Rounds that are over before the next one starts *)

\* All numbers under way are of the current round.
CurrentRound ==
  /\ \A f \in FrameId : IsConf(f) => air[f].body.seqn = base_conf_seqn
  /\ \A r \in Relay : flg_conf[r] => conf_seqn[r] = base_conf_seqn
  /\ \A r \in Relay : hop_nr[r] <= HOP_NR_INITIAL

\* The relays that know a number of the current round that is at most j.
Within(j) == {r \in Relay : conf_seqn[r] = base_conf_seqn /\ hop_nr[r] <= j}

\* Relay r or, with one more hop, a neighbour has brought number v to relay m.
Told(m, v) ==
  \/ \E f \in FrameId : IsConf(f) /\ air[f].body.hop_nr <= v /\ m \in air[f].to
  \/ conf_seqn[m] = base_conf_seqn /\ hop_nr[m] <= v + 1

\* What a HOP_CONF does to the relay that receives it.
LEMMA HopConfEffect ==
  ASSUME NetType, CurrentRound, NEW r \in Relay, NEW f \in FrameId, RecvHopConf(r, f)
  PROVE  LET h == air[f].body.hop_nr
             joined == conf_seqn[r] # base_conf_seqn
             known == IF joined THEN HOP_NR_INITIAL ELSE hop_nr[r]
         IN  /\ IsConf(f) /\ h \in Nat /\ air[f] \in Frame /\ Receive(r, f)
             /\ conf_seqn' = [conf_seqn EXCEPT ![r] = base_conf_seqn]
             /\ hop_nr' = [hop_nr EXCEPT ![r] = IF known > h + 1 THEN h + 1 ELSE known]
             /\ flg_conf' = [flg_conf EXCEPT ![r] = @ \/ known > h + 1]
<1>1. Receive(r, f) /\ IsConf(f)
  BY DEF RecvHopConf, IsConf
<1>2. air[f] \in Frame /\ air[f].body \in Body
  BY <1>1 DEF NetType, TypeOK, IsConf, NoFrame, Frame
<1>3. air[f].body.hop_nr \in Nat
  BY <1>1, <1>2, BodyFields DEF IsConf
<1>4. air[f].body.seqn = base_conf_seqn
  BY <1>1 DEF CurrentRound
<1>5. QED BY <1>1, <1>2, <1>3, <1>4 DEF RecvHopConf

\* Within a round no relay loses what it knows.
LEMMA HopConfShrinks ==
  ASSUME NetType, CurrentRound, NEW r \in Relay, NEW f \in FrameId, RecvHopConf(r, f)
  PROVE  \A m \in Relay :
           conf_seqn[m] = base_conf_seqn =>
             conf_seqn'[m] = base_conf_seqn /\ hop_nr'[m] <= hop_nr[m]
<1> DEFINE h == air[f].body.hop_nr
           known == IF conf_seqn[r] # base_conf_seqn THEN HOP_NR_INITIAL ELSE hop_nr[r]
           new == IF known > h + 1 THEN h + 1 ELSE known
<1>1. /\ h \in Nat /\ conf_seqn' = [conf_seqn EXCEPT ![r] = base_conf_seqn]
      /\ hop_nr' = [hop_nr EXCEPT ![r] = new]
  BY HopConfEffect
<1>2. hop_nr \in [Relay -> Nat] /\ conf_seqn \in [Relay -> 0 .. ConfMod - 1]
  BY DEF NetType, TypeOK
<1>3. conf_seqn[r] = base_conf_seqn => new <= hop_nr[r]
  BY <1>1, <1>2
<1> HIDE DEF new
<1>4. QED BY <1>1, <1>2, <1>3

LEMMA CurrentRoundInit == Init => CurrentRound
<1> SUFFICES ASSUME Init PROVE CurrentRound
  OBVIOUS
<1>1. /\ air = [f \in FrameId |-> NoFrame] /\ hop_nr = [r \in Relay |-> HOP_NR_INITIAL]
      /\ flg_conf = [r \in Relay |-> FALSE]
  BY DEF Init, RadioInit, RelayInit
<1>2. NoFrame.body.type # "HOP_CONF"
  BY DEF NoFrame
<1>3. QED BY <1>1, <1>2 DEF CurrentRound, IsConf

\* Nothing changes for the flood.
LEMMA UnconcernedRound ==
  ASSUME NetType, CurrentRound, Unconcerned
  PROVE  CurrentRound'
BY DEF CurrentRound, Unconcerned, AirOnly, IsConf

LEMMA RecvHopConfRound ==
  ASSUME NetType, CurrentRound, NEW r \in Relay, NEW f \in FrameId, RecvHopConf(r, f),
         UNCHANGED base_conf_seqn
  PROVE  CurrentRound'
<1> DEFINE h == air[f].body.hop_nr
           known == IF conf_seqn[r] # base_conf_seqn THEN HOP_NR_INITIAL ELSE hop_nr[r]
           closer == known > h + 1
           new == IF closer THEN h + 1 ELSE known
<1>1. /\ h \in Nat /\ Receive(r, f) /\ r \in Node
      /\ conf_seqn' = [conf_seqn EXCEPT ![r] = base_conf_seqn]
      /\ hop_nr' = [hop_nr EXCEPT ![r] = new]
      /\ flg_conf' = [flg_conf EXCEPT ![r] = flg_conf[r] \/ closer]
  BY HopConfEffect DEF Node
<1>2. /\ hop_nr \in [Relay -> Nat] /\ conf_seqn \in [Relay -> 0 .. ConfMod - 1]
      /\ flg_conf \in [Relay -> BOOLEAN]
  BY DEF NetType, TypeOK
<1>3. new <= HOP_NR_INITIAL
  BY <1>1, <1>2 DEF CurrentRound
<1>4. \A g \in FrameId : IsConf(g)' => IsConf(g) /\ air'[g].body = air[g].body
  BY <1>1, ReceiveKeeps DEF AirOnly
<1> HIDE DEF new, closer
<1>5. QED BY <1>1, <1>2, <1>3, <1>4 DEF CurrentRound

LEMMA SendConfRound ==
  ASSUME NetType, CurrentRound, NEW r \in Relay, NEW to \in SUBSET Link[r], SendConf(r, to),
         UNCHANGED base_conf_seqn
  PROVE  /\ CurrentRound' /\ Kept(Base)
         /\ flg_conf[r] /\ flg_conf' = [flg_conf EXCEPT ![r] = FALSE]
         /\ UNCHANGED <<hop_nr, conf_seqn>>
         /\ conf_seqn[r] = base_conf_seqn
         /\ \A f \in FrameId : IsConf(f)' =>
              \/ IsConf(f) /\ air'[f].body = air[f].body
              \/ air'[f].body = HopConf(conf_seqn[r], hop_nr[r])
         /\ \A f \in FrameId : air[f] = NoFrame /\ air'[f] # NoFrame =>
              air'[f].body = HopConf(conf_seqn[r], hop_nr[r])
<1>1. /\ hop_nr \in [Relay -> Nat] /\ conf_seqn \in [Relay -> 0 .. ConfMod - 1]
      /\ flg_conf \in [Relay -> BOOLEAN]
  BY DEF NetType, TypeOK
<1>2. r \in Node /\ to \in SUBSET Node
  <2>1. r \in Node
    BY DEF Node
  <2>2. QED BY <2>1
<1>3. HopConf(conf_seqn[r], hop_nr[r]) \in Body
  BY <1>1, BodyTypes
<1>4. /\ Transmit(r, to, HopConf(conf_seqn[r], hop_nr[r])) /\ flg_conf[r]
      /\ flg_conf' = [flg_conf EXCEPT ![r] = FALSE] /\ UNCHANGED <<hop_nr, conf_seqn>>
  BY DEF SendConf
<1>5. /\ Kept(Base)
      /\ \A f \in FrameId : IsConf(f)' =>
           \/ IsConf(f) /\ air'[f].body = air[f].body
           \/ air'[f].body = HopConf(conf_seqn[r], hop_nr[r])
      /\ \A f \in FrameId : air[f] = NoFrame /\ air'[f] # NoFrame =>
           air'[f].body = HopConf(conf_seqn[r], hop_nr[r])
  BY <1>2, <1>3, <1>4, TransmitKeeps
<1>6. conf_seqn[r] = base_conf_seqn /\ HopConf(conf_seqn[r], hop_nr[r]).seqn = base_conf_seqn
  BY <1>4 DEF CurrentRound, HopConf
<1>7. CurrentRound'
  BY <1>1, <1>4, <1>5, <1>6 DEF CurrentRound
<1>8. QED BY <1>4, <1>5, <1>6, <1>7

LEMMA StartRoundRound ==
  ASSUME SettledRounds, NetType, CurrentRound, NEW to \in SUBSET Link[Base], Round(to),
         UNCHANGED <<hop_nr, conf_seqn, flg_conf>>
  PROVE  /\ CurrentRound' /\ Kept(Base) /\ Settled
         /\ \A f \in FrameId : IsConf(f)' => air'[f].body = HopConf(base_conf_seqn', 0)
         /\ \A f \in FrameId : air[f] = NoFrame /\ air'[f] # NoFrame =>
              air'[f].body = HopConf(base_conf_seqn', 0)
<1>1. /\ Settled /\ base_conf_seqn' = (base_conf_seqn + 1) % ConfMod
      /\ Transmit(Base, to, HopConf(base_conf_seqn', 0))
  BY DEF Round, StartRound
<1>2. base_conf_seqn' \in 0 .. ConfMod - 1
  <2>1. base_conf_seqn \in 0 .. ConfMod - 1
    BY DEF NetType, TypeOK
  <2>2. QED BY <1>1, <2>1, SMTT(60)
<1>3. HopConf(base_conf_seqn', 0) \in Body
  BY <1>2, BodyTypes
<1>4. Base \in Node /\ to \in SUBSET Node
  <2>1. Base \in Node
    BY DEF Node
  <2>2. QED BY <2>1
<1>5. /\ Kept(Base)
      /\ \A f \in FrameId : IsConf(f)' =>
           IsConf(f) \/ air'[f].body = HopConf(base_conf_seqn', 0)
      /\ \A f \in FrameId : air[f] = NoFrame /\ air'[f] # NoFrame =>
           air'[f].body = HopConf(base_conf_seqn', 0)
  BY <1>1, <1>3, <1>4, TransmitKeeps
<1>6. \A f \in FrameId : IsConf(f)' => air'[f].body = HopConf(base_conf_seqn', 0)
  BY <1>1, <1>5 DEF Settled, IsConf
<1>7. CurrentRound'
  BY <1>1, <1>6 DEF CurrentRound, Settled, HopConf
<1>8. QED BY <1>1, <1>5, <1>6, <1>7

LEMMA RestartRound ==
  ASSUME NetType, CurrentRound, NEW r \in Relay, Restart(r), UNCHANGED baseVars
  PROVE  CurrentRound'
<1>1. /\ hop_nr' = [hop_nr EXCEPT ![r] = HOP_NR_INITIAL]
      /\ conf_seqn' = [conf_seqn EXCEPT ![r] = 0]
      /\ flg_conf' = [flg_conf EXCEPT ![r] = FALSE] /\ UNCHANGED <<air, base_conf_seqn>>
  BY DEF Restart, baseVars
<1>2. /\ hop_nr \in [Relay -> Nat] /\ conf_seqn \in [Relay -> 0 .. ConfMod - 1]
      /\ flg_conf \in [Relay -> BOOLEAN]
  BY DEF NetType, TypeOK
<1>3. QED BY <1>1, <1>2 DEF CurrentRound, IsConf

-----------------------------------------------------------------------------
(* Hop numbers are bounded by the number of relays *)

\* There are h relays for a number h: one at least for each number up to it.
Counted(h) == \A j \in 1 .. h : Cardinality(Within(j)) >= j

\* Number h is under way to the neighbours of some relay.
Carried(h) ==
  \/ \E f \in FrameId : IsConf(f) /\ air[f].body.hop_nr = h
  \/ \E r \in Relay : flg_conf[r] /\ hop_nr[r] = h

NumbersCounted ==
  /\ \A h \in Nat : Carried(h) => Counted(h)
  /\ \A r \in Relay : hop_nr[r] # HOP_NR_INITIAL => hop_nr[r] <= Cardinality(Relay)

LEMMA WithinFacts ==
  ASSUME NEW j
  PROVE  /\ IsFiniteSet(Within(j)) /\ Cardinality(Within(j)) \in Nat
         /\ Cardinality(Within(j)) <= Cardinality(Relay) /\ Cardinality(Relay) \in Nat
<1>1. Within(j) \subseteq Relay /\ IsFiniteSet(Relay)
  BY FiniteAssumption DEF Within
<1>2. QED BY <1>1, FS_Subset, FS_CardinalityType

\* A number that is counted stays so in its round.
LEMMA CountedStays ==
  ASSUME NetType, NetType', base_conf_seqn' = base_conf_seqn,
         \A m \in Relay : conf_seqn[m] = base_conf_seqn =>
           conf_seqn'[m] = base_conf_seqn /\ hop_nr'[m] <= hop_nr[m],
         NEW h \in Nat, Counted(h)
  PROVE  Counted(h)'
<1>1. hop_nr \in [Relay -> Nat] /\ hop_nr' \in [Relay -> Nat]
  BY DEF NetType, TypeOK
<1>2. SUFFICES ASSUME NEW j \in 1 .. h PROVE Cardinality(Within(j)') >= j
  BY DEF Counted
<1>3. Within(j) \subseteq Within(j)'
  <2>1. ASSUME NEW m \in Within(j) PROVE m \in Within(j)'
    <3>1. m \in Relay /\ conf_seqn[m] = base_conf_seqn /\ hop_nr[m] <= j
      BY DEF Within
    <3>2. conf_seqn'[m] = base_conf_seqn /\ hop_nr'[m] <= hop_nr[m]
      BY <3>1
    <3>3. hop_nr[m] \in Nat /\ hop_nr'[m] \in Nat
      BY <1>1, <3>1
    <3>4. hop_nr'[m] <= j
      BY <3>1, <3>2, <3>3
    <3>5. QED BY <3>1, <3>2, <3>4 DEF Within
  <2>2. QED BY <2>1
<1>4. IsFiniteSet(Within(j)')
  <2>1. Within(j)' \subseteq Relay
    BY DEF Within
  <2>2. QED BY <2>1, FiniteAssumption, FS_Subset
<1>5. Cardinality(Within(j)) <= Cardinality(Within(j)') /\ Cardinality(Within(j)') \in Nat
  BY <1>3, <1>4, FS_Subset, FS_CardinalityType
<1>6. Cardinality(Within(j)) >= j /\ Cardinality(Within(j)) \in Nat
  BY WithinFacts DEF Counted
<1>7. QED BY <1>5, <1>6

LEMMA RecvHopConfCounted ==
  ASSUME NetType, NetType', CurrentRound, NumbersCounted,
         NEW r \in Relay, NEW f \in FrameId, RecvHopConf(r, f), UNCHANGED base_conf_seqn
  PROVE  NumbersCounted'
<1> DEFINE known == IF conf_seqn[r] # base_conf_seqn THEN HOP_NR_INITIAL ELSE hop_nr[r]
<1>1. PICK h \in Nat :
        /\ Receive(r, f) /\ r \in Node /\ IsConf(f) /\ air[f].body.hop_nr = h
        /\ conf_seqn' = [conf_seqn EXCEPT ![r] = base_conf_seqn]
        /\ hop_nr' = [hop_nr EXCEPT ![r] = IF known > h + 1 THEN h + 1 ELSE known]
        /\ flg_conf' = [flg_conf EXCEPT ![r] = flg_conf[r] \/ known > h + 1]
  BY HopConfEffect DEF Node
<1>2. /\ hop_nr \in [Relay -> Nat] /\ conf_seqn \in [Relay -> 0 .. ConfMod - 1]
      /\ flg_conf \in [Relay -> BOOLEAN] /\ base_conf_seqn \in 0 .. ConfMod - 1
  BY DEF NetType, TypeOK
<1>3. \A m \in Relay : conf_seqn[m] = base_conf_seqn =>
        conf_seqn'[m] = base_conf_seqn /\ hop_nr'[m] <= hop_nr[m]
  BY HopConfShrinks
<1>4. \A n \in Nat : Carried(n) => Counted(n)'
  BY <1>3, CountedStays DEF NumbersCounted
<1>5. Counted(h) /\ Counted(h)'
  BY <1>1, <1>4 DEF NumbersCounted, Carried
<1>6. ASSUME known > h + 1 PROVE Counted(h + 1)' /\ h + 1 <= Cardinality(Relay)
  <2>1. hop_nr'[r] = h + 1 /\ conf_seqn'[r] = base_conf_seqn
    BY <1>1, <1>2, <1>6
  <2>2. r \notin Within(h)
    BY <1>1, <1>2, <1>6 DEF Within
  <2> HIDE DEF known
  <2>3. Within(h) \cup {r} \subseteq Within(h + 1)'
    <3>1. ASSUME NEW m \in Within(h), m # r PROVE m \in Within(h + 1)'
      <4>1. m \in Relay /\ conf_seqn[m] = base_conf_seqn /\ hop_nr[m] <= h /\ hop_nr[m] \in Nat
        BY <1>2 DEF Within
      <4>2. conf_seqn'[m] = conf_seqn[m] /\ hop_nr'[m] = hop_nr[m]
        BY <1>1, <1>2, <3>1, <4>1
      <4>3. hop_nr'[m] <= h + 1
        BY <1>1, <4>1, <4>2
      <4>4. QED BY <4>1, <4>2, <4>3 DEF Within
    <3>2. r \in Within(h + 1)'
      BY <1>1, <2>1 DEF Within
    <3>3. QED BY <3>1, <3>2
  <2>4. Cardinality(Within(h)) >= h
    <3>1. CASE h = 0
      BY <3>1, WithinFacts
    <3>2. CASE h # 0
      <4>1. h \in 1 .. h
        BY <3>2
      <4>2. QED BY <1>5, <4>1 DEF Counted
    <3>3. QED BY <3>1, <3>2
  <2>5. /\ IsFiniteSet(Within(h) \cup {r})
        /\ Cardinality(Within(h) \cup {r}) = Cardinality(Within(h)) + 1
    BY <2>2, WithinFacts, FS_AddElement
  <2>6. Within(h + 1)' \subseteq Relay /\ IsFiniteSet(Relay)
    BY FiniteAssumption DEF Within
  <2>7. /\ IsFiniteSet(Within(h + 1)') /\ Cardinality(Within(h + 1)') \in Nat
        /\ Cardinality(Within(h + 1)') <= Cardinality(Relay) /\ Cardinality(Relay) \in Nat
    BY <2>6, FS_Subset, FS_CardinalityType
  <2>8. Cardinality(Within(h) \cup {r}) <= Cardinality(Within(h + 1)')
    BY <2>3, <2>7, FS_Subset
  <2>9. Cardinality(Within(h + 1)') >= h + 1
    BY <2>4, <2>5, <2>7, <2>8, WithinFacts
  <2>10. Counted(h + 1)'
    <3>1. SUFFICES ASSUME NEW j \in 1 .. h + 1 PROVE Cardinality(Within(j)') >= j
      BY DEF Counted
    <3>2. CASE j \in 1 .. h
      BY <1>5, <3>2 DEF Counted
    <3>3. CASE j = h + 1
      BY <2>9, <3>3
    <3>4. QED BY <3>2, <3>3
  <2>11. QED BY <2>7, <2>9, <2>10
<1>7. ASSUME NEW v \in Nat, Carried(v)' PROVE Counted(v)'
  <2>1. CASE \E g \in FrameId : IsConf(g)' /\ air'[g].body.hop_nr = v
    <3>1. Carried(v)
      BY <1>1, <2>1, ReceiveKeeps DEF AirOnly, Carried
    <3>2. QED BY <1>4, <3>1
  <2>2. CASE \E m \in Relay : flg_conf'[m] /\ hop_nr'[m] = v
    <3>1. PICK m \in Relay : flg_conf'[m] /\ hop_nr'[m] = v
      BY <2>2
    <3>2. CASE m = r /\ known > h + 1
      <4>1. v = h + 1
        BY <1>1, <1>2, <3>1, <3>2
      <4>2. QED BY <1>6, <3>2, <4>1
    <3>3. CASE ~ (m = r /\ known > h + 1)
      <4>1. flg_conf[m] /\ conf_seqn[m] = base_conf_seqn
        BY <1>1, <1>2, <3>1, <3>3 DEF CurrentRound
      <4>2. hop_nr[m] = v
        BY <1>1, <1>2, <3>1, <3>3, <4>1
      <4>3. QED BY <1>4, <4>1, <4>2 DEF Carried
    <3>4. QED BY <3>2, <3>3
  <2>3. QED BY <1>7, <2>1, <2>2 DEF Carried
<1>8. ASSUME NEW m \in Relay, hop_nr'[m] # HOP_NR_INITIAL
      PROVE  hop_nr'[m] <= Cardinality(Relay)
  <2>1. CASE m # r
    BY <1>1, <1>2, <1>8, <2>1 DEF NumbersCounted
  <2>2. CASE m = r /\ known > h + 1
    BY <1>1, <1>2, <1>6, <2>2
  <2>3. CASE m = r /\ ~ (known > h + 1)
    BY <1>1, <1>2, <1>8, <2>3 DEF NumbersCounted
  <2>4. QED BY <2>1, <2>2, <2>3
<1>9. QED BY <1>7, <1>8 DEF NumbersCounted

\* A step in which no relay learns a number keeps the rest.
LEMMA QuietCounted ==
  ASSUME NetType, NetType', NumbersCounted, UNCHANGED <<hop_nr, conf_seqn, base_conf_seqn>>,
         \A h \in Nat : Carried(h)' => Carried(h)
  PROVE  NumbersCounted'
<1>1. hop_nr \in [Relay -> Nat]
  BY DEF NetType, TypeOK
<1>2. \A m \in Relay : conf_seqn[m] = base_conf_seqn =>
        conf_seqn'[m] = base_conf_seqn /\ hop_nr'[m] <= hop_nr[m]
  BY <1>1
<1>3. \A n \in Nat : Counted(n) => Counted(n)'
  BY <1>2, CountedStays
<1>4. QED BY <1>3 DEF NumbersCounted

LEMMA UnconcernedCounted ==
  ASSUME NetType, NetType', NumbersCounted, Unconcerned
  PROVE  NumbersCounted'
<1>1. \A h \in Nat : Carried(h)' => Carried(h)
  BY DEF Carried, Unconcerned, AirOnly
<1>2. QED BY <1>1, QuietCounted DEF Unconcerned

LEMMA SendConfCounted ==
  ASSUME NetType, NetType', CurrentRound, NumbersCounted,
         NEW r \in Relay, NEW to \in SUBSET Link[r], SendConf(r, to), UNCHANGED base_conf_seqn
  PROVE  NumbersCounted'
<1>1. /\ flg_conf \in [Relay -> BOOLEAN] /\ hop_nr' = hop_nr
      /\ flg_conf[r] /\ flg_conf' = [flg_conf EXCEPT ![r] = FALSE]
      /\ HopConf(conf_seqn[r], hop_nr[r]).hop_nr = hop_nr[r]
  BY SendConfRound DEF NetType, TypeOK, HopConf
<1>2. \A f \in FrameId : IsConf(f)' =>
        \/ IsConf(f) /\ air'[f].body = air[f].body
        \/ air'[f].body = HopConf(conf_seqn[r], hop_nr[r])
  BY SendConfRound
<1>3. ASSUME NEW h \in Nat, Carried(h)' PROVE Carried(h)
  BY <1>1, <1>2, <1>3 DEF Carried
<1>4. UNCHANGED <<hop_nr, conf_seqn, base_conf_seqn>>
  BY SendConfRound
<1>5. QED BY <1>3, <1>4, QuietCounted

LEMMA StartRoundCounted ==
  ASSUME SettledRounds, NetType, CurrentRound, NumbersCounted,
         NEW to \in SUBSET Link[Base], Round(to), UNCHANGED <<hop_nr, conf_seqn, flg_conf>>
  PROVE  NumbersCounted'
<1>1. /\ \A r \in Relay : ~ flg_conf[r]
      /\ \A f \in FrameId : IsConf(f)' => air'[f].body = HopConf(base_conf_seqn', 0)
  BY StartRoundRound DEF Settled
<1>2. ASSUME NEW h \in Nat, Carried(h)' PROVE h = 0
  BY <1>1, <1>2 DEF Carried, HopConf
<1>3. ASSUME NEW h \in Nat, h = 0 PROVE Counted(h)'
  BY <1>3 DEF Counted
<1>4. QED BY <1>2, <1>3 DEF NumbersCounted

LEMMA NumbersCountedInit == Init => NumbersCounted
<1> SUFFICES ASSUME Init PROVE NumbersCounted
  OBVIOUS
<1>1. /\ air = [f \in FrameId |-> NoFrame] /\ hop_nr = [r \in Relay |-> HOP_NR_INITIAL]
      /\ flg_conf = [r \in Relay |-> FALSE]
  BY DEF Init, RadioInit, RelayInit
<1>2. NoFrame.body.type # "HOP_CONF"
  BY DEF NoFrame
<1>3. QED BY <1>1, <1>2 DEF NumbersCounted, Carried, IsConf
-----------------------------------------------------------------------------
(* A round of which every message arrives tells every relay its distance *)

\* The numbers of relay r have been passed on to the relays in its range.
PassedOn(r) ==
  conf_seqn[r] = base_conf_seqn /\ hop_nr[r] # HOP_NR_INITIAL /\ ~ flg_conf[r] =>
    \A m \in Link[r] \cap Relay : Told(m, hop_nr[r])

Telling ==
  complete => /\ \A m \in Link[Base] \cap Relay : Told(m, 0)
              /\ \A r \in Relay : PassedOn(r)

\* What a relay has been told stays on its way to it until the relay knows it.
LEMMA ToldStays ==
  ASSUME Kept(Base), UNCHANGED <<hop_nr, conf_seqn, base_conf_seqn>>,
         NEW m \in Relay, NEW v \in Nat, Told(m, v)
  PROVE  Told(m, v)'
<1>1. m \in Relay \ {Base}
  OBVIOUS
<1>2. CASE conf_seqn[m] = base_conf_seqn /\ hop_nr[m] <= v + 1
  BY <1>2 DEF Told
<1>3. ASSUME NEW f \in FrameId, IsConf(f), air[f].body.hop_nr <= v, m \in air[f].to
      PROVE  Told(m, v)'
  <2>1. air'[f].body = air[f].body /\ m \in air'[f].to
    BY <1>1, <1>3 DEF Kept
  <2>2. QED BY <1>3, <2>1 DEF Told, IsConf
<1>4. QED BY <1>2, <1>3 DEF Told

\* A relay that is not told anew stays told.
LEMMA QuietTelling ==
  ASSUME NetType, Kept(Base), UNCHANGED <<hop_nr, conf_seqn, base_conf_seqn>>
  PROVE  /\ (\A m \in Link[Base] \cap Relay : Told(m, 0)) =>
              (\A m \in Link[Base] \cap Relay : Told(m, 0)')
         /\ \A r \in Relay : PassedOn(r) /\ (flg_conf[r] => flg_conf'[r]) => PassedOn(r)'
<1>1. hop_nr \in [Relay -> Nat]
  BY DEF NetType, TypeOK
<1>2. (\A m \in Link[Base] \cap Relay : Told(m, 0)) =>
        (\A m \in Link[Base] \cap Relay : Told(m, 0)')
  BY ToldStays
<1>3. ASSUME NEW r \in Relay, PassedOn(r), flg_conf[r] => flg_conf'[r] PROVE PassedOn(r)'
  <2>1. PICK v \in Nat : hop_nr[r] = v
    BY <1>1
  <2>2. \A m \in Relay : Told(m, v) => Told(m, v)'
    BY ToldStays
  <2>3. SUFFICES ASSUME conf_seqn[r] = base_conf_seqn, v # HOP_NR_INITIAL, ~ flg_conf[r],
                        NEW m \in Link[r] \cap Relay
                 PROVE  Told(m, hop_nr[r])'
    BY <1>3, <2>1 DEF PassedOn
  <2>4. Told(m, v)
    BY <1>3, <2>1, <2>3 DEF PassedOn
  <2>5. Told(m, v)' /\ hop_nr'[r] = v
    BY <2>1, <2>2, <2>4
  <2>6. QED BY <2>5 DEF Told, IsConf
<1>4. QED BY <1>2, <1>3

\* A message that a relay receives makes it know what it was told.
LEMMA RecvHopConfTold ==
  ASSUME NetType, NetType', CurrentRound, NEW r \in Relay, NEW f \in FrameId,
         RecvHopConf(r, f), UNCHANGED base_conf_seqn,
         NEW m \in Relay, NEW v \in Nat, Told(m, v)
  PROVE  Told(m, v)'
<1> DEFINE known == IF conf_seqn[r] # base_conf_seqn THEN HOP_NR_INITIAL ELSE hop_nr[r]
<1>1. PICK h \in Nat :
        /\ Receive(r, f) /\ r \in Node /\ IsConf(f) /\ air[f].body.hop_nr = h
        /\ conf_seqn' = [conf_seqn EXCEPT ![r] = base_conf_seqn]
        /\ hop_nr' = [hop_nr EXCEPT ![r] = IF known > h + 1 THEN h + 1 ELSE known]
  BY HopConfEffect DEF Node
<1>2. /\ hop_nr \in [Relay -> Nat] /\ hop_nr' \in [Relay -> Nat]
      /\ conf_seqn \in [Relay -> 0 .. ConfMod - 1]
  BY DEF NetType, TypeOK
<1>3. CASE conf_seqn[m] = base_conf_seqn /\ hop_nr[m] <= v + 1
  <2>1. conf_seqn'[m] = base_conf_seqn /\ hop_nr'[m] <= hop_nr[m]
    BY <1>3, HopConfShrinks
  <2>2. hop_nr[m] \in Nat /\ hop_nr'[m] \in Nat
    BY <1>2
  <2>3. QED BY <1>3, <2>1, <2>2 DEF Told
<1>4. ASSUME NEW g \in FrameId, IsConf(g), air[g].body.hop_nr <= v, m \in air[g].to
      PROVE  Told(m, v)'
  <2>1. CASE air'[g].body = air[g].body /\ m \in air'[g].to
    BY <1>4, <2>1 DEF Told, IsConf
  <2>2. CASE g = f /\ m = r
    <3>1. hop_nr'[m] <= h + 1 /\ conf_seqn'[m] = base_conf_seqn
      BY <1>1, <1>2, <2>2
    <3>2. h <= v /\ hop_nr'[m] \in Nat
      BY <1>1, <1>2, <1>4, <2>2
    <3>3. hop_nr'[m] <= v + 1
      BY <3>1, <3>2
    <3>4. QED BY <3>1, <3>3 DEF Told
  <2>3. QED BY <1>1, <1>4, <2>1, <2>2, ReceiveKeeps
<1>5. QED BY <1>3, <1>4 DEF Told

LEMMA RecvHopConfTelling ==
  ASSUME NetType, NetType', CurrentRound, NEW r \in Relay, NEW f \in FrameId,
         RecvHopConf(r, f), UNCHANGED base_conf_seqn
  PROVE  /\ (\A m \in Link[Base] \cap Relay : Told(m, 0)) =>
              (\A m \in Link[Base] \cap Relay : Told(m, 0)')
         /\ \A n \in Relay : PassedOn(n) => PassedOn(n)'
<1> DEFINE known == IF conf_seqn[r] # base_conf_seqn THEN HOP_NR_INITIAL ELSE hop_nr[r]
<1>1. PICK h \in Nat :
        /\ conf_seqn' = [conf_seqn EXCEPT ![r] = base_conf_seqn]
        /\ hop_nr' = [hop_nr EXCEPT ![r] = IF known > h + 1 THEN h + 1 ELSE known]
        /\ flg_conf' = [flg_conf EXCEPT ![r] = flg_conf[r] \/ known > h + 1]
  BY HopConfEffect
<1>2. /\ hop_nr \in [Relay -> Nat] /\ flg_conf \in [Relay -> BOOLEAN]
      /\ conf_seqn \in [Relay -> 0 .. ConfMod - 1] /\ base_conf_seqn \in 0 .. ConfMod - 1
  BY DEF NetType, TypeOK
<1>3. \A m \in Relay : \A v \in Nat : Told(m, v) => Told(m, v)'
  BY RecvHopConfTold
<1>4. ASSUME NEW n \in Relay, PassedOn(n), conf_seqn'[n] = base_conf_seqn,
             hop_nr'[n] # HOP_NR_INITIAL, ~ flg_conf'[n], NEW m \in Link[n] \cap Relay
      PROVE  Told(m, hop_nr[n])'
  <2>1. conf_seqn[n] = base_conf_seqn /\ hop_nr'[n] = hop_nr[n] /\ ~ flg_conf[n]
    <3>1. CASE n # r
      BY <1>1, <1>2, <1>4, <3>1
    <3>2. CASE n = r
      BY <1>1, <1>2, <1>4, <3>2
    <3>3. QED BY <3>1, <3>2
  <2>2. PICK v \in Nat : hop_nr[n] = v
    BY <1>2
  <2>3. Told(m, v)
    BY <1>4, <2>1, <2>2 DEF PassedOn
  <2>4. Told(m, v)' /\ hop_nr'[n] = v
    BY <1>3, <2>1, <2>2, <2>3
  <2>5. QED BY <2>4 DEF Told, IsConf
<1>5. \A n \in Relay : PassedOn(n) => PassedOn(n)'
  BY <1>4 DEF PassedOn
<1>6. QED BY <1>3, <1>5

\* A message sent to all nodes in range tells them its number.
LEMMA SentTells ==
  ASSUME NEW n \in Node, NEW s \in 0 .. ConfMod - 1, NEW v \in Nat, SentToAll(n),
         \A f \in FrameId : air[f] = NoFrame /\ air'[f] # NoFrame => air'[f].body = HopConf(s, v)
  PROVE  \A m \in Link[n] \cap Relay : Told(m, v)'
<1>1. SUFFICES ASSUME NEW m \in Link[n] \cap Relay PROVE Told(m, v)'
  OBVIOUS
<1>2. PICK f \in FrameId : air[f] = NoFrame /\ air'[f].to = Link[n]
  BY DEF SentToAll
<1>3. m \in air'[f].to
  BY <1>1, <1>2
<1>4. air'[f] # NoFrame
  BY <1>3 DEF NoFrame
<1>5. air'[f].body = HopConf(s, v)
  BY <1>2, <1>4
<1>6. air'[f].body.type = "HOP_CONF" /\ air'[f].body.hop_nr = v
  BY <1>5 DEF HopConf
<1>7. QED BY <1>3, <1>6 DEF Told, IsConf

LEMMA SendConfTelling ==
  ASSUME NetType, CurrentRound, NEW r \in Relay, NEW to \in SUBSET Link[r], SendConf(r, to),
         UNCHANGED base_conf_seqn,
         \A n \in Relay : flg_conf[n] /\ ~flg_conf'[n] => SentToAll(n), Telling, complete
  PROVE  /\ \A m \in Link[Base] \cap Relay : Told(m, 0)'
         /\ \A n \in Relay : PassedOn(n)'
<1>1. /\ hop_nr \in [Relay -> Nat] /\ flg_conf \in [Relay -> BOOLEAN]
      /\ conf_seqn \in [Relay -> 0 .. ConfMod - 1]
  BY DEF NetType, TypeOK
<1>2. /\ Kept(Base) /\ UNCHANGED <<hop_nr, conf_seqn>>
      /\ flg_conf[r] /\ flg_conf' = [flg_conf EXCEPT ![r] = FALSE]
      /\ \A f \in FrameId : air[f] = NoFrame /\ air'[f] # NoFrame =>
           air'[f].body = HopConf(conf_seqn[r], hop_nr[r])
  BY SendConfRound
<1>3. SentToAll(r)
  BY <1>1, <1>2
<1>4. \A n \in Relay \ {r} : PassedOn(n)'
  BY <1>1, <1>2, QuietTelling DEF Telling
<1>5. PassedOn(r)'
  <2>1. PICK v \in Nat : hop_nr[r] = v
    BY <1>1
  <2>2. r \in Node /\ conf_seqn[r] \in 0 .. ConfMod - 1
    BY <1>1 DEF Node
  <2>3. \A m \in Link[r] \cap Relay : Told(m, v)'
    BY <1>2, <1>3, <2>1, <2>2, SentTells
  <2>4. hop_nr'[r] = v
    BY <1>2, <2>1
  <2>5. QED BY <2>3, <2>4 DEF PassedOn, Told, IsConf
<1>6. QED BY <1>2, <1>4, <1>5, QuietTelling DEF Telling

LEMMA StartRoundTelling ==
  ASSUME SettledRounds, NetType, NetType', CurrentRound, NEW to \in SUBSET Link[Base], Round(to),
         UNCHANGED <<hop_nr, conf_seqn, flg_conf>>, NumberIsNew, SentToAll(Base)
  PROVE  /\ \A m \in Link[Base] \cap Relay : Told(m, 0)'
         /\ \A n \in Relay : PassedOn(n)'
<1>1. Base \in Node /\ base_conf_seqn' \in 0 .. ConfMod - 1
  BY DEF NetType, TypeOK, Node
<1>2. \A f \in FrameId : air[f] = NoFrame /\ air'[f] # NoFrame =>
        air'[f].body = HopConf(base_conf_seqn', 0)
  BY StartRoundRound
<1>3. \A m \in Link[Base] \cap Relay : Told(m, 0)'
  <2>1. PICK s \in 0 .. ConfMod - 1 : s = base_conf_seqn'
    BY <1>1
  <2>2. \A f \in FrameId : air[f] = NoFrame /\ air'[f] # NoFrame => air'[f].body = HopConf(s, 0)
    BY <1>2, <2>1
  <2>3. QED BY <1>1, <2>2, SentTells
<1>4. \A n \in Relay : PassedOn(n)'
  BY DEF PassedOn, NumberIsNew
<1>5. QED BY <1>3, <1>4

\* The kinds of steps again, for what a round has told so far.
LEMMA StepTelling ==
  ASSUME SettledRounds, NetType, NetType', CurrentRound, Telling, RoundsNext
  PROVE  Telling'
<1>1. SUFFICES ASSUME complete'
               PROVE  /\ \A m \in Link[Base] \cap Relay : Told(m, 0)'
                      /\ \A n \in Relay : PassedOn(n)'
  BY DEF Telling
<1>2. /\ Next /\ \A r \in Relay : ~Restart(r)
      /\ NewRound => NumberIsNew /\ SentToAll(Base)
      /\ ~NewRound => complete /\ \A r \in Relay : flg_conf[r] /\ ~flg_conf'[r] => SentToAll(r)
  BY <1>1 DEF RoundsNext
<1>3. CASE NewRound
  <2>1. PICK to \in SUBSET Link[Base] : Round(to) /\ UNCHANGED <<hop_nr, conf_seqn, flg_conf>>
    BY <1>2, <1>3, StepKinds DEF NewRound, Unconcerned
  <2>2. QED BY <1>2, <1>3, <2>1, StartRoundTelling
<1>4. CASE ~NewRound
  <2>1. /\ complete /\ UNCHANGED base_conf_seqn
        /\ \A m \in Link[Base] \cap Relay : Told(m, 0)
        /\ \A n \in Relay : PassedOn(n)
        /\ \A r \in Relay : flg_conf[r] /\ ~flg_conf'[r] => SentToAll(r)
    BY <1>2, <1>4 DEF NewRound, Telling
  <2>2. ASSUME Kept(Base), UNCHANGED <<hop_nr, conf_seqn, flg_conf>>
        PROVE  /\ \A m \in Link[Base] \cap Relay : Told(m, 0)'
               /\ \A n \in Relay : PassedOn(n)'
    BY <2>1, <2>2, QuietTelling
  <2>3. ASSUME NEW r \in Relay, NEW f \in FrameId, RecvHopConf(r, f)
        PROVE  /\ \A m \in Link[Base] \cap Relay : Told(m, 0)'
               /\ \A n \in Relay : PassedOn(n)'
    BY <2>1, <2>3, RecvHopConfTelling
  <2>4. ASSUME NEW r \in Relay, NEW to \in SUBSET Link[r], SendConf(r, to)
        PROVE  /\ \A m \in Link[Base] \cap Relay : Told(m, 0)'
               /\ \A n \in Relay : PassedOn(n)'
    BY <2>1, <2>4, SendConfTelling
  <2>5. ASSUME NEW to \in SUBSET Link[Base], Round(to), UNCHANGED <<hop_nr, conf_seqn, flg_conf>>
        PROVE  Kept(Base)
    BY <2>5, StartRoundRound
  <2>6. QED BY <1>2, <2>2, <2>3, <2>4, <2>5, StepKinds DEF Unconcerned
<1>5. QED BY <1>3, <1>4

-----------------------------------------------------------------------------
(* The invariant of the rounds *)

RoundsInv ==
  /\ NetType /\ RouteInv
  /\ CurrentRound
  /\ steady => NumbersCounted
  /\ Telling

LEMMA RoundsInvInit == RoundsInit => RoundsInv
<1> SUFFICES ASSUME RoundsInit PROVE RoundsInv
  OBVIOUS
<1>1. Init /\ complete = FALSE
  BY DEF RoundsInit
<1>2. NetType /\ RouteInv
  BY <1>1, InitType, RouteInit
<1>3. QED BY <1>1, <1>2, CurrentRoundInit, NumbersCountedInit DEF RoundsInv, Telling

\* The flood's own invariants, at a step without a restart.
LEMMA StepRound ==
  ASSUME SettledRounds, NetType, NetType', CurrentRound, Next, \A r \in Relay : ~Restart(r)
  PROVE  CurrentRound' /\ (NumbersCounted => NumbersCounted')
<1>1. ASSUME NEW r \in Relay, NEW f \in FrameId, RecvHopConf(r, f), UNCHANGED base_conf_seqn
      PROVE  CurrentRound' /\ (NumbersCounted => NumbersCounted')
  BY <1>1, RecvHopConfRound, RecvHopConfCounted
<1>2. ASSUME NEW r \in Relay, NEW to \in SUBSET Link[r], SendConf(r, to), UNCHANGED base_conf_seqn
      PROVE  CurrentRound' /\ (NumbersCounted => NumbersCounted')
  BY <1>2, SendConfRound, SendConfCounted
<1>3. ASSUME NEW to \in SUBSET Link[Base], Round(to), UNCHANGED <<hop_nr, conf_seqn, flg_conf>>
      PROVE  CurrentRound' /\ (NumbersCounted => NumbersCounted')
  BY <1>3, StartRoundRound, StartRoundCounted
<1>4. CASE Unconcerned
  BY <1>4, UnconcernedRound, UnconcernedCounted
<1>5. QED BY <1>1, <1>2, <1>3, <1>4, StepKinds

LEMMA RoundsInvStep ==
  ASSUME SettledRounds, RoundsInv, [RoundsNext]_<<vars, complete, steady>>
  PROVE  RoundsInv'
<1>1. CASE RoundsNext
  <2>1. Next
    <3>1. ASSUME NEW r \in Relay, Restart(r), UNCHANGED baseVars PROVE Next
      BY <3>1 DEF Next, RelayStep
    <3>2. QED BY <1>1, <3>1 DEF RoundsNext
  <2>2. NetType' /\ RouteInv'
    BY <2>1, StepType, StepRouted DEF RoundsInv
  <2>3. Telling'
    BY <1>1, <2>2, StepTelling DEF RoundsInv
  <2>4. CurrentRound' /\ (steady' => NumbersCounted')
    <3>1. CASE (\A r \in Relay : ~Restart(r)) /\ steady' = steady
      BY <2>1, <2>2, <3>1, StepRound DEF RoundsInv
    <3>2. ASSUME NEW r \in Relay, Restart(r), UNCHANGED baseVars, steady' = FALSE
          PROVE  CurrentRound' /\ ~ steady'
      BY <3>2, RestartRound DEF RoundsInv
    <3>3. QED BY <1>1, <3>1, <3>2 DEF RoundsNext
  <2>5. QED BY <2>2, <2>3, <2>4 DEF RoundsInv
<1>2. CASE UNCHANGED <<vars, complete, steady>>
  <2>1. UNCHANGED vars /\ UNCHANGED <<air, hop_nr, conf_seqn, flg_conf, base_conf_seqn>>
    BY <1>2 DEF vars, relayVars, routeVars, baseVars
  <2>2. NetType' /\ RouteInv'
    BY <2>1, StepType, StepRouted DEF RoundsInv
  <2>3. Unconcerned
    BY <2>1 DEF Unconcerned, AirOnly, Kept, IsConf
  <2>4. CurrentRound' /\ (steady' => NumbersCounted')
    BY <1>2, <2>2, <2>3, UnconcernedRound, UnconcernedCounted DEF RoundsInv
  <2>5. Telling'
    BY <1>2, <2>3, QuietTelling DEF Unconcerned, Telling, RoundsInv
  <2>6. QED BY <2>2, <2>4, <2>5 DEF RoundsInv
<1>3. QED BY <1>1, <1>2

\* Once all is told, the distances follow along the shortest paths.
LEMMA ToldDistance ==
  ASSUME RoundsInv, complete, Settled
  PROVE  \A r \in Relay : conf_seqn[r] = base_conf_seqn /\ hop_nr[r] <= Dist[r]
<1>1. /\ Dist \in [Node -> Nat] /\ Dist[Base] = 0 /\ hop_nr \in [Relay -> Nat]
      /\ Node = Relay \cup {Base}
  BY DistAssumption DEF RoundsInv, NetType, TypeOK, Node
<1>2. \A m \in Relay : \A v : Told(m, v) => conf_seqn[m] = base_conf_seqn /\ hop_nr[m] <= v + 1
  BY DEF Told, Settled, IsConf
<1> DEFINE Far == {Dist[r] : r \in {s \in Relay :
                     ~ (conf_seqn[s] = base_conf_seqn /\ hop_nr[s] <= Dist[s])}}
<1>3. Far \subseteq Nat
  BY <1>1
<1>4. SUFFICES ASSUME Far # {} PROVE FALSE
  OBVIOUS
<1>5. PICK d \in Far : \A e \in Far : d <= e
  BY <1>3, <1>4, LeastNat
<1>6. PICK r \in Relay : d = Dist[r] /\ ~ (conf_seqn[r] = base_conf_seqn /\ hop_nr[r] <= Dist[r])
  BY <1>5
<1>7. PICK n \in Node : r \in Link[n] /\ Dist[r] = Dist[n] + 1
  BY ConnectedAssumption
<1>8. Dist[n] \in Nat /\ Dist[n] \notin Far
  <2>1. Dist[n] \in Nat /\ ~ (d <= Dist[n])
    BY <1>1, <1>6, <1>7
  <2>2. QED BY <1>5, <2>1
<1>9. CASE n = Base
  <2>1. Told(r, 0)
    BY <1>7, <1>9 DEF RoundsInv, Telling
  <2>2. QED BY <1>1, <1>2, <1>6, <1>7, <1>9, <2>1
<1>10. CASE n \in Relay
  <2>1. conf_seqn[n] = base_conf_seqn /\ hop_nr[n] <= Dist[n]
    BY <1>8, <1>10
  <2>2. Dist[n] < HOP_NR_INITIAL /\ hop_nr[n] \in Nat /\ hop_nr[r] \in Nat
    BY <1>1, <1>10, ConnectedAssumption
  <2>3. hop_nr[n] # HOP_NR_INITIAL
    BY <1>8, <2>1, <2>2
  <2>4. ~ flg_conf[n]
    BY <1>10 DEF Settled
  <2>5. Told(r, hop_nr[n])
    BY <1>7, <1>10, <2>1, <2>3, <2>4 DEF RoundsInv, Telling, PassedOn
  <2>6. conf_seqn[r] = base_conf_seqn /\ hop_nr[r] <= hop_nr[n] + 1
    BY <1>2, <2>5
  <2>7. hop_nr[r] <= Dist[r]
    BY <1>7, <1>8, <2>1, <2>2, <2>6
  <2>8. QED BY <1>6, <2>6, <2>7
<1>11. QED BY <1>1, <1>9, <1>10

\* A round whose messages all arrived leaves every relay with its distance to the
\* base station (relay-node.c:124-147), whatever the topology.
THEOREM RoundsConverge ==
  ASSUME SettledRounds
  PROVE  RoundsSpec => []RoundConverges
<1>1. RoundsInv => RoundConverges
  <2> SUFFICES ASSUME RoundsInv, complete, Settled
               PROVE  hop_nr = [r \in Relay |-> Dist[r]]
    BY DEF RoundConverges
  <2>1. hop_nr \in [Relay -> Nat] /\ \A r \in Relay : Dist[r] \in Nat
    BY DistAssumption DEF RoundsInv, NetType, TypeOK, Node
  <2>2. HopSound
    BY DEF RoundsInv, RouteInv, Routed, HopSound
  <2>3. ASSUME NEW r \in Relay PROVE hop_nr[r] = Dist[r]
    <3>1. hop_nr[r] <= Dist[r] /\ Dist[r] < HOP_NR_INITIAL
      BY ToldDistance, ConnectedAssumption
    <3>2. hop_nr[r] \in Nat /\ Dist[r] \in Nat
      BY <2>1
    <3>3. hop_nr[r] = HOP_NR_INITIAL \/ hop_nr[r] >= Dist[r]
      BY <2>2 DEF HopSound
    <3>4. QED BY <3>1, <3>2, <3>3
  <2>4. QED BY <2>1, <2>3
<1>2. QED BY <1>1, RoundsInvInit, RoundsInvStep, PTL DEF RoundsSpec

\* Hop numbers are the length of a path without repetition (relay-node.c:124-147):
\* without restarts they never exceed the number of relays.
THEOREM HopNumbersBounded ==
  ASSUME SettledRounds
  PROVE  RoundsSpec => []HopBounded
<1>1. RoundsInv => HopBounded
  BY DEF RoundsInv, NumbersCounted, HopBounded
<1>2. QED BY <1>1, RoundsInvInit, RoundsInvStep, PTL DEF RoundsSpec
=============================================================================
