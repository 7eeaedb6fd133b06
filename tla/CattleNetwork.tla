---------------------------- MODULE CattleNetwork ----------------------------
(***************************************************************************)
(* The relay nodes and the base station joined by the radio: aggregated    *)
(* data travels towards the base station against the hop numbers that the  *)
(* base station floods.  The sensor nodes are the environment: any sensor  *)
(* packet may reach any relay at any time, more than once.                 *)
(***************************************************************************)
EXTENDS RelayNode, BaseStation

CONSTANTS
  SettledRounds, \* TRUE: a round is over before the next one starts
  Dist           \* Dist[n]: least number of hops from n to the base station

ASSUME SettledAssumption == SettledRounds \in BOOLEAN

ASSUME DistAssumption ==
  /\ Dist \in [Node -> Nat]
  /\ Dist[Base] = 0
  /\ \A m \in Node : \A n \in Link[m] : Dist[n] <= Dist[m] + 1

vars == <<air, relayVars, baseVars>>

Init == RadioInit /\ RelayInit /\ BaseInit

\* No configuration message is on its way or due.
Settled ==
  /\ \A f \in FrameId : air[f].body.type # "HOP_CONF"
  /\ \A r \in Relay : ~flg_conf[r]

\* Rounds start every 200 s and a hop takes about one: in practice a round is
\* over before the next one starts.
Round(to) == (SettledRounds => Settled) /\ StartRound(to)

BaseStep ==
  \/ \E f \in FrameId : BaseRecvAggData(f) \/ BaseIgnore(f)
  \/ \E to \in SUBSET Link[Base] : Round(to)
  \/ BaseAckStep
  \/ BaseIdle

Next ==
  \/ (\E r \in Relay : RelayStep(r)) /\ UNCHANGED baseVars
  \/ BaseStep /\ UNCHANGED relayVars

Spec == Init /\ [][Next]_vars

-----------------------------------------------------------------------------
(* Fairness: timers fire and frames on the air are received; each kind of    *)
(* transmission that keeps being made reaches every node in range sometimes. *)

Deliver(f) ==
  \/ (\E r \in Relay : ReceiveStep(r, f)) /\ UNCHANGED baseVars
  \/ (BaseRecvAggData(f) \/ BaseIgnore(f)) /\ UNCHANGED relayVars

RelayTimers(r) ==
  \/ \E to \in SUBSET Link[r] : BroadcastStep(r, to)
  \/ SendAckStep(r) \/ SendAckSensor(r)

RelayFairness(r) ==
  /\ WF_vars(RelayTimers(r) /\ UNCHANGED baseVars)
  /\ SF_vars(SendConf(r, Link[r]) /\ UNCHANGED baseVars)
  /\ SF_vars(SendAggData(r, Link[r]) /\ UNCHANGED baseVars)
  /\ SF_vars(ForwardAggData(r, Link[r]) /\ UNCHANGED baseVars)
  /\ SF_vars(SendAckAgg(r, {ack_agg_fwd[r].dest} \cap Link[r]) /\ UNCHANGED baseVars)

Fairness ==
  /\ \A f \in FrameId : WF_vars(Deliver(f))
  /\ \A r \in Relay : RelayFairness(r)
  /\ SF_vars(Round(Link[Base]) /\ UNCHANGED relayVars)
  /\ SF_vars(BaseSendAck({base_ack.dest} \cap Link[Base]) /\ UNCHANGED relayVars)

FairSpec == Spec /\ Fairness

-----------------------------------------------------------------------------
(* Properties *)

PacketIds == UNION {{r} \X (0 .. Len(built[r]) - 1) : r \in Relay}

Slots == Relay \X {"send", "fwd"}
InSlot(s) == IF s[2] = "send" THEN agg_data_to_be_sent[s[1]] ELSE agg_data_fwd[s[1]]

\* The slots that hold packet id, and the acknowledgements of it that a relay
\* has sent or is about to send.
Copies(id) == {s \in Slots : InSlot(s) # NoPacket /\ Id(InSlot(s)) = id}
AckFrames(id) == {f \in FrameId : air[f].body.type = "ACK_AGG" /\ Id(air[f].body) = id}
AckSlots(id) == {r \in Relay : flg_ack_agg(r) /\ Id(ack_agg_fwd[r]) = id}

Body ==
  [type : {"HOP_CONF"}, seqn : 0 .. ConfMod - 1, hop_nr : Nat]
  \cup [type : {"AGGREGATED_DATA"}, address : Relay, seqno : Nat, hop_nr : Nat]
  \cup [type : {"ACK_AGG"}, address : Relay, seqno : Nat]

Frame == [src : Node, to : (SUBSET Node) \ {{}}, body : Body]

\* Type invariant of the network.
TypeOK ==
  /\ air \in [FrameId -> Frame \cup {NoFrame}]
  /\ hop_nr \in [Relay -> Nat]
  /\ conf_seqn \in [Relay -> 0 .. ConfMod - 1]
  /\ flg_conf \in [Relay -> BOOLEAN]
  /\ agg_data_buffer \in [Relay -> Seq(Reading)]
  /\ agg_data_to_be_sent \in [Relay -> Packet \cup {NoPacket}]
  /\ agg_data_fwd \in [Relay -> Packet \cup {NoPacket}]
  /\ ack_agg_fwd \in [Relay -> Ack \cup {NoAck}]
  /\ sensor_ack_list \in [Relay -> Seq(Reading)]
  /\ et_rnd \in [Relay -> BOOLEAN]
  /\ et_rnd_ack \in [Relay -> BOOLEAN]
  /\ built \in [Relay -> Seq(Seq(Reading))]
  /\ base_conf_seqn \in 0 .. ConfMod - 1
  /\ base_ack \in Ack \cup {NoAck}
  /\ base_et_rnd_ack \in BOOLEAN
  /\ received \in SUBSET (Relay \X Nat)

\* End to end custody (relay-node.c:153-167, 201-212): a packet built by a
\* relay is at the base station or still in the slot of some relay, whatever
\* is lost, delayed, repeated or overtaken on the way.
PacketHeld == \A id \in PacketIds : id \in received \/ Copies(id) # {}

\* Every acknowledgement under way for a packet that has not arrived stands for
\* a copy of its own, beside the one it will release.
Custody ==
  \A id \in PacketIds :
    \/ id \in received
    \/ Cardinality(Copies(id)) > Cardinality(AckFrames(id)) + Cardinality(AckSlots(id))

\* Work that is waiting has a timer running (relay-node.c:90-94, 115-119, 141-145,
\* 172-181, 257-277, 305, 324; base_station.c:67-71, 142): nothing else wakes
\* the two processes.
TimersArmed ==
  /\ \A r \in Relay :
       /\ flg_conf[r] \/ flg_agg_send(r) \/ flg_agg_fwd(r) => et_rnd[r]
       /\ flg_ack_agg(r) \/ sensor_ack_list[r] # << >> => et_rnd_ack[r]
  /\ base_ack # NoAck => base_et_rnd_ack

\* Readings by where they are: collected, in a packet still held, arrived.
RangeOf(seq) == {seq[i] : i \in DOMAIN seq}
Contents(id) == RangeOf(built[id[1]][id[2] + 1])
Collected == UNION {RangeOf(agg_data_buffer[r]) : r \in Relay}
HeldReadings == UNION {Contents(id) : id \in {i \in PacketIds : Copies(i) # {}}}
ArrivedReadings == UNION {Contents(id) : id \in received}
TakenReadings == Collected \cup HeldReadings \cup ArrivedReadings

\* What a sensor node is told (relay-node.c:83-88): a reading is acknowledged only
\* while the network holds it or after it has arrived.
AckedIsTaken == \A r \in Relay : RangeOf(sensor_ack_list[r]) \subseteq TakenReadings

RC == INSTANCE ReadingCustody WITH taken <- TakenReadings, arrived <- ArrivedReadings

\* The network implements the custody of readings.
KeepsCustody == RC!Spec

\* No hop number is ever too small (relay-node.c:127-133): a relay never believes
\* to be closer to the base station than it is, even when rounds overlap.
HopSound ==
  \A r \in Relay : hop_nr[r] = HOP_NR_INITIAL \/ hop_nr[r] >= Dist[r]

\* Every packet built reaches the base station.
EventuallyReceived ==
  \A r \in Relay : \A n \in 0 .. MaxBuilt[r] - 1 :
    Len(built[r]) > n ~> <<r, n>> \in received
=============================================================================
