----------------------------- MODULE CsmaProofs -----------------------------
(***************************************************************************)
(* Proofs about CsmaQueue and CsmaMemory, for all sets of receivers and    *)
(* all sizes of the pools.                                                 *)
(***************************************************************************)
EXTENDS CsmaMemory, ListFacts

USE DestAssumption, SizeAssumption

-----------------------------------------------------------------------------
(* The inductive invariant *)

\* A packet is in one queue, once.
Apart ==
  /\ \A d \in Dest : Distinct(queue[d]) /\ Elements(queue[d]) \subseteq 1 .. made
  /\ \A d, e \in Dest : d # e => Elements(queue[d]) \cap Elements(queue[e]) = {}

\* What is being sent.  A receiver that is not known to be awake is sent to by one
\* agent only; the packet after the one sent is another.
BurstSound ==
  /\ burst.at = "idle" => burst = Idle
  /\ burst.at # "idle" => burst.n \in Dest /\ burst.p \in 1 .. made
  /\ burst.at = "callback" => ~Queued(burst.p)
  /\ burst.next # 0 => burst.next # burst.p
  /\ burst.at = "send" /\ ~burst.awake => ~transmit_timer[burst.n]

\* Only queues that are not empty have a timer.
Timed == \A d \in Dest : transmit_timer[d] => queue[d] # << >>

Agents == BurstSound /\ Timed /\ QueueServed /\ PointersLive

Reports == ReportedOnce /\ \A p \in Packet : p > made => reports[p] = 0

CsmaInv == TypeOK /\ Apart /\ Agents /\ Reports /\ PoolsExact

-----------------------------------------------------------------------------
(* Queues *)

LEMMA EmptyFact ==
  ASSUME NEW S, NEW list \in Seq(S)
  PROVE  /\ list = << >> <=> Elements(list) = {}
         /\ list # << >> => Head(list) \in Elements(list)
<1>1. Len(list) \in Nat /\ DOMAIN list = 1 .. Len(list)
  BY ListDomain
<1>2. CASE list = << >>
  BY <1>2 DEF Elements
<1>3. CASE list # << >>
  <2>1. 1 \in DOMAIN list /\ Head(list) = list[1]
    BY <1>1, <1>3
  <2>2. QED BY <1>3, <2>1 DEF Elements
<1>4. QED BY <1>2, <1>3

LEMMA FiniteQueued ==
  ASSUME TypeOK
  PROVE  IsFiniteSet(QueuedPackets)
<1>1. IsFiniteSet(1 .. MaxPackets)
  BY FS_Interval
<1>2. QED BY <1>1, FS_Subset DEF QueuedPackets, Packet

\* A packet that is given to send_packet and finds room.
LEMMA EnqueueEffect ==
  ASSUME TypeOK, Apart, NEW d \in Dest, made < MaxPackets, made' = made + 1,
         Enqueue(d, made')
  PROVE  /\ made' \in Packet /\ ~Queued(made')
         /\ queue' \in [Dest -> Seq(Packet)] /\ Apart'
         /\ Elements(queue'[d]) = Elements(queue[d]) \cup {made'} /\ queue'[d] # << >>
         /\ \A e \in Dest : e # d => queue'[e] = queue[e]
         /\ QueuedPackets' = QueuedPackets \cup {made'}
<1>1. made \in Nat /\ MaxPackets \in Nat
  BY DEF TypeOK
<1>2. made' \in Packet /\ made' \notin 1 .. made /\ 1 .. made \subseteq 1 .. made'
  BY <1>1 DEF Packet
<1>3. \A e \in Dest : made' \notin Elements(queue[e])
  BY <1>2 DEF Apart
<1>4. /\ queue' = [queue EXCEPT ![d] = Append(queue[d], made')]
      /\ queue \in [Dest -> Seq(Packet)]
  BY DEF Enqueue, TypeOK
<1>5. queue[d] \in Seq(Packet) /\ Distinct(queue[d])
  BY <1>4 DEF Apart
<1>6. /\ Append(queue[d], made') \in Seq(Packet) /\ Append(queue[d], made') # << >>
      /\ Distinct(Append(queue[d], made'))
      /\ Elements(Append(queue[d], made')) = Elements(queue[d]) \cup {made'}
  BY <1>2, <1>3, <1>5, AppendFact
<1>7. /\ queue'[d] = Append(queue[d], made')
      /\ \A e \in Dest : e # d => queue'[e] = queue[e]
      /\ queue' \in [Dest -> Seq(Packet)]
  BY <1>4, <1>6
<1>8. Elements(queue'[d]) = Elements(queue[d]) \cup {made'} /\ Distinct(queue'[d])
  BY <1>6, <1>7
<1>9. Apart'
  <2>1. \A e \in Dest : Distinct(queue'[e]) /\ Elements(queue'[e]) \subseteq 1 .. made'
    <3>1. made' \in 1 .. made'
      BY <1>1
    <3>2. QED BY <1>2, <1>7, <1>8, <3>1 DEF Apart
  <2>2. ASSUME NEW e \in Dest, NEW f \in Dest, e # f
        PROVE  Elements(queue'[e]) \cap Elements(queue'[f]) = {}
    BY <1>3, <1>7, <1>8, <2>2 DEF Apart
  <2>3. QED BY <2>1, <2>2 DEF Apart
<1>10. ~Queued(made')
  BY <1>3, <1>4 DEF Queued, Elements
<1>11. QueuedPackets' = QueuedPackets \cup {made'}
  <2>1. QueuedPackets' = {p \in Packet : \E e \in Dest : p \in Elements(queue'[e])}
    BY DEF QueuedPackets, Queued
  <2>2. QueuedPackets = {p \in Packet : \E e \in Dest : p \in Elements(queue[e])}
    BY DEF QueuedPackets, Queued
  <2>3. QED BY <1>2, <1>7, <1>8, <2>1, <2>2
<1>12. QED BY <1>2, <1>6, <1>7, <1>8, <1>9, <1>10, <1>11

\* A packet that leaves its queue.
LEMMA FreeEffect ==
  ASSUME TypeOK, Apart, NEW n \in Dest, NEW p \in Elements(queue[n]), made' = made,
         FreePacket(n, p)
  PROVE  /\ p \in Packet /\ Queued(p) /\ ~Queued(p)'
         /\ queue' \in [Dest -> Seq(Packet)] /\ Apart'
         /\ Elements(queue'[n]) = Elements(queue[n]) \ {p}
         /\ \A e \in Dest : e # n => queue'[e] = queue[e]
         /\ QueuedPackets' = QueuedPackets \ {p}
<1>1. queue \in [Dest -> Seq(Packet)]
  BY DEF TypeOK
<1>2. queue[n] \in Seq(Packet) /\ Distinct(queue[n])
  BY <1>1 DEF Apart
<1>3. /\ Unlink(queue[n], p) \in Seq(Packet) /\ Distinct(Unlink(queue[n], p))
      /\ Elements(Unlink(queue[n], p)) = Elements(queue[n]) \ {p}
  BY <1>2, UnlinkFact
<1>4. queue' = [queue EXCEPT ![n] = Unlink(queue[n], p)]
  BY DEF FreePacket
<1>5. /\ queue' \in [Dest -> Seq(Packet)]
      /\ queue'[n] = Unlink(queue[n], p)
      /\ \A e \in Dest : e # n => queue'[e] = queue[e]
  BY <1>1, <1>3, <1>4
<1>6. p \in Packet
  BY <1>2, ListDomain
<1>7. Apart'
  BY <1>3, <1>5 DEF Apart
<1>8. \A e \in Dest : p \notin Elements(queue'[e])
  BY <1>3, <1>5 DEF Apart
<1>9. QueuedPackets' = QueuedPackets \ {p}
  <2>1. QueuedPackets' = {q \in Packet : \E e \in Dest : q \in Elements(queue'[e])}
    BY DEF QueuedPackets, Queued
  <2>2. QueuedPackets = {q \in Packet : \E e \in Dest : q \in Elements(queue[e])}
    BY DEF QueuedPackets, Queued
  <2>3. \A q \in Packet : q # p =>
          ((\E e \in Dest : q \in Elements(queue'[e])) <=> \E e \in Dest : q \in Elements(queue[e]))
    BY <1>3, <1>5
  <2>4. QED BY <1>8, <2>1, <2>2, <2>3
<1>10. Queued(p) /\ ~Queued(p)'
  BY <1>8 DEF Queued
<1>11. QED BY <1>3, <1>5, <1>6, <1>7, <1>9, <1>10

LEMMA FollowsFact ==
  ASSUME TypeOK, Apart, NEW n \in Dest, NEW p \in Elements(queue[n])
  PROVE  /\ Follows(n, p) \in Elements(queue[n]) \cup {0}
         /\ Follows(n, p) \in Packet \cup {0}
         /\ Follows(n, p) # p
<1>1. queue[n] \in Seq(Packet) /\ Distinct(queue[n])
  BY DEF TypeOK, Apart
<1>2. Len(queue[n]) \in Nat /\ Elements(queue[n]) \subseteq Packet /\ 0 \notin Packet
  BY <1>1, ListDomain DEF Packet
<1>3. Place(queue[n], p) \in 1 .. Len(queue[n]) /\ queue[n][Place(queue[n], p)] = p
  BY <1>1, PlaceFact
<1>4. CASE Place(queue[n], p) = Len(queue[n])
  BY <1>2, <1>4 DEF Follows
<1>5. CASE Place(queue[n], p) # Len(queue[n])
  <2>1. /\ Place(queue[n], p) + 1 \in 1 .. Len(queue[n])
        /\ Follows(n, p) = queue[n][Place(queue[n], p) + 1]
    BY <1>2, <1>3, <1>5 DEF Follows
  <2>2. /\ Follows(n, p) \in Elements(queue[n])
        /\ Place(queue[n], Follows(n, p)) = Place(queue[n], p) + 1
    BY <1>1, <2>1, PlaceIs
  <2>3. QED BY <1>2, <1>3, <2>2
<1>6. QED BY <1>4, <1>5

-----------------------------------------------------------------------------
(* The allocations of send_packet *)

\* What can be in use of the four pools.
InUse == [neighbors : SUBSET Dest, packets : Nat, metadata : Nat, queuebufs : Nat]

LEMMA SizeFact == QUEUEBUF_NUM \in Nat
OBVIOUS

LEMMA BufferFact ==
  ASSUME NEW u \in InUse
  PROVE  /\ TakeBuffer(u).ok <=> u.queuebufs < QUEUEBUF_NUM
         /\ TakeBuffer(u).ok => TakeBuffer(u).use = [u EXCEPT !.queuebufs = @ + 1]
         /\ ~TakeBuffer(u).ok => TakeBuffer(u).use = u
BY DEF TakeBuffer, Got, Failed, Take

\* Without metadata or a buffer, what was taken has been given back.
LEMMA MetadataFact ==
  ASSUME NEW u \in InUse
  PROVE  /\ TakeMetadata(u).ok <=> u.metadata < QUEUEBUF_NUM /\ u.queuebufs < QUEUEBUF_NUM
         /\ TakeMetadata(u).ok =>
              TakeMetadata(u).use = [u EXCEPT !.metadata = @ + 1, !.queuebufs = @ + 1]
         /\ ~TakeMetadata(u).ok => TakeMetadata(u).use = u
<1> DEFINE v == Take(u, "metadata")
<1>1. /\ v = [u EXCEPT !.metadata = u.metadata + 1] /\ v \in InUse
      /\ u.metadata \in Nat /\ v.metadata = u.metadata + 1 /\ v.queuebufs = u.queuebufs
  <2>1. v = [u EXCEPT !.metadata = u.metadata + 1]
    BY DEF Take
  <2>2. u.metadata \in Nat
    BY DEF InUse
  <2> HIDE DEF v
  <2>3. QED BY <2>1, <2>2 DEF InUse
<1>2. /\ TakeBuffer(v).ok <=> v.queuebufs < QUEUEBUF_NUM
      /\ TakeBuffer(v).ok => TakeBuffer(v).use = [v EXCEPT !.queuebufs = @ + 1]
      /\ ~TakeBuffer(v).ok => TakeBuffer(v).use = v
  BY <1>1, BufferFact
<1>3. CASE u.metadata >= QUEUEBUF_NUM
  BY <1>1, <1>3, SizeFact DEF TakeMetadata, Failed
<1>4. CASE u.metadata < QUEUEBUF_NUM /\ u.queuebufs < QUEUEBUF_NUM
  <2>1. TakeMetadata(u) = TakeBuffer(v) /\ TakeBuffer(v).ok
    BY <1>1, <1>2, <1>4, SizeFact DEF TakeMetadata
  <2>2. TakeMetadata(u).use = [u EXCEPT !.metadata = @ + 1, !.queuebufs = @ + 1]
    BY <1>1, <1>2, <2>1 DEF InUse
  <2>3. QED BY <1>4, <2>1, <2>2
<1>5. CASE u.metadata < QUEUEBUF_NUM /\ ~(u.queuebufs < QUEUEBUF_NUM)
  <2>1. TakeMetadata(u) = Failed(Give(v, "metadata"))
    BY <1>1, <1>2, <1>5, SizeFact DEF TakeMetadata
  <2>2. Give(v, "metadata") = u
    BY <1>1 DEF Give, InUse
  <2>3. QED BY <1>5, <2>1, <2>2 DEF Failed
<1>6. QED BY <1>1, <1>3, <1>4, <1>5, SizeFact

LEMMA PacketFact ==
  ASSUME NEW u \in InUse
  PROVE  /\ TakePacket(u).ok <=> /\ u.packets < QUEUEBUF_NUM
                                 /\ u.metadata < QUEUEBUF_NUM
                                 /\ u.queuebufs < QUEUEBUF_NUM
         /\ TakePacket(u).ok =>
              TakePacket(u).use = [u EXCEPT !.packets = @ + 1, !.metadata = @ + 1,
                                            !.queuebufs = @ + 1]
         /\ ~TakePacket(u).ok => TakePacket(u).use = u
<1> DEFINE v == Take(u, "packets")
           Inner == u.metadata < QUEUEBUF_NUM /\ u.queuebufs < QUEUEBUF_NUM
<1>1. /\ v = [u EXCEPT !.packets = u.packets + 1] /\ v \in InUse /\ u.packets \in Nat
      /\ v.packets = u.packets + 1 /\ v.metadata = u.metadata /\ v.queuebufs = u.queuebufs
  <2>1. v = [u EXCEPT !.packets = u.packets + 1]
    BY DEF Take
  <2>2. u.packets \in Nat
    BY DEF InUse
  <2> HIDE DEF v
  <2>3. QED BY <2>1, <2>2 DEF InUse
<1>2. /\ TakeMetadata(v).ok <=> Inner
      /\ TakeMetadata(v).ok =>
           TakeMetadata(v).use = [v EXCEPT !.metadata = @ + 1, !.queuebufs = @ + 1]
      /\ ~TakeMetadata(v).ok => TakeMetadata(v).use = v
  BY <1>1, MetadataFact
<1> HIDE DEF Inner
<1>3. CASE u.packets >= QUEUEBUF_NUM
  BY <1>1, <1>3, SizeFact DEF TakePacket, Failed
<1>4. CASE u.packets < QUEUEBUF_NUM /\ Inner
  <2>1. TakePacket(u) = TakeMetadata(v) /\ TakeMetadata(v).ok
    BY <1>1, <1>2, <1>4, SizeFact DEF TakePacket
  <2>2. TakePacket(u).use = [u EXCEPT !.packets = @ + 1, !.metadata = @ + 1, !.queuebufs = @ + 1]
    BY <1>1, <1>2, <2>1 DEF InUse
  <2>3. QED BY <1>4, <2>1, <2>2 DEF Inner
<1>5. CASE u.packets < QUEUEBUF_NUM /\ ~Inner
  <2>1. TakePacket(u) = Failed(Give(v, "packets"))
    BY <1>1, <1>2, <1>5, SizeFact DEF TakePacket
  <2>2. Give(v, "packets") = u
    BY <1>1 DEF Give, InUse
  <2>3. QED BY <1>5, <2>1, <2>2 DEF Failed, Inner
<1>6. QED BY <1>1, <1>3, <1>4, <1>5, SizeFact

\* When a packet for d is let in.
Fits(d) ==
  /\ HasNeighbor(d)
  /\ Len(queue[d]) < QUEUEBUF_NUM
  /\ packets < QUEUEBUF_NUM /\ metadata < QUEUEBUF_NUM /\ queuebufs < QUEUEBUF_NUM

\* A packet that is let in takes one element of each pool; whichever allocation fails,
\* all that were made before it have been undone.
LEMMA AllocateFact ==
  ASSUME TypeOK, PoolsExact, NEW d \in Dest
  PROVE  /\ Allocate(d).ok <=> Fits(d)
         /\ Fits(d) => Allocate(d).use = [Pools EXCEPT !.neighbors = @ \cup {d}, !.packets = @ + 1,
                                            !.metadata = @ + 1, !.queuebufs = @ + 1]
         /\ ~Fits(d) => Allocate(d).use = Pools
<1> DEFINE with == [Pools EXCEPT !.neighbors = @ \cup {d}]
           Inner == packets < QUEUEBUF_NUM /\ metadata < QUEUEBUF_NUM /\ queuebufs < QUEUEBUF_NUM
<1>1. /\ with \in InUse /\ with.neighbors = neighbors \cup {d}
      /\ with.packets = packets /\ with.metadata = metadata /\ with.queuebufs = queuebufs
  BY DEF TypeOK, Pools, InUse
<1>2. /\ TakePacket(with).ok <=> Inner
      /\ TakePacket(with).ok =>
           TakePacket(with).use = [with EXCEPT !.packets = @ + 1, !.metadata = @ + 1,
                                               !.queuebufs = @ + 1]
      /\ ~TakePacket(with).ok => TakePacket(with).use = with
  BY <1>1, PacketFact
<1>3. d \in neighbors <=> queue[d] # << >>
  BY DEF PoolsExact
<1>4. Len(queue[d]) \in Nat /\ (Len(queue[d]) > 0 => queue[d] # << >>)
  BY DEF TypeOK
<1>5. d \in neighbors => with = Pools
  BY DEF Pools
<1>6. d \notin neighbors => [with EXCEPT !.neighbors = @ \ {d}] = Pools
  <2>1. d \notin neighbors => (neighbors \cup {d}) \ {d} = neighbors
    OBVIOUS
  <2>2. [with EXCEPT !.neighbors = @ \ {d}]
          = [Pools EXCEPT !.neighbors = (neighbors \cup {d}) \ {d}]
    BY DEF Pools
  <2>3. [Pools EXCEPT !.neighbors = neighbors] = Pools
    BY DEF Pools
  <2>4. QED BY <2>1, <2>2, <2>3
<1>7. CASE ~HasNeighbor(d)
  BY <1>7 DEF Allocate, Failed, Fits
<1>8. CASE HasNeighbor(d) /\ Len(queue[d]) >= QUEUEBUF_NUM
  <2>1. Allocate(d) = Failed(with)
    BY <1>4, <1>8, SizeFact DEF Allocate
  <2>2. d \in neighbors
    BY <1>3, <1>4, <1>8, SizeAssumption
  <2>3. QED BY <1>4, <1>5, <1>8, <2>1, <2>2, SizeFact DEF Failed, Fits
<1>9. CASE HasNeighbor(d) /\ Len(queue[d]) < QUEUEBUF_NUM
  <2>1. Allocate(d) = IF TakePacket(with).ok \/ queue[d] # << >> THEN TakePacket(with)
                      ELSE Failed([TakePacket(with).use EXCEPT !.neighbors = @ \ {d}])
    BY <1>4, <1>9, SizeFact DEF Allocate
  <2>2. CASE TakePacket(with).ok
    <3>1. Allocate(d) = TakePacket(with) /\ Fits(d)
      BY <1>2, <1>9, <2>1, <2>2 DEF Fits
    <3>2. QED BY <1>1, <1>2, <2>2, <3>1 DEF Pools
  <2>3. CASE ~TakePacket(with).ok
    <3>1. ~Fits(d)
      BY <1>2, <2>3 DEF Fits
    <3>2. CASE queue[d] # << >>
      BY <1>2, <1>3, <1>5, <2>1, <2>3, <3>1, <3>2
    <3>3. CASE queue[d] = << >>
      <4>1. Allocate(d) = Failed([with EXCEPT !.neighbors = @ \ {d}])
        BY <1>2, <2>1, <2>3, <3>3
      <4>2. QED BY <1>3, <1>6, <3>1, <3>3, <4>1 DEF Failed
    <3>4. QED BY <3>2, <3>3
  <2>4. QED BY <2>2, <2>3
<1>10. QED BY <1>4, <1>7, <1>8, <1>9, SizeFact

\* What SetPools makes of it.
LEMMA SetPoolsFact ==
  ASSUME TypeOK, PoolsExact, NEW d \in Dest, SetPools(Allocate(d).use)
  PROVE  /\ Fits(d) => /\ neighbors' = neighbors \cup {d} /\ packets' = packets + 1
                       /\ metadata' = metadata + 1 /\ queuebufs' = queuebufs + 1
         /\ ~Fits(d) => /\ neighbors' = neighbors /\ packets' = packets
                        /\ metadata' = metadata /\ queuebufs' = queuebufs
<1> DEFINE more == [Pools EXCEPT !.neighbors = @ \cup {d}, !.packets = @ + 1,
                                 !.metadata = @ + 1, !.queuebufs = @ + 1]
<1>1. /\ Fits(d) => SetPools(more)
      /\ ~Fits(d) => SetPools(Pools)
  BY AllocateFact
<1>2. /\ more.neighbors = neighbors \cup {d} /\ more.packets = packets + 1
      /\ more.metadata = metadata + 1 /\ more.queuebufs = queuebufs + 1
  BY DEF Pools
<1> HIDE DEF more
<1>3. Fits(d) => /\ neighbors' = neighbors \cup {d} /\ packets' = packets + 1
                 /\ metadata' = metadata + 1 /\ queuebufs' = queuebufs + 1
  BY <1>1, <1>2 DEF SetPools
<1>4. ~Fits(d) => /\ neighbors' = neighbors /\ packets' = packets
                  /\ metadata' = metadata /\ queuebufs' = queuebufs
  BY <1>1 DEF SetPools, Pools
<1>5. QED BY <1>3, <1>4

-----------------------------------------------------------------------------
(* The initial states *)

LEMMA InitCsma == Init => CsmaInv
<1> SUFFICES ASSUME Init PROVE CsmaInv
  OBVIOUS
<1> USE DEF Init
<1>1. \A d \in Dest : queue[d] = << >> /\ ~transmit_timer[d] /\ deferred[d] = 0
  OBVIOUS
<1>2. \A d \in Dest : Elements(queue[d]) = {} /\ Distinct(queue[d])
  BY <1>1 DEF Elements, Distinct
<1>3. burst.at = "idle" /\ burst.next = 0 /\ burst.n = NONE /\ burst.p = 0
  BY DEF Idle
<1>4. TypeOK
  <2>1. queue \in [Dest -> Seq(Packet)]
    OBVIOUS
  <2>2. transmissions \in [Dest -> 0 .. CSMA_MAX_MAC_TRANSMISSIONS - 1]
    OBVIOUS
  <2>3. made \in 0 .. MaxPackets
    OBVIOUS
  <2>4. QED BY <2>1, <2>2, <2>3 DEF TypeOK, Idle
<1>5. Apart
  BY <1>2 DEF Apart
<1>6. Agents
  BY <1>1, <1>3 DEF Agents, BurstSound, Timed, QueueServed, PointersLive
<1>7. Reports
  BY <1>2, <1>3 DEF Reports, ReportedOnce
<1>8. PoolsExact
  <2>1. QueuedPackets = {}
    BY <1>2 DEF QueuedPackets, Queued
  <2>2. QED BY <1>1, <2>1, FS_EmptySet DEF PoolsExact
<1>9. QED BY <1>4, <1>5, <1>6, <1>7, <1>8 DEF CsmaInv

-----------------------------------------------------------------------------
(* A packet is given to send_packet, between bursts or by the callback of one *)

Sends(d, done) ==
  /\ SendPacket(d, done)
  /\ burst' = Idle
  /\ UNCHANGED <<others, deferred>>
  /\ \/ burst = Idle /\ done = {}
     \/ burst.at = "callback" /\ done = {burst.p}

LEMMA IdleFact ==
  /\ Idle.at = "idle" /\ Idle.n = NONE /\ Idle.p = 0 /\ Idle.next = 0
  /\ Idle.awake = FALSE /\ Idle.status = "NONE"
  /\ Idle \in [at : {"idle", "send", "sent", "callback"}, n : Dest \cup {NONE},
               p : Packet \cup {0}, next : Packet \cup {0}, awake : BOOLEAN,
               status : {"NONE", "OK", "NOACK", "COLLISION", "ERR_FATAL"}]
BY DEF Idle

LEMMA LimitFact ==
  CSMA_MAX_MAC_TRANSMISSIONS \in Nat /\ 0 \in 0 .. CSMA_MAX_MAC_TRANSMISSIONS - 1
<1>1. CSMA_MAX_MAC_TRANSMISSIONS \in Nat \ {0}
  OBVIOUS
<1>2. QED BY <1>1

LEMMA ReportFact ==
  ASSUME reports \in [Packet -> Nat], NEW done, Report(done)
  PROVE  /\ reports' \in [Packet -> Nat]
         /\ \A p \in Packet : reports'[p] = IF p \in done THEN reports[p] + 1 ELSE reports[p]
BY DEF Report

\* What holds before: no agent but timers and deferred transmissions.
LEMMA SendsBetween ==
  ASSUME CsmaInv, NEW d \in Dest, NEW done, Sends(d, done)
  PROVE  /\ made \in Nat /\ made < MaxPackets /\ made' = made + 1
         /\ made' \in Packet /\ made' \notin done /\ done \subseteq 1 .. made
         /\ \A p \in done : ~Queued(p)
         /\ \A e \in Dest : queue[e] # << >> => transmit_timer[e] \/ deferred[e] # 0
         /\ \A p \in 1 .. made : reports[p] = IF Queued(p) \/ p \in done THEN 0 ELSE 1
         /\ reports[made'] = 0 /\ ~Queued(made')
<1>1. made \in Nat /\ made < MaxPackets /\ made' = made + 1 /\ MaxPackets \in Nat
  BY DEF CsmaInv, TypeOK, Sends, SendPacket
<1>2. done \subseteq 1 .. made
  BY DEF Sends, CsmaInv, Agents, BurstSound
<1>3. made' \in Packet /\ made' \notin 1 .. made /\ made' > made
  BY <1>1 DEF Packet
<1>4. ~Queued(made')
  BY <1>3 DEF CsmaInv, Apart, Queued
<1>5. \A p \in done : ~Queued(p)
  BY IdleFact DEF Sends, CsmaInv, Agents, BurstSound
<1>6. \A e \in Dest : queue[e] # << >> => transmit_timer[e] \/ deferred[e] # 0
  BY IdleFact DEF Sends, CsmaInv, Agents, QueueServed
<1>7. \A p \in 1 .. made : reports[p] = IF Queued(p) \/ p \in done THEN 0 ELSE 1
  BY IdleFact DEF Sends, CsmaInv, Reports, ReportedOnce
<1>8. reports[made'] = 0
  BY <1>3 DEF CsmaInv, Reports
<1>9. QED BY <1>1, <1>2, <1>3, <1>4, <1>5, <1>6, <1>7, <1>8

\* What send_packet does to the pools.
LEMMA SendsTakes ==
  ASSUME CsmaInv, NEW d \in Dest, NEW done, Sends(d, done)
  PROVE  /\ Fits(d) => /\ neighbors' = neighbors \cup {d} /\ packets' = packets + 1
                       /\ metadata' = metadata + 1 /\ queuebufs' = queuebufs + 1
         /\ ~Fits(d) => /\ neighbors' = neighbors /\ packets' = packets
                        /\ metadata' = metadata /\ queuebufs' = queuebufs
BY SetPoolsFact DEF Sends, SendPacket, CsmaInv

\* A new neighbour has sent nothing.
LEMMA SendsResets ==
  ASSUME TypeOK, NEW d \in Dest, NEW done, SendPacket(d, done)
  PROVE  transmissions' \in [Dest -> 0 .. CSMA_MAX_MAC_TRANSMISSIONS - 1]
<1> DEFINE Limit == 0 .. CSMA_MAX_MAC_TRANSMISSIONS - 1
<1>1. /\ transmissions' = [transmissions EXCEPT ![d] =
                            IF HasNeighbor(d) /\ d \notin neighbors THEN 0 ELSE transmissions[d]]
      /\ transmissions \in [Dest -> Limit]
  BY DEF SendPacket, TypeOK
<1>2. 0 \in Limit
  BY LimitFact
<1> HIDE DEF Limit
<1>3. transmissions' \in [Dest -> Limit]
  BY <1>1, <1>2
<1>4. QED BY <1>3 DEF Limit

LEMMA SendsRoom ==
  ASSUME CsmaInv, NEW d \in Dest, NEW done, Sends(d, done), Fits(d)
  PROVE  CsmaInv'
<1>1. TypeOK /\ Apart /\ Agents /\ Reports /\ PoolsExact
  BY DEF CsmaInv
<1>2. /\ Enqueue(d, made') /\ Report(done) /\ burst' = Idle /\ made' = made + 1
      /\ others' = others /\ deferred' = deferred
  BY <1>1, AllocateFact DEF Sends, SendPacket
<1>3. /\ made \in Nat /\ made < MaxPackets /\ made' \in Packet
      /\ made' \notin done /\ done \subseteq 1 .. made
      /\ \A p \in done : ~Queued(p)
      /\ \A e \in Dest : queue[e] # << >> => transmit_timer[e] \/ deferred[e] # 0
      /\ \A p \in 1 .. made : reports[p] = IF Queued(p) \/ p \in done THEN 0 ELSE 1
      /\ reports[made'] = 0 /\ ~Queued(made')
  BY SendsBetween
<1>4. /\ queue' \in [Dest -> Seq(Packet)] /\ Apart'
      /\ Elements(queue'[d]) = Elements(queue[d]) \cup {made'} /\ queue'[d] # << >>
      /\ \A e \in Dest : e # d => queue'[e] = queue[e]
      /\ QueuedPackets' = QueuedPackets \cup {made'}
  BY <1>1, <1>2, <1>3, EnqueueEffect
<1>5. /\ transmit_timer' \in [Dest -> BOOLEAN]
      /\ \A e \in Dest : e # d => transmit_timer'[e] = transmit_timer[e]
      /\ transmit_timer'[d] = (transmit_timer[d] \/ queue[d] = << >>)
  <2>1. /\ transmit_timer' = [transmit_timer EXCEPT ![d] = transmit_timer[d] \/ queue[d] = << >>]
        /\ transmit_timer \in [Dest -> BOOLEAN]
    BY <1>1, <1>2 DEF Enqueue, TypeOK
  <2>2. QED BY <2>1
<1>6. /\ reports' \in [Packet -> Nat]
      /\ \A p \in Packet : reports'[p] = IF p \in done THEN reports[p] + 1 ELSE reports[p]
  BY <1>1, <1>2, ReportFact DEF TypeOK
<1>7. TypeOK'
  <2>1. transmissions' \in [Dest -> 0 .. CSMA_MAX_MAC_TRANSMISSIONS - 1]
    BY <1>1, SendsResets DEF Sends
  <2>2. /\ neighbors' \subseteq Dest
        /\ packets' \in Nat /\ metadata' \in Nat /\ queuebufs' \in Nat /\ others' \in Nat
        /\ deferred' \in [Dest -> Packet \cup {0}]
    <3>1. /\ neighbors' = neighbors \cup {d} /\ packets' = packets + 1
          /\ metadata' = metadata + 1 /\ queuebufs' = queuebufs + 1
      BY SendsTakes
    <3>2. /\ neighbors \subseteq Dest /\ packets \in Nat /\ metadata \in Nat
          /\ queuebufs \in Nat /\ others' \in Nat /\ deferred' \in [Dest -> Packet \cup {0}]
      BY <1>1, <1>2 DEF TypeOK
    <3>3. QED BY <3>1, <3>2
  <2>3. made' \in 0 .. MaxPackets
    BY <1>2, <1>3
  <2>4. QED BY <1>2, <1>4, <1>5, <1>6, <2>1, <2>2, <2>3, IdleFact DEF TypeOK
<1>8. Agents'
  <2>1. BurstSound' /\ \A e \in Dest : burst'.n # e
    BY <1>2, IdleFact DEF BurstSound
  <2>2. Timed'
    BY <1>1, <1>4, <1>5 DEF Agents, Timed
  <2>3. \A e \in Dest : deferred[e] # 0 =>
          deferred[e] \in Elements(queue[e]) /\ queue[e] # << >> /\ ~transmit_timer[e]
    <3>1. \A e \in Dest : deferred[e] # 0 =>
            deferred[e] \in Elements(queue[e]) /\ ~transmit_timer[e]
      BY <1>1 DEF Agents, QueueServed, PointersLive
    <3>2. QED BY <3>1 DEF Elements
  <2>4. QueueServed'
    <3>1. \A e \in Dest : queue'[e] # << >> => transmit_timer'[e] \/ deferred'[e] # 0
      BY <1>2, <1>3, <1>4, <1>5
    <3>2. \A e \in Dest : deferred'[e] # 0 => ~transmit_timer'[e] /\ burst'.n # e
      BY <1>2, <1>5, <2>1, <2>3
    <3>3. QED BY <3>1, <3>2 DEF QueueServed
  <2>5. PointersLive'
    BY <1>2, <1>4, <2>3, IdleFact DEF PointersLive
  <2>6. QED BY <2>1, <2>2, <2>4, <2>5 DEF Agents
<1>9. Reports'
  <2>1. \A p \in Packet : Queued(p)' <=> Queued(p) \/ p = made'
    BY <1>3, <1>4 DEF QueuedPackets
  <2>2. \A p \in 1 .. made' : p \in Packet /\ (p \in 1 .. made \/ p = made')
    BY <1>2, <1>3 DEF Packet
  <2>3. ASSUME NEW p \in 1 .. made'
        PROVE  reports'[p] = IF Queued(p)' THEN 0 ELSE 1
    <3>1. CASE p = made'
      BY <1>3, <1>6, <2>1, <3>1
    <3>2. CASE p \in 1 .. made
      <4>1. p # made' /\ p \in Packet
        BY <1>2, <1>3, <2>2, <3>2
      <4>2. QED BY <1>3, <1>6, <2>1, <3>2, <4>1
    <3>3. QED BY <2>2, <3>1, <3>2
  <2>4. \A p \in Packet : p > made' => reports'[p] = 0
    <3>1. ASSUME NEW p \in Packet, p > made'
          PROVE  reports'[p] = 0
      <4>1. p > made /\ p \notin done
        BY <1>2, <1>3, <3>1 DEF Packet
      <4>2. QED BY <1>1, <1>6, <4>1 DEF Reports
    <3>2. QED BY <3>1
  <2>5. QED BY <1>2, <2>3, <2>4, IdleFact DEF Reports, ReportedOnce
<1>10. PoolsExact'
  <2>1. Cardinality(QueuedPackets') = Cardinality(QueuedPackets) + 1
    <3>1. made' \notin QueuedPackets
      BY <1>3 DEF QueuedPackets
    <3>2. QED BY <1>1, <1>4, <3>1, FiniteQueued, FS_AddElement
  <2>2. neighbors' = neighbors \cup {d} /\ packets' = packets + 1
        /\ metadata' = metadata + 1 /\ queuebufs' = queuebufs + 1
    BY SendsTakes
  <2>3. neighbors' = {e \in Dest : queue'[e] # << >>}
    BY <1>1, <1>4, <2>2 DEF PoolsExact
  <2>4. packets' = Cardinality(QueuedPackets') /\ metadata' = packets'
    BY <1>1, <2>1, <2>2 DEF PoolsExact
  <2>5. queuebufs' = packets' + others'
    BY <1>1, <1>2, <2>2 DEF PoolsExact, TypeOK
  <2>6. QED BY <2>3, <2>4, <2>5 DEF PoolsExact
<1>11. QED BY <1>4, <1>7, <1>8, <1>9, <1>10 DEF CsmaInv

LEMMA SendsRefused ==
  ASSUME CsmaInv, NEW d \in Dest, NEW done, Sends(d, done), ~Fits(d)
  PROVE  CsmaInv'
<1>1. TypeOK /\ Apart /\ Agents /\ Reports /\ PoolsExact
  BY DEF CsmaInv
<1>2. /\ UNCHANGED <<queue, transmit_timer>> /\ Report(done \cup {made'})
      /\ burst' = Idle /\ made' = made + 1
      /\ others' = others /\ deferred' = deferred
  BY <1>1, AllocateFact DEF Sends, SendPacket
<1>3. /\ made \in Nat /\ made < MaxPackets /\ made' \in Packet
      /\ made' \notin done /\ done \subseteq 1 .. made
      /\ \A p \in done : ~Queued(p)
      /\ \A e \in Dest : queue[e] # << >> => transmit_timer[e] \/ deferred[e] # 0
      /\ \A p \in 1 .. made : reports[p] = IF Queued(p) \/ p \in done THEN 0 ELSE 1
      /\ reports[made'] = 0 /\ ~Queued(made')
  BY SendsBetween
<1>4. /\ queue' = queue /\ transmit_timer' = transmit_timer
      /\ transmissions' \in [Dest -> 0 .. CSMA_MAX_MAC_TRANSMISSIONS - 1]
      /\ neighbors' = neighbors /\ packets' = packets /\ metadata' = metadata
      /\ queuebufs' = queuebufs
  BY <1>1, <1>2, SendsTakes, SendsResets DEF Sends
<1>5. /\ reports' \in [Packet -> Nat]
      /\ \A p \in Packet : reports'[p] = IF p \in done \cup {made'} THEN reports[p] + 1
                                         ELSE reports[p]
  BY <1>1, <1>2, ReportFact DEF TypeOK
<1>6. TypeOK'
  <2>1. made' \in 0 .. MaxPackets
    BY <1>2, <1>3
  <2>2. QED BY <1>1, <1>2, <1>4, <1>5, <2>1, IdleFact DEF TypeOK
<1>7. Apart'
  <2>1. 1 .. made \subseteq 1 .. made'
    BY <1>2, <1>3
  <2>2. QED BY <1>1, <1>4, <2>1 DEF Apart
<1>8. Agents'
  <2>1. BurstSound' /\ \A e \in Dest : burst'.n # e
    BY <1>2, IdleFact DEF BurstSound
  <2>2. Timed' /\ QueueServed' /\ PointersLive'
    BY <1>1, <1>2, <1>3, <1>4, <2>1, IdleFact DEF Agents, Timed, QueueServed, PointersLive
  <2>3. QED BY <2>1, <2>2 DEF Agents
<1>9. Reports'
  <2>1. \A p : Queued(p)' <=> Queued(p)
    BY <1>4 DEF Queued
  <2>2. \A p \in 1 .. made' : p \in Packet /\ (p \in 1 .. made \/ p = made')
    BY <1>2, <1>3 DEF Packet
  <2>3. ASSUME NEW p \in 1 .. made'
        PROVE  reports'[p] = IF Queued(p)' THEN 0 ELSE 1
    <3>1. CASE p = made'
      BY <1>3, <1>5, <2>1, <3>1
    <3>2. CASE p \in 1 .. made
      <4>1. p # made' /\ p \in Packet
        BY <1>2, <1>3, <2>2, <3>2
      <4>2. QED BY <1>3, <1>5, <2>1, <3>2, <4>1
    <3>3. QED BY <2>2, <3>1, <3>2
  <2>4. \A p \in Packet : p > made' => reports'[p] = 0
    <3>1. ASSUME NEW p \in Packet, p > made'
          PROVE  reports'[p] = 0
      <4>1. p > made /\ p \notin done \cup {made'}
        BY <1>2, <1>3, <3>1 DEF Packet
      <4>2. QED BY <1>1, <1>5, <4>1 DEF Reports
    <3>2. QED BY <3>1
  <2>5. QED BY <1>2, <2>3, <2>4, IdleFact DEF Reports, ReportedOnce
<1>10. PoolsExact'
  <2>1. QueuedPackets' = QueuedPackets
    BY <1>4 DEF QueuedPackets, Queued
  <2>2. QED BY <1>1, <1>2, <1>4, <2>1 DEF PoolsExact
<1>11. QED BY <1>6, <1>7, <1>8, <1>9, <1>10 DEF CsmaInv

LEMMA SendsKeeps ==
  ASSUME CsmaInv, NEW d \in Dest, NEW done, Sends(d, done)
  PROVE  CsmaInv'
BY SendsRoom, SendsRefused

-----------------------------------------------------------------------------
(* A packet was sent *)

LEMMA SentFact ==
  ASSUME CsmaInv, burst.at = "sent"
  PROVE  /\ burst.n \in Dest /\ burst.p \in 1 .. made
         /\ burst.p \in Elements(queue[burst.n]) /\ queue[burst.n] # << >>
         /\ deferred[burst.n] = 0
<1>1. /\ burst.n \in Dest /\ burst.p \in 1 .. made
      /\ burst.p \in Elements(queue[burst.n])
      /\ deferred[burst.n] = 0
  BY DEF CsmaInv, Agents, BurstSound, PointersLive, QueueServed
<1>2. QED BY <1>1 DEF Elements

LEMMA FinishKeeps ==
  ASSUME CsmaInv, Finish
  PROVE  CsmaInv'
<1>0. PICK n \in Dest, p \in 1 .. made : n = burst.n /\ p = burst.p
  BY SentFact DEF Finish
<1>1. /\ burst.at = "sent" /\ FreePacket(n, p) /\ burst' = [burst EXCEPT !.at = "callback"]
      /\ made' = made /\ reports' = reports /\ others' = others /\ deferred' = deferred
  BY <1>0 DEF Finish, appVars
<1>2. TypeOK /\ Apart /\ Agents /\ Reports /\ PoolsExact
  BY DEF CsmaInv
<1>3. /\ n \in Dest /\ p \in 1 .. made /\ p \in Elements(queue[n]) /\ queue[n] # << >>
      /\ deferred[n] = 0
  BY <1>0, <1>1, SentFact
<1>4. /\ p \in Packet /\ Queued(p) /\ ~Queued(p)'
      /\ queue' \in [Dest -> Seq(Packet)] /\ Apart'
      /\ Elements(queue'[n]) = Elements(queue[n]) \ {p}
      /\ \A e \in Dest : e # n => queue'[e] = queue[e]
      /\ QueuedPackets' = QueuedPackets \ {p}
  BY <1>1, <1>2, <1>3, FreeEffect
<1>5. /\ burst'.at = "callback" /\ burst'.n = n /\ burst'.p = p /\ burst'.next = burst.next
      /\ burst' \in [at : {"idle", "send", "sent", "callback"}, n : Dest \cup {NONE},
                     p : Packet \cup {0}, next : Packet \cup {0}, awake : BOOLEAN,
                     status : {"NONE", "OK", "NOACK", "COLLISION", "ERR_FATAL"}]
  BY <1>0, <1>1, <1>2 DEF TypeOK
<1>6. /\ transmit_timer' \in [Dest -> BOOLEAN]
      /\ transmit_timer'[n] = (queue'[n] # << >>)
      /\ \A e \in Dest : e # n => transmit_timer'[e] = transmit_timer[e]
  <2>1. /\ transmit_timer' = [transmit_timer EXCEPT ![n] = Unlink(queue[n], p) # << >>]
        /\ transmit_timer \in [Dest -> BOOLEAN]
        /\ queue' = [queue EXCEPT ![n] = Unlink(queue[n], p)]
        /\ queue \in [Dest -> Seq(Packet)]
    BY <1>1, <1>2 DEF FreePacket, TypeOK
  <2>2. QED BY <1>3, <2>1
<1>7. transmissions' \in [Dest -> 0 .. CSMA_MAX_MAC_TRANSMISSIONS - 1]
  <2> DEFINE Limit == 0 .. CSMA_MAX_MAC_TRANSMISSIONS - 1
  <2>1. /\ transmissions \in [Dest -> Limit] /\ 0 \in Limit
        /\ transmissions' = [transmissions EXCEPT
             ![n] = IF Unlink(queue[n], p) = << >> THEN transmissions[n] ELSE 0]
    BY <1>1, <1>2, LimitFact DEF FreePacket, TypeOK
  <2> HIDE DEF Limit
  <2>2. QED BY <2>1 DEF Limit
<1>8. PoolsExact' /\ packets' \in Nat
  <2>1. /\ Cardinality(QueuedPackets') = Cardinality(QueuedPackets) - 1
        /\ Cardinality(QueuedPackets') \in Nat
    <3>1. p \in QueuedPackets
      BY <1>4 DEF QueuedPackets
    <3>2. IsFiniteSet(QueuedPackets)
      BY <1>2, FiniteQueued
    <3>3. QED BY <1>4, <3>1, <3>2, FS_RemoveElement, FS_CardinalityType
  <2>2. packets' = packets - 1 /\ metadata' = metadata - 1 /\ queuebufs' = queuebufs - 1
    BY <1>1 DEF FreePacket
  <2>3. packets' = Cardinality(QueuedPackets') /\ metadata' = packets'
    BY <1>2, <2>1, <2>2 DEF PoolsExact
  <2>4. queuebufs' = packets' + others'
    BY <1>1, <1>2, <2>2 DEF PoolsExact, TypeOK
  <2>5. neighbors' = {e \in Dest : queue'[e] # << >>}
    <3>1. /\ neighbors' = IF Unlink(queue[n], p) = << >> THEN neighbors \ {n} ELSE neighbors
          /\ queue' = [queue EXCEPT ![n] = Unlink(queue[n], p)]
          /\ queue \in [Dest -> Seq(Packet)]
      BY <1>1, <1>2 DEF FreePacket, TypeOK
    <3>2. queue'[n] = Unlink(queue[n], p)
      BY <1>3, <3>1
    <3>3. neighbors = {e \in Dest : queue[e] # << >>}
      BY <1>2 DEF PoolsExact
    <3>4. QED BY <1>3, <1>4, <3>1, <3>2, <3>3
  <2>6. QED BY <2>1, <2>3, <2>4, <2>5 DEF PoolsExact
<1>9. TypeOK'
  <2>1. neighbors' \subseteq Dest /\ metadata' \in Nat
    BY <1>8 DEF PoolsExact
  <2>2. queuebufs' = packets' + others' /\ packets' \in Nat /\ others' \in Nat
    BY <1>1, <1>2, <1>8 DEF PoolsExact, TypeOK
  <2>3. queuebufs' \in Nat
    <3>1. \A x, y \in Nat : x + y \in Nat
      OBVIOUS
    <3>2. QED BY <2>2, <3>1
  <2>4. QED BY <1>1, <1>2, <1>4, <1>5, <1>6, <1>7, <1>8, <2>1, <2>2, <2>3 DEF TypeOK
<1>10. Agents'
  <2>1. BurstSound'
    BY <1>0, <1>1, <1>2, <1>3, <1>4, <1>5 DEF Agents, BurstSound
  <2>2. Timed'
    BY <1>2, <1>4, <1>6 DEF Agents, Timed
  <2>3. \A e \in Dest : deferred[e] # 0 =>
          e # n /\ deferred[e] \in Elements(queue[e]) /\ ~transmit_timer[e]
    BY <1>0, <1>2 DEF Agents, QueueServed, PointersLive
  <2>4. QueueServed'
    <3>1. ASSUME NEW e \in Dest, queue'[e] # << >>
          PROVE  transmit_timer'[e] \/ deferred'[e] # 0
      <4>1. CASE e = n
        BY <1>6, <3>1, <4>1
      <4>2. CASE e # n
        BY <1>0, <1>1, <1>2, <1>4, <1>6, <3>1, <4>2 DEF Agents, QueueServed
      <4>3. QED BY <4>1, <4>2
    <3>2. \A e \in Dest : deferred'[e] # 0 => ~transmit_timer'[e] /\ burst'.n # e
      BY <1>1, <1>5, <1>6, <2>3
    <3>3. QED BY <3>1, <3>2 DEF QueueServed
  <2>5. PointersLive'
    <3>1. \A e \in Dest : deferred'[e] # 0 => deferred'[e] \in Elements(queue'[e])
      BY <1>1, <1>4, <2>3
    <3>2. burst'.next # 0 => burst'.next \in Elements(queue'[burst'.n])
      BY <1>0, <1>2, <1>4, <1>5 DEF Agents, PointersLive, BurstSound
    <3>3. QED BY <1>5, <3>1, <3>2 DEF PointersLive
  <2>6. QED BY <2>1, <2>2, <2>4, <2>5 DEF Agents
<1>11. Reports'
  <2>1. \A q \in Packet : Queued(q)' <=> Queued(q) /\ q # p
    BY <1>4 DEF QueuedPackets
  <2>2. \A q \in 1 .. made : q \in Packet
    BY <1>2 DEF Packet, TypeOK
  <2>3. \A q \in 1 .. made : reports[q] = IF Queued(q) THEN 0 ELSE 1
    BY <1>0, <1>1, <1>2 DEF Reports, ReportedOnce
  <2>4. \A q \in 1 .. made :
          reports[q] = IF Queued(q)' \/ q = p THEN 0 ELSE 1
    BY <1>4, <2>1, <2>2, <2>3
  <2>5. QED BY <1>0, <1>1, <1>2, <1>5, <2>4 DEF Reports, ReportedOnce
<1>12. QED BY <1>4, <1>8, <1>9, <1>10, <1>11 DEF CsmaInv

\* Steps that leave the queues, the pools and the packets alone.
Stays ==
  /\ queue' = queue /\ neighbors' = neighbors /\ packets' = packets /\ metadata' = metadata
  /\ queuebufs' = queuebufs /\ others' = others /\ made' = made

LEMMA StaysKeeps ==
  ASSUME TypeOK, Apart, PoolsExact, Stays
  PROVE  /\ Apart' /\ PoolsExact'
         /\ \A p : Queued(p)' <=> Queued(p)
         /\ queue' \in [Dest -> Seq(Packet)] /\ neighbors' \subseteq Dest
         /\ packets' \in Nat /\ metadata' \in Nat /\ queuebufs' \in Nat /\ others' \in Nat
         /\ made' \in 0 .. MaxPackets
<1>1. Apart'
  BY DEF Apart, Stays
<1>2. QueuedPackets' = QueuedPackets /\ \A p : Queued(p)' <=> Queued(p)
  BY DEF QueuedPackets, Queued, Stays
<1>3. PoolsExact'
  BY <1>2 DEF PoolsExact, Stays
<1>4. QED BY <1>1, <1>2, <1>3 DEF TypeOK, Stays

LEMMA RetransmitKeeps ==
  ASSUME CsmaInv, Retransmit
  PROVE  CsmaInv'
<1> DEFINE n == burst.n
<1>1. /\ burst.at = "sent" /\ burst' = Idle /\ Stays /\ reports' = reports
      /\ deferred' = deferred
      /\ transmit_timer' = [transmit_timer EXCEPT ![n] = TRUE]
      /\ transmissions' = [transmissions EXCEPT ![n] = Tries(n, burst.status)]
      /\ Tries(n, burst.status) < CSMA_MAX_MAC_TRANSMISSIONS
  BY DEF Retransmit, poolVars, appVars, Stays
<1>2. TypeOK /\ Apart /\ Agents /\ Reports /\ PoolsExact
  BY DEF CsmaInv
<1>3. n \in Dest /\ queue[n] # << >> /\ deferred[n] = 0
  BY <1>1, SentFact
<1>4. /\ Apart' /\ PoolsExact'
      /\ \A p : Queued(p)' <=> Queued(p)
      /\ queue' \in [Dest -> Seq(Packet)] /\ neighbors' \subseteq Dest
      /\ packets' \in Nat /\ metadata' \in Nat /\ queuebufs' \in Nat /\ others' \in Nat
      /\ made' \in 0 .. MaxPackets
  BY <1>1, <1>2, StaysKeeps
<1>5. /\ transmit_timer' \in [Dest -> BOOLEAN] /\ transmit_timer'[n]
      /\ \A e \in Dest : e # n => transmit_timer'[e] = transmit_timer[e]
  BY <1>1, <1>2, <1>3 DEF TypeOK
<1>6. transmissions' \in [Dest -> 0 .. CSMA_MAX_MAC_TRANSMISSIONS - 1]
  <2>1. transmissions \in [Dest -> 0 .. CSMA_MAX_MAC_TRANSMISSIONS - 1]
    BY <1>2 DEF TypeOK
  <2>2. transmissions[n] \in 0 .. CSMA_MAX_MAC_TRANSMISSIONS - 1
    BY <1>3, <2>1
  <2>3. Tries(n, burst.status) \in 0 .. CSMA_MAX_MAC_TRANSMISSIONS - 1
    BY <1>1, <2>2, LimitFact DEF Tries
  <2> DEFINE Limit == 0 .. CSMA_MAX_MAC_TRANSMISSIONS - 1
  <2>4. Tries(n, burst.status) \in Limit /\ transmissions \in [Dest -> Limit]
    BY <2>1, <2>3
  <2> HIDE DEF Limit
  <2>5. QED BY <1>1, <2>4 DEF Limit
<1>7. TypeOK'
  BY <1>1, <1>2, <1>4, <1>5, <1>6, IdleFact DEF TypeOK
<1>8. Agents'
  <2>1. BurstSound' /\ \A e \in Dest : burst'.n # e
    BY <1>1, IdleFact DEF BurstSound
  <2>2. Timed'
    BY <1>1, <1>2, <1>3, <1>5 DEF Agents, Timed, Stays
  <2>3. QueueServed'
    BY <1>1, <1>2, <1>3, <1>5, <2>1 DEF Agents, QueueServed, Stays
  <2>4. PointersLive'
    BY <1>1, <1>2, IdleFact DEF Agents, PointersLive, Stays
  <2>5. QED BY <2>1, <2>2, <2>3, <2>4 DEF Agents
<1>9. Reports'
  BY <1>1, <1>2, <1>4, IdleFact DEF Reports, ReportedOnce, Stays
<1>10. QED BY <1>4, <1>7, <1>8, <1>9 DEF CsmaInv

-----------------------------------------------------------------------------
(* A burst begins, because a timer or a deferred transmission was due *)

Begins(n, p) ==
  /\ burst = Idle /\ p \in Elements(queue[n])
  /\ transmit_timer[n] \/ deferred[n] # 0
  /\ Stays /\ UNCHANGED <<transmissions, reports>>
  /\ transmit_timer' = [transmit_timer EXCEPT ![n] = FALSE]
  /\ deferred' = [deferred EXCEPT ![n] = 0]
  /\ \/ burst' = [Idle EXCEPT !.at = "send", !.n = n, !.p = p]
     \/ \E status \in {"COLLISION", "ERR_FATAL"} :
          burst' = [Idle EXCEPT !.at = "sent", !.n = n, !.p = p, !.status = status]

LEMMA BeginsKeeps ==
  ASSUME CsmaInv, NEW n \in Dest, NEW p, Begins(n, p)
  PROVE  CsmaInv'
<1>1. /\ Stays /\ transmissions' = transmissions /\ reports' = reports
      /\ burst = Idle /\ p \in Elements(queue[n])
      /\ transmit_timer' = [transmit_timer EXCEPT ![n] = FALSE]
      /\ deferred' = [deferred EXCEPT ![n] = 0]
  BY DEF Begins
<1>2. TypeOK /\ Apart /\ Agents /\ Reports /\ PoolsExact
  BY DEF CsmaInv
<1>3. p \in Packet /\ p \in 1 .. made /\ p # 0
  <2>1. p \in 1 .. made /\ made \in 0 .. MaxPackets
    BY <1>1, <1>2 DEF Apart, TypeOK
  <2>2. QED BY <2>1 DEF Packet
<1>4. /\ Apart' /\ PoolsExact'
      /\ \A q : Queued(q)' <=> Queued(q)
      /\ queue' \in [Dest -> Seq(Packet)] /\ neighbors' \subseteq Dest
      /\ packets' \in Nat /\ metadata' \in Nat /\ queuebufs' \in Nat /\ others' \in Nat
      /\ made' \in 0 .. MaxPackets
  BY <1>1, <1>2, StaysKeeps
<1>5. /\ burst'.at \in {"send", "sent"} /\ burst'.n = n /\ burst'.p = p /\ burst'.next = 0
      /\ burst' \in [at : {"idle", "send", "sent", "callback"}, n : Dest \cup {NONE},
                     p : Packet \cup {0}, next : Packet \cup {0}, awake : BOOLEAN,
                     status : {"NONE", "OK", "NOACK", "COLLISION", "ERR_FATAL"}]
  BY <1>3 DEF Begins, Idle
<1>6. /\ transmit_timer' \in [Dest -> BOOLEAN] /\ ~transmit_timer'[n]
      /\ \A e \in Dest : e # n => transmit_timer'[e] = transmit_timer[e]
      /\ deferred' \in [Dest -> Packet \cup {0}] /\ deferred'[n] = 0
      /\ \A e \in Dest : e # n => deferred'[e] = deferred[e]
  BY <1>1, <1>2 DEF TypeOK
<1>7. TypeOK'
  BY <1>1, <1>2, <1>4, <1>5, <1>6 DEF TypeOK
<1>8. Agents'
  <2>1. BurstSound'
    BY <1>1, <1>3, <1>5, <1>6 DEF BurstSound, Stays
  <2>2. Timed'
    BY <1>1, <1>2, <1>6 DEF Agents, Timed, Stays
  <2>3. QueueServed'
    <3>1. \A e \in Dest : queue[e] # << >> => transmit_timer[e] \/ deferred[e] # 0
      BY <1>1, <1>2, IdleFact DEF Agents, QueueServed
    <3>2. \A e \in Dest : deferred[e] # 0 => ~transmit_timer[e]
      BY <1>2 DEF Agents, QueueServed
    <3>3. \A e \in Dest : queue'[e] # << >> =>
            transmit_timer'[e] \/ deferred'[e] # 0 \/ (burst'.n = e /\ burst'.at # "callback")
      BY <1>1, <1>5, <1>6, <3>1 DEF Stays
    <3>4. \A e \in Dest : deferred'[e] # 0 => ~transmit_timer'[e] /\ burst'.n # e
      BY <1>5, <1>6, <3>2
    <3>5. QED BY <3>3, <3>4 DEF QueueServed
  <2>4. PointersLive'
    BY <1>1, <1>2, <1>5, <1>6 DEF Agents, PointersLive, Stays
  <2>5. QED BY <2>1, <2>2, <2>3, <2>4 DEF Agents
<1>9. Reports'
  BY <1>1, <1>2, <1>4, <1>5, IdleFact DEF Reports, ReportedOnce, Stays
<1>10. QED BY <1>4, <1>7, <1>8, <1>9 DEF CsmaInv

LEMMA BeginKeeps ==
  ASSUME CsmaInv, Begin
  PROVE  CsmaInv'
<1>1. PICK n \in Dest : SendHead(n) \/ HeadFails(n) \/ PhaseSend(n) \/ PhaseFails(n)
  BY DEF Begin
<1>2. /\ queue \in [Dest -> Seq(Packet)] /\ transmit_timer \in [Dest -> BOOLEAN]
      /\ deferred \in [Dest -> Packet \cup {0}]
  BY DEF CsmaInv, TypeOK
<1>3. \A m \in Dest : deferred[m] # 0 => deferred[m] \in Elements(queue[m]) /\ ~transmit_timer[m]
  BY DEF CsmaInv, Agents, QueueServed, PointersLive
<1>4. ASSUME TimerDue(n)
      PROVE  /\ burst = Idle /\ transmit_timer[n] /\ Stays /\ UNCHANGED <<transmissions, reports>>
             /\ transmit_timer' = [transmit_timer EXCEPT ![n] = FALSE]
             /\ deferred' = [deferred EXCEPT ![n] = 0]
             /\ Head(queue[n]) \in Elements(queue[n])
  <2>1. /\ burst = Idle /\ transmit_timer[n] /\ Stays /\ UNCHANGED <<transmissions, reports>>
        /\ transmit_timer' = [transmit_timer EXCEPT ![n] = FALSE]
        /\ deferred' = deferred
    BY <1>4 DEF TimerDue, Stays, poolVars, appVars
  <2>2. deferred[n] = 0
    BY <1>3, <2>1
  <2>3. deferred' = [deferred EXCEPT ![n] = 0]
    BY <1>2, <2>1, <2>2
  <2>4. Head(queue[n]) \in Elements(queue[n])
    <3>1. queue[n] # << >> /\ queue[n] \in Seq(Packet)
      BY <1>2, <2>1 DEF CsmaInv, Agents, Timed
    <3>2. QED BY <3>1, EmptyFact
  <2>5. QED BY <2>1, <2>3, <2>4
<1>5. ASSUME PhaseDue(n)
      PROVE  /\ burst = Idle /\ deferred[n] # 0 /\ Stays /\ UNCHANGED <<transmissions, reports>>
             /\ transmit_timer' = [transmit_timer EXCEPT ![n] = FALSE]
             /\ deferred' = [deferred EXCEPT ![n] = 0]
             /\ deferred[n] \in Elements(queue[n])
  <2>1. /\ burst = Idle /\ deferred[n] # 0 /\ Stays /\ UNCHANGED <<transmissions, reports>>
        /\ transmit_timer' = transmit_timer
        /\ deferred' = [deferred EXCEPT ![n] = 0]
    BY <1>5 DEF PhaseDue, Stays, poolVars, nbrVars, appVars
  <2>2. ~transmit_timer[n] /\ deferred[n] \in Elements(queue[n])
    BY <1>3, <2>1
  <2>3. transmit_timer' = [transmit_timer EXCEPT ![n] = FALSE]
    BY <1>2, <2>1, <2>2
  <2>4. QED BY <2>1, <2>2, <2>3
<1>6. CASE SendHead(n)
  <2>1. Begins(n, Head(queue[n]))
    BY <1>4, <1>6 DEF SendHead, BeginSend, Begins
  <2>2. QED BY <2>1, BeginsKeeps
<1>7. CASE HeadFails(n)
  <2>1. \E p : Begins(n, p)
    BY <1>4, <1>7 DEF HeadFails, BeginFails, Begins
  <2>2. QED BY <2>1, BeginsKeeps
<1>8. CASE PhaseSend(n)
  <2>1. Begins(n, deferred[n])
    BY <1>5, <1>8 DEF PhaseSend, BeginSend, Begins
  <2>2. QED BY <2>1, BeginsKeeps
<1>9. CASE PhaseFails(n)
  <2>1. \E p : Begins(n, p)
    BY <1>5, <1>9 DEF PhaseFails, BeginFails, Begins
  <2>2. QED BY <2>1, BeginsKeeps
<1>10. QED BY <1>1, <1>6, <1>7, <1>8, <1>9

-----------------------------------------------------------------------------
(* A packet is transmitted, or its transmission is put off *)

LEMMA SendFact ==
  ASSUME CsmaInv, burst.at = "send"
  PROVE  /\ burst.n \in Dest /\ burst.p \in 1 .. made /\ burst.p \in Packet
         /\ burst.p \in Elements(queue[burst.n]) /\ queue[burst.n] # << >>
         /\ deferred[burst.n] = 0
         /\ ~burst.awake => ~transmit_timer[burst.n]
<1>1. /\ burst.n \in Dest /\ burst.p \in 1 .. made
      /\ burst.p \in Elements(queue[burst.n])
      /\ deferred[burst.n] = 0
      /\ ~burst.awake => ~transmit_timer[burst.n]
  BY DEF CsmaInv, Agents, BurstSound, PointersLive, QueueServed
<1>2. burst.p \in Packet
  BY <1>1 DEF CsmaInv, TypeOK, Packet
<1>3. QED BY <1>1, <1>2 DEF Elements

LEMMA DeferKeeps ==
  ASSUME CsmaInv, Transmit("DEFERRED")
  PROVE  CsmaInv'
<1>0. burst.at = "send"
  BY DEF Transmit
<1>1. PICK n \in Dest, p \in Packet :
        /\ n = burst.n /\ p = burst.p /\ p \in Elements(queue[n]) /\ deferred[n] = 0
        /\ ~transmit_timer[n]
  BY <1>0, SendFact DEF Transmit, Outcome
<1>2. /\ Stays /\ transmissions' = transmissions /\ reports' = reports
      /\ transmit_timer' = transmit_timer
      /\ deferred' = [deferred EXCEPT ![n] = p] /\ burst' = Idle
  BY <1>1 DEF Transmit, Stays, nbrVars, poolVars, appVars
<1>3. TypeOK /\ Apart /\ Agents /\ Reports /\ PoolsExact
  BY DEF CsmaInv
<1>4. /\ Apart' /\ PoolsExact'
      /\ \A q : Queued(q)' <=> Queued(q)
      /\ queue' \in [Dest -> Seq(Packet)] /\ neighbors' \subseteq Dest
      /\ packets' \in Nat /\ metadata' \in Nat /\ queuebufs' \in Nat /\ others' \in Nat
      /\ made' \in 0 .. MaxPackets
  BY <1>2, <1>3, StaysKeeps
<1>5. /\ deferred' \in [Dest -> Packet \cup {0}] /\ deferred'[n] = p /\ p # 0
      /\ \A e \in Dest : e # n => deferred'[e] = deferred[e]
  BY <1>2, <1>3 DEF TypeOK, Packet
<1>6. TypeOK'
  BY <1>2, <1>3, <1>4, <1>5, IdleFact DEF TypeOK
<1>7. Agents'
  <2>1. BurstSound' /\ \A e \in Dest : burst'.n # e
    BY <1>2, IdleFact DEF BurstSound
  <2>2. Timed'
    BY <1>2, <1>3 DEF Agents, Timed, Stays
  <2>3. QueueServed'
    BY <1>0, <1>1, <1>2, <1>3, <1>5, <2>1 DEF Agents, QueueServed, Stays
  <2>4. PointersLive'
    BY <1>1, <1>2, <1>3, <1>5, IdleFact DEF Agents, PointersLive, Stays
  <2>5. QED BY <2>1, <2>2, <2>3, <2>4 DEF Agents
<1>8. Reports'
  BY <1>0, <1>2, <1>3, <1>4, IdleFact DEF Reports, ReportedOnce, Stays
<1>9. QED BY <1>4, <1>6, <1>7, <1>8 DEF CsmaInv

LEMMA TransmitKeeps ==
  ASSUME CsmaInv, NEW status \in {"OK", "NOACK", "COLLISION", "ERR_FATAL"}, Transmit(status)
  PROVE  CsmaInv'
<1>0. burst.at = "send"
  BY DEF Transmit
<1>1. PICK n \in Dest, p \in Packet :
        n = burst.n /\ p = burst.p /\ p \in 1 .. made /\ p \in Elements(queue[n])
  BY <1>0, SendFact
<1>2. /\ Stays /\ transmissions' = transmissions /\ reports' = reports
      /\ transmit_timer' = transmit_timer /\ deferred' = deferred
      /\ burst' = [burst EXCEPT !.at = "sent", !.status = status, !.next = Follows(n, p)]
  BY <1>1 DEF Transmit, Stays, nbrVars, poolVars, appVars
<1>3. TypeOK /\ Apart /\ Agents /\ Reports /\ PoolsExact
  BY DEF CsmaInv
<1>4. /\ Apart' /\ PoolsExact'
      /\ \A q : Queued(q)' <=> Queued(q)
      /\ queue' \in [Dest -> Seq(Packet)] /\ neighbors' \subseteq Dest
      /\ packets' \in Nat /\ metadata' \in Nat /\ queuebufs' \in Nat /\ others' \in Nat
      /\ made' \in 0 .. MaxPackets
  BY <1>2, <1>3, StaysKeeps
<1>5. /\ Follows(n, p) \in Elements(queue[n]) \cup {0}
      /\ Follows(n, p) \in Packet \cup {0}
      /\ Follows(n, p) # p
  BY <1>1, <1>3, FollowsFact
<1>6. /\ burst'.at = "sent" /\ burst'.n = n /\ burst'.p = p /\ burst'.next = Follows(n, p)
      /\ burst' \in [at : {"idle", "send", "sent", "callback"}, n : Dest \cup {NONE},
                     p : Packet \cup {0}, next : Packet \cup {0}, awake : BOOLEAN,
                     status : {"NONE", "OK", "NOACK", "COLLISION", "ERR_FATAL"}]
  <2> DEFINE f == Follows(n, p)
  <2>1. burst' = [burst EXCEPT !.at = "sent", !.status = status, !.next = f]
        /\ f \in Packet \cup {0}
    BY <1>2, <1>5
  <2> HIDE DEF f
  <2>2. burst'.at = "sent" /\ burst'.n = burst.n /\ burst'.p = burst.p /\ burst'.next = f
        /\ burst' \in [at : {"idle", "send", "sent", "callback"}, n : Dest \cup {NONE},
                     p : Packet \cup {0}, next : Packet \cup {0}, awake : BOOLEAN,
                     status : {"NONE", "OK", "NOACK", "COLLISION", "ERR_FATAL"}]
    BY <2>1, <1>3 DEF TypeOK
  <2>3. QED BY <1>1, <2>2 DEF f
<1>7. TypeOK'
  BY <1>2, <1>3, <1>4, <1>6 DEF TypeOK
<1>8. Agents'
  <2>1. BurstSound'
    BY <1>1, <1>2, <1>5, <1>6 DEF BurstSound, Stays
  <2>2. Timed'
    BY <1>2, <1>3 DEF Agents, Timed, Stays
  <2>3. QueueServed'
    BY <1>0, <1>1, <1>2, <1>3, <1>6 DEF Agents, QueueServed, Stays
  <2>4. PointersLive'
    BY <1>1, <1>2, <1>3, <1>5, <1>6 DEF Agents, PointersLive, Stays
  <2>5. QED BY <2>1, <2>2, <2>3, <2>4 DEF Agents
<1>9. Reports'
  BY <1>0, <1>2, <1>3, <1>4, <1>6 DEF Reports, ReportedOnce, Stays
<1>10. QED BY <1>4, <1>7, <1>8, <1>9 DEF CsmaInv

-----------------------------------------------------------------------------
(* The sender is told *)

LEMMA CallbackKeeps ==
  ASSUME CsmaInv, burst.at = "callback", Report({burst.p}), Continue,
         UNCHANGED <<made, nbrVars, poolVars>>, UNCHANGED <<others, deferred>>
  PROVE  CsmaInv'
<1>1. PICK n \in Dest, p \in Packet :
        n = burst.n /\ p = burst.p /\ p \in 1 .. made /\ ~Queued(p)
  <2>1. burst.n \in Dest /\ burst.p \in 1 .. made /\ ~Queued(burst.p)
    BY DEF CsmaInv, Agents, BurstSound
  <2>2. burst.p \in Packet
    BY <2>1 DEF CsmaInv, TypeOK, Packet
  <2>3. QED BY <2>1, <2>2
<1>2. /\ Stays /\ transmissions' = transmissions
      /\ transmit_timer' = transmit_timer /\ deferred' = deferred
  BY DEF Stays, nbrVars, poolVars
<1>3. TypeOK /\ Apart /\ Agents /\ Reports /\ PoolsExact
  BY DEF CsmaInv
<1>4. /\ Apart' /\ PoolsExact'
      /\ \A q : Queued(q)' <=> Queued(q)
      /\ queue' \in [Dest -> Seq(Packet)] /\ neighbors' \subseteq Dest
      /\ packets' \in Nat /\ metadata' \in Nat /\ queuebufs' \in Nat /\ others' \in Nat
      /\ made' \in 0 .. MaxPackets
  BY <1>2, <1>3, StaysKeeps
<1>5. /\ reports' \in [Packet -> Nat]
      /\ \A q \in Packet : reports'[q] = IF q = p THEN reports[q] + 1 ELSE reports[q]
  <2>1. Report({p}) /\ reports \in [Packet -> Nat]
    BY <1>1, <1>3 DEF TypeOK
  <2>2. QED BY <2>1, ReportFact
<1>6. /\ burst' = Idle \/ (/\ burst'.at = "send" /\ burst'.n = n /\ burst'.awake
                           /\ burst'.p = burst.next /\ burst.next # 0 /\ burst'.next = 0)
      /\ burst' \in [at : {"idle", "send", "sent", "callback"}, n : Dest \cup {NONE},
                     p : Packet \cup {0}, next : Packet \cup {0}, awake : BOOLEAN,
                     status : {"NONE", "OK", "NOACK", "COLLISION", "ERR_FATAL"}]
  <2>1. CASE burst' = Idle
    BY <2>1, IdleFact
  <2>2. CASE burst' # Idle
    <3>1. /\ burst.next # 0 /\ burst.next \in Packet
          /\ burst' = [Idle EXCEPT !.at = "send", !.n = n, !.p = burst.next, !.awake = TRUE]
      BY <1>1, <1>3, <2>2 DEF Continue, TypeOK
    <3>2. QED BY <3>1 DEF Idle
  <2>3. QED BY <2>1, <2>2
<1>7. burst.next # 0 => burst.next \in Elements(queue[n])
  BY <1>1, <1>3 DEF Agents, PointersLive
<1>8. TypeOK'
  BY <1>2, <1>3, <1>4, <1>5, <1>6 DEF TypeOK
<1>9. /\ \A e \in Dest : queue[e] # << >> => transmit_timer[e] \/ deferred[e] # 0
      /\ \A e \in Dest : deferred[e] # 0 => ~transmit_timer[e] /\ e # n
  BY <1>1, <1>3 DEF Agents, QueueServed
<1>10. Agents'
  <2>1. BurstSound'
    <3>1. burst.next # 0 => burst.next \in 1 .. made
      BY <1>3, <1>7 DEF Apart
    <3>2. QED BY <1>2, <1>6, <3>1, IdleFact DEF BurstSound, Stays
  <2>2. Timed'
    BY <1>2, <1>3 DEF Agents, Timed, Stays
  <2>3. QueueServed'
    BY <1>2, <1>6, <1>9, IdleFact DEF QueueServed, Stays
  <2>4. PointersLive'
    BY <1>2, <1>3, <1>6, <1>7, IdleFact DEF Agents, PointersLive, Stays
  <2>5. QED BY <2>1, <2>2, <2>3, <2>4 DEF Agents
<1>11. Reports'
  <2>1. \A q \in 1 .. made : q \in Packet /\ reports[q] = IF Queued(q) \/ q = p THEN 0 ELSE 1
    <3>1. \A q \in 1 .. made : q \in Packet
      BY <1>3 DEF Packet, TypeOK
    <3>2. QED BY <1>1, <1>3, <3>1 DEF Reports, ReportedOnce
  <2>2. \A q \in 1 .. made : reports'[q] = IF Queued(q) THEN 0 ELSE 1
    BY <1>1, <1>5, <2>1
  <2>3. \A q \in Packet : q > made => reports'[q] = 0
    BY <1>1, <1>3, <1>5 DEF Reports, TypeOK
  <2>4. burst'.at # "callback"
    BY <1>6, IdleFact
  <2>5. QED BY <1>2, <1>4, <2>2, <2>3, <2>4 DEF Reports, ReportedOnce, Stays
<1>12. QED BY <1>4, <1>8, <1>10, <1>11 DEF CsmaInv

-----------------------------------------------------------------------------
(* The other users of the buffers *)

LEMMA OthersKeep ==
  ASSUME CsmaInv, OthersTake \/ OthersFree
  PROVE  CsmaInv'
<1>1. /\ UNCHANGED <<neighbors, packets, metadata, nbrVars, appVars, deferred, burst>>
      /\ burst = Idle
      /\ queuebufs' = packets + others' /\ queuebufs' \in Nat /\ others' \in Nat
  <2>1. /\ packets \in Nat /\ queuebufs \in Nat /\ others \in Nat
        /\ queuebufs = packets + others
    BY DEF CsmaInv, TypeOK, PoolsExact
  <2>2. /\ UNCHANGED <<neighbors, packets, metadata, nbrVars, appVars, deferred, burst>>
        /\ burst = Idle
    BY DEF OthersTake, OthersFree
  <2>3. \/ queuebufs' = queuebufs + 1 /\ others' = others + 1
        \/ others > 0 /\ queuebufs' = queuebufs - 1 /\ others' = others - 1
    BY DEF OthersTake, OthersFree
  <2>4. queuebufs' = packets + others' /\ queuebufs' \in Nat /\ others' \in Nat
    BY <2>1, <2>3
  <2>5. QED BY <2>2, <2>4
<1>2. QueuedPackets' = QueuedPackets /\ \A q : Queued(q)' <=> Queued(q)
  BY <1>1 DEF QueuedPackets, Queued, nbrVars
<1>3. PoolsExact'
  BY <1>1, <1>2 DEF CsmaInv, PoolsExact, nbrVars
<1>4. TypeOK'
  BY <1>1 DEF CsmaInv, TypeOK, nbrVars, appVars
<1>5. Apart'
  BY <1>1 DEF CsmaInv, Apart, nbrVars, appVars
<1>6. Agents'
  BY <1>1, <1>2 DEF CsmaInv, Agents, BurstSound, Timed, QueueServed, PointersLive, nbrVars, appVars
<1>7. Reports'
  BY <1>1, <1>2 DEF CsmaInv, Reports, ReportedOnce, nbrVars, appVars
<1>8. QED BY <1>3, <1>4, <1>5, <1>6, <1>7 DEF CsmaInv

LEMMA UnchangedCsma ==
  ASSUME CsmaInv, UNCHANGED vars
  PROVE  CsmaInv'
<1>1. /\ Stays /\ transmissions' = transmissions /\ reports' = reports
      /\ transmit_timer' = transmit_timer /\ deferred' = deferred /\ burst' = burst
  BY DEF vars, poolVars, nbrVars, appVars, Stays
<1>2. TypeOK /\ Apart /\ Agents /\ Reports /\ PoolsExact
  BY DEF CsmaInv
<1>3. /\ Apart' /\ PoolsExact'
      /\ \A q : Queued(q)' <=> Queued(q)
  BY <1>1, <1>2, StaysKeeps
<1>4. TypeOK'
  BY <1>1, <1>2 DEF TypeOK, Stays
<1>5. Agents'
  BY <1>1, <1>2, <1>3 DEF Agents, BurstSound, Timed, QueueServed, PointersLive, Stays
<1>6. Reports'
  BY <1>1, <1>2, <1>3 DEF Reports, ReportedOnce, Stays
<1>7. QED BY <1>3, <1>4, <1>5, <1>6 DEF CsmaInv

-----------------------------------------------------------------------------
LEMMA StepCsma == CsmaInv /\ [Next]_vars => CsmaInv'
<1> SUFFICES ASSUME CsmaInv, [Next]_vars
             PROVE  CsmaInv'
  OBVIOUS
<1>1. CASE UNCHANGED vars
  BY <1>1, UnchangedCsma
<1>2. CASE Begin
  BY <1>2, BeginKeeps
<1>3. CASE TransmitAny
  BY <1>3, DeferKeeps, TransmitKeeps DEF TransmitAny
<1>4. CASE Retransmit \/ Finish
  BY <1>4, RetransmitKeeps, FinishKeeps
<1>5. CASE Callback
  <2>1. CASE Report({burst.p}) /\ Continue /\ UNCHANGED <<made, nbrVars, poolVars>>
    BY <1>5, <2>1, CallbackKeeps DEF Callback
  <2>2. CASE (\E d \in Dest : SendPacket(d, {burst.p})) /\ burst' = Idle
    <3>1. PICK d \in Dest : SendPacket(d, {burst.p})
      BY <2>2
    <3>2. Sends(d, {burst.p})
      BY <1>5, <2>2, <3>1 DEF Callback, Sends
    <3>3. QED BY <3>2, SendsKeeps
  <2>3. QED BY <1>5, <2>1, <2>2 DEF Callback
<1>6. CASE OthersTake \/ OthersFree
  BY <1>6, OthersKeep
<1>7. CASE \E d \in Dest : Send(d)
  <2>1. PICK d \in Dest : Send(d)
    BY <1>7
  <2>2. Sends(d, {})
    BY <2>1 DEF Send, Sends
  <2>3. QED BY <2>2, SendsKeeps
<1>8. QED BY <1>1, <1>2, <1>3, <1>4, <1>5, <1>6, <1>7 DEF Next, Rest

\* The inductive invariant holds in every reachable state.
THEOREM CsmaSound == Spec => []CsmaInv
<1>1. QED BY InitCsma, StepCsma, PTL DEF Spec

-----------------------------------------------------------------------------
(* What follows from it *)

\* The variables of the medium access layer keep their types: in particular the
\* transmissions of a packet never reach CSMA_MAX_MAC_TRANSMISSIONS (csma.c:202-314).
THEOREM CsmaTypeCorrect == Spec => []TypeOK
<1>1. CsmaInv => TypeOK
  BY DEF CsmaInv
<1>2. QED BY <1>1, CsmaSound, PTL

\* Whichever of the nested allocations fails, what was taken before it is given back, and
\* the four pools hold what the queues hold (csma.c:173-200, 338-411).
THEOREM PoolsKept == Spec => []PoolsExact
<1>1. CsmaInv => PoolsExact
  BY DEF CsmaInv
<1>2. QED BY <1>1, CsmaSound, PTL

\* A queue that is not empty has its timer, its deferred transmission or the burst to
\* serve it, and a deferred transmission is the only one (csma.c:186-198, 268, 388-391).
THEOREM QueuesServed == Spec => []QueueServed
<1>1. CsmaInv => QueueServed
  BY DEF CsmaInv, Agents
<1>2. QED BY <1>1, CsmaSound, PTL

\* A packet to which a burst or a deferred transmission points has not been freed
\* (contikimac.c:859-880, phase.c:231).
THEOREM PointersStayLive == Spec => []PointersLive
<1>1. CsmaInv => PointersLive
  BY DEF CsmaInv, Agents
<1>2. QED BY <1>1, CsmaSound, PTL

\* No packet given to send_packet is reported twice, none that has left its queue is
\* left unreported (csma.c:202-314, 412).
THEOREM ReportedExactlyOnce == Spec => []ReportedOnce
<1>1. CsmaInv => ReportedOnce
  BY DEF CsmaInv, Reports
<1>2. QED BY <1>1, CsmaSound, PTL

-----------------------------------------------------------------------------
(* The queues in memory *)

\* The elements that hold a packet.
Held == {elem[p] : p \in QueuedPackets}

\* Each packet in a queue has an element of its own.
ElemSound ==
  /\ elem \in [Packet -> Block \cup {End}]
  /\ \A p \in QueuedPackets : elem[p] \in Block
  /\ \A p, q \in QueuedPackets : elem[p] = elem[q] => p = q

MemoryInv ==
  /\ ElemSound
  /\ count = [e \in Block |-> IF e \in Held THEN 1 ELSE 0]
  /\ DOMAIN head = Dest /\ DOMAIN next = Block
  /\ \A d \in Dest : Links(List(d), Image(queue[d], elem))

\* What a step does to the queues.
Joins(d) ==
  /\ Fits(d) /\ made < MaxPackets /\ made' = made + 1
  /\ Enqueue(d, made')

Leaves(n, p) ==
  /\ p \in Elements(queue[n])
  /\ made' = made
  /\ FreePacket(n, p)

LEMMA QueueSteps ==
  ASSUME CsmaInv, [Next]_vars
  PROVE  \/ queue' = queue
         \/ \E d \in Dest : Joins(d)
         \/ burst.n \in Dest /\ Leaves(burst.n, burst.p)
<1>1. CASE UNCHANGED vars
  BY <1>1 DEF vars, nbrVars
<1>2. CASE Begin
  BY <1>2 DEF Begin, SendHead, HeadFails, PhaseSend, PhaseFails, TimerDue, PhaseDue, nbrVars
<1>3. CASE TransmitAny \/ Retransmit \/ OthersTake \/ OthersFree
  BY <1>3 DEF TransmitAny, Transmit, Retransmit, OthersTake, OthersFree, nbrVars
<1>4. CASE Finish
  BY <1>4 DEF Finish, appVars, Leaves, CsmaInv, Agents, BurstSound, PointersLive
<1>5. ASSUME NEW d \in Dest, NEW done, SendPacket(d, done)
      PROVE  queue' = queue \/ Joins(d)
  BY <1>5, AllocateFact DEF SendPacket, Joins, CsmaInv
<1>6. CASE Callback
  BY <1>5, <1>6 DEF Callback, nbrVars
<1>7. CASE \E d \in Dest : Send(d)
  BY <1>5, <1>7 DEF Send
<1>8. QED BY <1>1, <1>2, <1>3, <1>4, <1>6, <1>7 DEF Next, Rest

LEMMA QueueFacts ==
  ASSUME CsmaInv, MemoryInv, NEW d \in Dest
  PROVE  /\ queue[d] \in Seq(Packet) /\ Distinct(queue[d])
         /\ Elements(queue[d]) \subseteq QueuedPackets
         /\ \A p \in Elements(queue[d]) : elem[p] \in Block
         /\ \A p, q \in Elements(queue[d]) : elem[p] = elem[q] => p = q
         /\ Elements(Image(queue[d], elem)) = {elem[p] : p \in Elements(queue[d])}
<1>1. queue[d] \in Seq(Packet) /\ Distinct(queue[d])
  BY DEF CsmaInv, TypeOK, Apart
<1>2. Elements(queue[d]) \subseteq QueuedPackets
  BY <1>1, ListDomain DEF QueuedPackets, Queued
<1>3. \A p \in Elements(queue[d]) : elem[p] \in Block
  BY <1>2 DEF MemoryInv, ElemSound
<1>4. \A p, q \in Elements(queue[d]) : elem[p] = elem[q] => p = q
  BY <1>2 DEF MemoryInv, ElemSound
<1>5. Elements(Image(queue[d], elem)) = {elem[p] : p \in Elements(queue[d])}
  BY <1>1, <1>3, <1>4, ImageFact
<1>6. QED BY <1>1, <1>2, <1>3, <1>4, <1>5

LEMMA MemoryInvInit == MemoryInit => MemoryInv
<1> SUFFICES ASSUME MemoryInit PROVE MemoryInv
  OBVIOUS
<1> USE DEF MemoryInit
<1>1. QueuedPackets = {}
  BY DEF Init, QueuedPackets, Queued, Elements
<1>2. ElemSound
  BY <1>1 DEF ElemSound
<1>3. Held = {}
  BY <1>1 DEF Held
<1>4. count = [e \in Block |-> IF e \in Held THEN 1 ELSE 0]
  BY <1>3
<1>5. IsFiniteSet(Block) /\ End \notin Block
  BY FS_Interval DEF Block, End
<1>6. ASSUME NEW d \in Dest PROVE Links(List(d), Image(queue[d], elem))
  <2>1. Image(queue[d], elem) = << >>
    BY DEF Init, Image
  <2>2. List(d) = [head |-> List(d).head, next |-> List(d).next]
        /\ List(d).head = End /\ DOMAIN List(d).next = Block
    BY DEF List
  <2>3. << >> \in Seq(Block) /\ Len(<< >>) = 0 /\ DOMAIN << >> = {}
    OBVIOUS
  <2>4. Links(List(d), << >>)
    BY <1>5, <2>2, <2>3 DEF Links, Distinct, At
  <2>5. QED BY <2>1, <2>4
<1>7. QED BY <1>2, <1>4, <1>6 DEF MemoryInv

\* memb_alloc does not fail for a packet that send_packet lets in.
LEMMA ElementFree ==
  ASSUME CsmaInv, MemoryInv, packets < QUEUEBUF_NUM
  PROVE  /\ FreeBlock(count) \in Block
         /\ FreeBlock(count) \notin Held
         /\ Alloc(count) = [e \in Block |-> IF e \in Held \cup {FreeBlock(count)} THEN 1 ELSE 0]
<1>1. /\ DOMAIN count = Block /\ Block \subseteq Nat
      /\ \A e \in Block : count[e] = IF e \in Held THEN 1 ELSE 0
  BY DEF MemoryInv, Block
<1>2. \E e \in Block : e \notin Held
  <2>1. SUFFICES ASSUME Block \subseteq Held PROVE FALSE
    OBVIOUS
  <2>2. IsFiniteSet(QueuedPackets) /\ packets = Cardinality(QueuedPackets)
    BY FiniteQueued DEF CsmaInv, PoolsExact
  <2> DEFINE f == [p \in QueuedPackets |-> elem[p]]
  <2>3. f \in Surjection(QueuedPackets, Held)
    BY DEF Held, Surjection
  <2>4. IsFiniteSet(Held) /\ Cardinality(Held) <= packets
    BY <2>2, <2>3, FS_Surjection
  <2>5. Cardinality(Block) <= Cardinality(Held)
    BY <2>1, <2>4, FS_Subset
  <2>6. Cardinality(Block) = QUEUEBUF_NUM /\ packets \in Nat /\ Cardinality(Held) \in Nat
    BY <2>4, FS_Interval, FS_CardinalityType DEF Block, CsmaInv, TypeOK
  <2>7. QED BY <2>4, <2>5, <2>6
<1>3. FreeBlock(count) \in Block /\ count[FreeBlock(count)] = 0
  <2>1. \E e \in Block : count[e] = 0
    BY <1>1, <1>2
  <2>2. DOMAIN count \subseteq Nat /\ \E e \in DOMAIN count : count[e] = 0
    BY <1>1, <2>1
  <2>3. QED BY <1>1, <2>2, FreeBlockFact
<1> DEFINE b == FreeBlock(count)
<1>4. Alloc(count) = [e \in Block |-> IF e = b THEN count[e] + 1 ELSE count[e]]
  BY <1>1 DEF Alloc
<1>5. b \in Block /\ count[b] = 0
  BY <1>3
<1> HIDE DEF b
<1>6. b \notin Held
  BY <1>1, <1>5
<1>7. \A e \in Block : (IF e = b THEN count[e] + 1 ELSE count[e]) = IF e \in Held \cup {b} THEN 1 ELSE 0
  BY <1>1, <1>5, <1>6
<1>8. QED BY <1>4, <1>5, <1>6, <1>7 DEF b

\* Two queues share no element.
LEMMA ElementsApart ==
  ASSUME CsmaInv, MemoryInv, NEW d \in Dest, NEW e \in Dest, e # d,
         NEW x \in Elements(Image(queue[e], elem))
  PROVE  x \in Block /\ x \in Held /\ x \notin Elements(Image(queue[d], elem))
<1>1. PICK p \in Elements(queue[e]) : x = elem[p]
  <2>1. Elements(Image(queue[e], elem)) = {elem[p] : p \in Elements(queue[e])}
    BY QueueFacts
  <2>2. QED BY <2>1
<1>2. p \in QueuedPackets /\ x \in Block /\ p \notin Elements(queue[d])
  BY <1>1, QueueFacts DEF CsmaInv, Apart
<1>3. x \in Held
  BY <1>1, <1>2 DEF Held
<1>4. x \notin Elements(Image(queue[d], elem))
  <2>1. SUFFICES ASSUME NEW q \in Elements(queue[d]), elem[q] = x PROVE FALSE
    <3>1. Elements(Image(queue[d], elem)) = {elem[q] : q \in Elements(queue[d])}
      BY QueueFacts
    <3>2. QED BY <3>1
  <2>2. q \in QueuedPackets /\ q # p
    BY <1>2, QueueFacts
  <2>3. QED BY <1>1, <1>2, <2>1, <2>2 DEF MemoryInv, ElemSound
<1>5. QED BY <1>2, <1>3, <1>4

\* send_packet links the packet at the end of its queue; the other queues do not notice.
LEMMA JoinsMemory ==
  ASSUME CsmaInv, MemoryInv, NEW d \in Dest, Joins(d), LinkPacket(d)
  PROVE  MemoryInv'
<1> DEFINE b == FreeBlock(count)
           l == ListAdd(List(d), b)
           s == Image(queue[d], elem)
<1>1. /\ made' \in Packet /\ ~Queued(made')
      /\ queue' \in [Dest -> Seq(Packet)]
      /\ \A e \in Dest : e # d => queue'[e] = queue[e]
      /\ QueuedPackets' = QueuedPackets \cup {made'}
  BY EnqueueEffect DEF CsmaInv, Joins
<1>2. queue'[d] = Append(queue[d], made')
  BY DEF Joins, Enqueue, CsmaInv, TypeOK
<1>3. /\ b \in Block /\ b \notin Held
      /\ Alloc(count) = [e \in Block |-> IF e \in Held \cup {b} THEN 1 ELSE 0]
  BY ElementFree DEF Joins, Fits
<1>4. /\ elem' = [elem EXCEPT ![made'] = b] /\ count' = Alloc(count)
      /\ head' = [head EXCEPT ![d] = l.head] /\ next' = l.next
  BY DEF LinkPacket, SetList
<1> HIDE DEF b
<1>5. /\ elem' \in [Packet -> Block \cup {End}] /\ elem'[made'] = b
      /\ \A p \in Packet : p # made' => elem'[p] = elem[p]
      /\ \A p \in QueuedPackets : elem'[p] = elem[p]
      /\ QueuedPackets \subseteq Packet
  BY <1>1, <1>3, <1>4 DEF MemoryInv, ElemSound, QueuedPackets
<1>6. ElemSound'
  <2>1. \A p \in QueuedPackets' : elem'[p] \in Block
    BY <1>1, <1>3, <1>5 DEF MemoryInv, ElemSound
  <2>2. \A p \in QueuedPackets : elem[p] # b
    BY <1>3 DEF Held
  <2>3. \A p, q \in QueuedPackets' : elem'[p] = elem'[q] => p = q
    BY <1>1, <1>5, <2>2 DEF MemoryInv, ElemSound
  <2>4. QED BY <1>5, <2>1, <2>3 DEF ElemSound
<1>7. Held' = Held \cup {b}
  <2>1. Held' = {elem'[p] : p \in QueuedPackets'}
    BY DEF Held
  <2>2. \A p \in QueuedPackets : elem'[p] = elem[p]
    BY <1>5
  <2>3. QED BY <1>1, <1>5, <2>1, <2>2 DEF Held
<1>8. /\ Links(List(d), s) /\ b \in DOMAIN List(d).next /\ b \notin Elements(s)
      /\ DOMAIN List(d).next = Block /\ List(d).next = next
  <2>1. Elements(s) = {elem[p] : p \in Elements(queue[d])} /\ Elements(queue[d]) \subseteq QueuedPackets
    BY QueueFacts
  <2>2. Elements(s) \subseteq Held
    BY <2>1 DEF Held
  <2>3. QED BY <1>3, <2>2 DEF MemoryInv, List
<1>9. /\ Links(l, Append(s, b)) /\ DOMAIN l.next = Block
      /\ \A e \in Block \ Elements(s) : e # b => l.next[e] = next[e]
  BY <1>8, AddLinks
<1> HIDE DEF l
<1>10. Image(queue'[d], elem') = Append(s, b)
  <2>1. Image(queue'[d], elem') = Append(Image(queue[d], elem'), b)
    BY <1>1, <1>2, <1>5, QueueFacts, ImageAppend
  <2>2. Image(queue[d], elem') = s
    BY <1>5, QueueFacts, ImageSame
  <2>3. QED BY <2>1, <2>2
<1>11. /\ DOMAIN head' = Dest /\ DOMAIN next' = Block
       /\ head'[d] = l.head /\ \A e \in Dest : e # d => head'[e] = head[e]
  BY <1>4, <1>9 DEF MemoryInv
<1>12. ASSUME NEW e \in Dest PROVE Links(List(e)', Image(queue'[e], elem'))
  <2>1. List(e)' = [head |-> head'[e], next |-> next']
    BY DEF List
  <2>2. CASE e = d
    <3>1. List(e)' = l
      BY <1>4, <1>9, <1>11, <2>1, <2>2 DEF Links
    <3>2. QED BY <1>9, <1>10, <2>2, <3>1
  <2>3. CASE e # d
    <3>1. Image(queue'[e], elem') = Image(queue[e], elem)
      <4>1. \A p \in Elements(queue[e]) : elem'[p] = elem[p]
        BY <1>5, QueueFacts
      <4>2. Image(queue[e], elem') = Image(queue[e], elem)
        BY <4>1, ImageSame
      <4>3. QED BY <1>1, <2>3, <4>2
    <3>2. \A x \in Elements(Image(queue[e], elem)) : x \in Block /\ x \notin Elements(s) /\ x # b
      BY <1>3, <2>3, ElementsApart
    <3>3. Links(List(e), Image(queue[e], elem)) /\ List(e) = [head |-> head[e], next |-> next]
      BY DEF MemoryInv, List
    <3>4. List(e)' = [head |-> head[e], next |-> l.next]
      BY <1>4, <1>11, <2>1, <2>3
    <3>5. QED BY <1>8, <1>9, <3>1, <3>2, <3>3, <3>4, LinksElsewhere
  <2>4. QED BY <2>2, <2>3
<1>13. count' = [e \in Block |-> IF e \in Held' THEN 1 ELSE 0]
  BY <1>3, <1>4, <1>7
<1>14. QED BY <1>6, <1>11, <1>12, <1>13 DEF MemoryInv

\* free_packet takes the element out of its queue, wherever it is.
LEMMA LeavesMemory ==
  ASSUME CsmaInv, MemoryInv, NEW n \in Dest, NEW p, Leaves(n, p), p = burst.p, UnlinkPacket(n)
  PROVE  MemoryInv'
<1> DEFINE x == elem[p]
           l == ListRemove(List(n), x)
           s == Image(queue[n], elem)
<1>1. /\ p \in Packet /\ p \in Elements(queue[n]) /\ p \in QueuedPackets
      /\ queue' \in [Dest -> Seq(Packet)]
      /\ \A e \in Dest : e # n => queue'[e] = queue[e]
      /\ Elements(queue'[n]) = Elements(queue[n]) \ {p}
      /\ QueuedPackets' = QueuedPackets \ {p}
  BY FreeEffect, QueueFacts DEF CsmaInv, Leaves
<1>2. queue'[n] = Unlink(queue[n], p)
  BY DEF Leaves, FreePacket, CsmaInv, TypeOK
<1>3. /\ elem' = [elem EXCEPT ![p] = End] /\ count' = Free(count, x)
      /\ head' = [head EXCEPT ![n] = l.head] /\ next' = l.next
  BY DEF UnlinkPacket, SetList
<1>4. x \in Block /\ x \in Held
  BY <1>1 DEF MemoryInv, ElemSound, Held
<1>5. /\ elem' \in [Packet -> Block \cup {End}]
      /\ \A q \in Packet : q # p => elem'[q] = elem[q]
      /\ QueuedPackets \subseteq Packet
  BY <1>1, <1>3 DEF MemoryInv, ElemSound, QueuedPackets
<1>6. ElemSound'
  BY <1>1, <1>5 DEF MemoryInv, ElemSound
<1>7. Held' = Held \ {x}
  <2>1. Held' = {elem'[q] : q \in QueuedPackets'}
    BY DEF Held
  <2>2. \A q \in QueuedPackets' : elem'[q] = elem[q] /\ q \in QueuedPackets /\ elem[q] # x
    BY <1>1, <1>5 DEF MemoryInv, ElemSound
  <2>3. \A y \in Held \ {x} : \E q \in QueuedPackets' : y = elem'[q]
    BY <1>1, <1>5 DEF Held
  <2>4. QED BY <2>1, <2>2, <2>3 DEF Held
<1>8. Links(List(n), s) /\ x \in Elements(s) /\ DOMAIN List(n).next = Block /\ List(n).next = next
  <2>1. Elements(s) = {elem[q] : q \in Elements(queue[n])}
    BY QueueFacts
  <2>2. QED BY <1>1, <2>1 DEF MemoryInv, List
<1>9. /\ Links(l, Unlink(s, x)) /\ DOMAIN l.next = Block
      /\ \A e \in Block \ Elements(s) : l.next[e] = next[e]
  BY <1>8, RemoveLinks
<1> HIDE DEF l
<1>10. Image(queue'[n], elem') = Unlink(s, x)
  <2>1. Unlink(s, x) = Image(queue'[n], elem)
    <3>1. /\ queue[n] \in Seq(Packet) /\ Distinct(queue[n])
          /\ \A q \in Elements(queue[n]) : elem[q] \in Block
          /\ \A q, r \in Elements(queue[n]) : elem[q] = elem[r] => q = r
      BY QueueFacts
    <3>2. Unlink(Image(queue[n], elem), elem[p]) = Image(Unlink(queue[n], p), elem)
      BY <1>1, <3>1, ImageUnlink
    <3>3. QED BY <1>2, <3>2
  <2>2. \A q \in Elements(queue'[n]) : elem'[q] = elem[q]
    BY <1>1, <1>5, QueueFacts
  <2>3. Image(queue'[n], elem') = Image(queue'[n], elem)
    BY <2>2, ImageSame
  <2>4. QED BY <2>1, <2>3
<1>11. /\ DOMAIN head' = Dest /\ DOMAIN next' = Block
       /\ head'[n] = l.head /\ \A e \in Dest : e # n => head'[e] = head[e]
  BY <1>3, <1>9 DEF MemoryInv
<1>12. ASSUME NEW e \in Dest PROVE Links(List(e)', Image(queue'[e], elem'))
  <2>1. List(e)' = [head |-> head'[e], next |-> next']
    BY DEF List
  <2>2. CASE e = n
    <3>1. List(e)' = l
      BY <1>3, <1>9, <1>11, <2>1, <2>2 DEF Links
    <3>2. QED BY <1>9, <1>10, <2>2, <3>1
  <2>3. CASE e # n
    <3>1. Image(queue'[e], elem') = Image(queue[e], elem)
      <4>1. \A q \in Elements(queue[e]) : q \in Packet /\ q # p
        <5>1. Elements(queue[e]) \subseteq QueuedPackets
          BY QueueFacts
        <5>2. Elements(queue[e]) \cap Elements(queue[n]) = {}
          BY <2>3 DEF CsmaInv, Apart
        <5>3. QED BY <1>1, <1>5, <5>1, <5>2
      <4>2. Image(queue[e], elem') = Image(queue[e], elem)
        BY <1>5, <4>1, ImageSame
      <4>3. QED BY <1>1, <2>3, <4>2
    <3>2. \A y \in Elements(Image(queue[e], elem)) : y \in Block /\ y \notin Elements(s)
      BY <2>3, ElementsApart
    <3>3. Links(List(e), Image(queue[e], elem)) /\ List(e) = [head |-> head[e], next |-> next]
      BY DEF MemoryInv, List
    <3>4. List(e)' = [head |-> head[e], next |-> l.next]
      BY <1>3, <1>11, <2>1, <2>3
    <3>5. QED BY <1>8, <1>9, <3>1, <3>2, <3>3, <3>4, LinksElsewhere
  <2>4. QED BY <2>2, <2>3
<1>13. count' = [e \in Block |-> IF e \in Held' THEN 1 ELSE 0]
  <2>1. DOMAIN count = Block /\ \A e \in Block : count[e] = IF e \in Held THEN 1 ELSE 0
    BY DEF MemoryInv
  <2>2. count' = [e \in Block |-> IF e = x /\ count[e] > 0 THEN count[e] - 1 ELSE count[e]]
    BY <1>3, <2>1 DEF Free
  <2> HIDE DEF x
  <2>3. \A e \in Block : (IF e = x /\ count[e] > 0 THEN count[e] - 1 ELSE count[e])
                         = IF e \in Held \ {x} THEN 1 ELSE 0
    BY <1>4, <2>1
  <2>4. QED BY <1>7, <2>2, <2>3
<1>14. QED BY <1>6, <1>11, <1>12, <1>13 DEF MemoryInv

\* Steps that leave the queues alone leave the memory alone.
LEMMA QuietMemory ==
  ASSUME MemoryInv, queue' = queue, UNCHANGED memoryVars
  PROVE  MemoryInv'
<1>1. ElemSound' /\ Held' = Held
  BY DEF MemoryInv, memoryVars, ElemSound, Held, QueuedPackets, Queued
<1>2. QED BY <1>1 DEF MemoryInv, memoryVars, List

\* A packet that is refused gives its element back.
LEMMA RefusedMemory ==
  ASSUME MemoryInv, RefusePacket
  PROVE  UNCHANGED memoryVars
<1> DEFINE b == FreeBlock(count)
           more == [e \in Block |-> IF e = b THEN count[e] + 1 ELSE count[e]]
<1>1. count \in [Block -> Nat]
  BY DEF MemoryInv
<1>2. Alloc(count) = more
  BY <1>1 DEF Alloc
<1> HIDE DEF b
<1>3. Free(more, b) = [e \in Block |-> IF e = b /\ more[e] > 0 THEN more[e] - 1 ELSE more[e]]
  BY DEF Free
<1>4. \A e \in Block : (IF e = b /\ more[e] > 0 THEN more[e] - 1 ELSE more[e]) = count[e]
  BY <1>1
<1>5. Free(more, b) = count
  BY <1>1, <1>3, <1>4
<1>6. QED BY <1>2, <1>5 DEF RefusePacket, memoryVars, b

LEMMA StepMemory == CsmaInv /\ MemoryInv /\ [Next /\ MemoryStep]_<<vars, memoryVars>> => MemoryInv'
<1> SUFFICES ASSUME CsmaInv, MemoryInv, [Next /\ MemoryStep]_<<vars, memoryVars>> PROVE MemoryInv'
  OBVIOUS
<1>1. \A d \in Dest : queue[d] \in Seq(Packet) /\ Len(queue[d]) \in Nat
  BY DEF CsmaInv, TypeOK
<1>2. CASE UNCHANGED <<vars, memoryVars>>
  BY <1>2, QuietMemory DEF vars, nbrVars
<1>3. CASE Next /\ MemoryStep
  <2>1. CASE queue' = queue
    <3>1. UNCHANGED memoryVars
      <4>1. ~ \E d \in Dest : Len(queue'[d]) > Len(queue[d]) \/ Len(queue'[d]) < Len(queue[d])
        BY <1>1, <2>1
      <4>2. UNCHANGED memoryVars \/ RefusePacket
        BY <1>3, <4>1 DEF MemoryStep
      <4>3. QED BY <4>2, RefusedMemory
    <3>2. QED BY <2>1, <3>1, QuietMemory
  <2>2. ASSUME NEW d \in Dest, Joins(d) PROVE MemoryInv'
    <3>1. /\ Len(queue'[d]) = Len(queue[d]) + 1
          /\ \A e \in Dest : e # d => queue'[e] = queue[e]
      <4>1. queue' = [queue EXCEPT ![d] = Append(queue[d], made')] /\ made' \in Packet
        BY <2>2, EnqueueEffect DEF Joins, Enqueue, CsmaInv
      <4>2. queue'[d] = Append(queue[d], made') /\ \A e \in Dest : e # d => queue'[e] = queue[e]
        BY <4>1 DEF CsmaInv, TypeOK
      <4>3. QED BY <1>1, <4>1, <4>2
    <3>2. LinkPacket(d)
      <4>1. \A e \in Dest : Len(queue[e]) \in Nat
        BY DEF CsmaInv, TypeOK
      <4>2. queue'[d] # queue[d]
        BY <3>1, <4>1
      <4>3. ASSUME NEW e \in Dest, Len(queue'[e]) > Len(queue[e]) PROVE e = d
        BY <3>1, <4>1, <4>3
      <4>4. ~ \E e \in Dest : Len(queue'[e]) < Len(queue[e])
        BY <3>1, <4>1
      <4>5. QED BY <1>3, <4>2, <4>3, <4>4 DEF MemoryStep
    <3>3. QED BY <2>2, <3>2, JoinsMemory
  <2>3. CASE burst.n \in Dest /\ Leaves(burst.n, burst.p)
    <3> DEFINE n == burst.n
    <3>1. /\ Len(queue'[n]) < Len(queue[n])
          /\ \A e \in Dest : e # n => queue'[e] = queue[e]
      <4>1. queue'[n] = Unlink(queue[n], burst.p) /\ \A e \in Dest : e # n => queue'[e] = queue[e]
        BY <2>3 DEF Leaves, FreePacket, CsmaInv, TypeOK
      <4>2. Len(Unlink(queue[n], burst.p)) < Len(queue[n])
        BY <1>1, <2>3, UnlinkLength DEF Leaves, CsmaInv, Apart
      <4>3. QED BY <4>1, <4>2
    <3>2. Len(queue'[n]) \in Nat
      BY <2>3, FreeEffect DEF Leaves, CsmaInv
    <3>3. UnlinkPacket(n)
      BY <1>1, <1>3, <2>3, <3>1, <3>2 DEF MemoryStep
    <3>4. QED BY <2>3, <3>3, LeavesMemory
  <2>4. QED BY <1>3, <2>1, <2>2, <2>3, QueueSteps
<1>4. QED BY <1>2, <1>3

\* Each queue is in memory what the program takes it for and each element in use is
\* counted once, whichever packet leaves first (csma.c:176-183, 358-397).
THEOREM QueuesKeptInMemory == MemorySpec => []QueuesInMemory
<1>1. MemoryInit => CsmaInv /\ MemoryInv
  BY InitCsma, MemoryInvInit DEF MemoryInit
<1>2. CsmaInv /\ MemoryInv /\ [Next /\ MemoryStep]_<<vars, memoryVars>> => (CsmaInv /\ MemoryInv)'
  BY StepMemory, StepCsma
<1>3. ASSUME CsmaInv, MemoryInv PROVE QueuesInMemory
  <2>1. \A d \in Dest : Chain(List(d)) = Image(queue[d], elem)
    BY <1>3, ChainIs DEF MemoryInv
  <2>2. ASSUME NEW e \in Block
        PROVE  count[e] = Cardinality({p \in QueuedPackets : elem[p] = e})
    <3>1. CASE e \in Held
      <4>1. PICK p \in QueuedPackets : elem[p] = e
        BY <3>1 DEF Held
      <4>2. {q \in QueuedPackets : elem[q] = e} = {p}
        BY <1>3, <4>1 DEF MemoryInv, ElemSound
      <4>3. QED BY <1>3, <3>1, <4>2, FS_Singleton DEF MemoryInv
    <3>2. CASE e \notin Held
      <4>1. {q \in QueuedPackets : elem[q] = e} = {}
        BY <3>2 DEF Held
      <4>2. QED BY <1>3, <3>2, <4>1, FS_EmptySet DEF MemoryInv
    <3>3. QED BY <3>1, <3>2
  <2>3. QED BY <2>1, <2>2 DEF QueuesInMemory, Image
<1>4. QED BY <1>1, <1>2, <1>3, PTL DEF MemorySpec
=============================================================================
