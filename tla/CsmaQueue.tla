------------------------------ MODULE CsmaQueue ------------------------------
(***************************************************************************)
(* The queues of the medium access layer (core/net/mac/csma.c) over the    *)
(* burst transmission of ContikiMAC (net/mac/contikimac/contikimac.c,      *)
(* qsend_list) and the deferred transmissions of net/mac/phase.c.          *)
(*                                                                         *)
(* Sending a burst keeps the processor: nothing else runs but the          *)
(* callbacks it makes, and these may send packets.  Packets are numbered   *)
(* as they are given to send_packet; the 16-bit seqno does not come round. *)
(* No packet has type ACK (only runicast.c and collect.c make them), so    *)
(* that list_push is never used.                                           *)
(***************************************************************************)
EXTENDS Lists, FiniteSets

CONSTANTS
  Dest,                     \* addresses of receivers
  Broadcast,                \* the broadcast address
  NONE,                     \* no address
  CSMA_MAX_NEIGHBOR_QUEUES,
  QUEUEBUF_NUM,             \* size of the pools of packets, metadata and buffers
  CSMA_MAX_MAC_TRANSMISSIONS,
  MaxPackets                \* bound: packets sent

ASSUME DestAssumption == Broadcast \in Dest /\ NONE \notin Dest
ASSUME SizeAssumption ==
  /\ {CSMA_MAX_NEIGHBOR_QUEUES, QUEUEBUF_NUM, CSMA_MAX_MAC_TRANSMISSIONS} \subseteq Nat \ {0}
  /\ MaxPackets \in Nat

VARIABLES
  queue,          \* queue[d]: queued_packet_list of the neighbor with address d
  neighbors,      \* addresses with an element of neighbor_memb
  transmit_timer, \* pending or not
  transmissions,  \* of the packet at the head
  packets,        \* elements of packet_memb in use
  metadata,       \* elements of metadata_memb in use
  queuebufs,      \* buffers in use
  others,         \* buffers in use by other services
  deferred,       \* packet whose transmission phase.c has put off, or 0
  burst,          \* what qsend_list is doing
  made,           \* packets given to send_packet
  reports         \* history: how often each was reported to its sender

poolVars == <<neighbors, packets, metadata, queuebufs>>
nbrVars  == <<queue, transmit_timer, transmissions>>
appVars  == <<made, reports>>
vars == <<poolVars, nbrVars, appVars, others, deferred, burst>>

Packet == 1 .. MaxPackets

\* at: "idle", "send" (about to send p), "sent" (p had the outcome status),
\* "callback" (p was released and its sender is told).
Idle == [at |-> "idle", n |-> NONE, p |-> 0, next |-> 0, awake |-> FALSE, status |-> "NONE"]

Init ==
  /\ queue = [d \in Dest |-> << >>]
  /\ neighbors = {}
  /\ transmit_timer = [d \in Dest |-> FALSE]
  /\ transmissions = [d \in Dest |-> 0]
  /\ packets = 0 /\ metadata = 0 /\ queuebufs = 0 /\ others = 0
  /\ deferred = [d \in Dest |-> 0]
  /\ burst = Idle
  /\ made = 0
  /\ reports = [p \in Packet |-> 0]

Report(done) == reports' = [p \in Packet |-> IF p \in done THEN reports[p] + 1 ELSE reports[p]]

-----------------------------------------------------------------------------
(* send_packet *)

\* What is in use of the four pools, and with one element more or less.
Pools == [neighbors |-> neighbors, packets |-> packets,
          metadata |-> metadata, queuebufs |-> queuebufs]

Take(u, pool) == [u EXCEPT ![pool] = @ + 1]
Give(u, pool) == [u EXCEPT ![pool] = @ - 1]

Got(u)    == [ok |-> TRUE, use |-> u]
Failed(u) == [ok |-> FALSE, use |-> u]

\* The allocations one inside the other, on what is in use: where one fails, those
\* around it free what they have taken.
TakeBuffer(u) ==
  IF u.queuebufs < QUEUEBUF_NUM THEN Got(Take(u, "queuebufs")) ELSE Failed(u)

\* Mutant of TakeMetadata: without a buffer, the metadata are kept.
TakeMetadataLeaks(u) ==
  LET rest == TakeBuffer(Take(u, "metadata"))
  IN  IF u.metadata < QUEUEBUF_NUM THEN rest ELSE Failed(u)

TakeMetadata(u) ==
  LET rest == TakeBuffer(Take(u, "metadata"))
  IN  CASE u.metadata >= QUEUEBUF_NUM            -> Failed(u)
        [] u.metadata < QUEUEBUF_NUM /\ rest.ok  -> rest
        [] u.metadata < QUEUEBUF_NUM /\ ~rest.ok -> Failed(Give(rest.use, "metadata"))

TakePacket(u) ==
  LET rest == TakeMetadata(Take(u, "packets"))
  IN  CASE u.packets >= QUEUEBUF_NUM            -> Failed(u)
        [] u.packets < QUEUEBUF_NUM /\ rest.ok  -> rest
        [] u.packets < QUEUEBUF_NUM /\ ~rest.ok -> Failed(Give(rest.use, "packets"))

HasNeighbor(d) == d \in neighbors \/ Cardinality(neighbors) < CSMA_MAX_NEIGHBOR_QUEUES

\* A neighbour whose queue is empty is freed again.
Allocate(d) ==
  LET with == [Pools EXCEPT !.neighbors = @ \cup {d}]
      rest == TakePacket(with)
      without == [rest.use EXCEPT !.neighbors = @ \ {d}]
  IN  CASE ~HasNeighbor(d) -> Failed(Pools)
        [] HasNeighbor(d) /\ Len(queue[d]) >= QUEUEBUF_NUM -> Failed(with)
        [] HasNeighbor(d) /\ Len(queue[d]) < QUEUEBUF_NUM ->
             IF rest.ok \/ queue[d] # << >> THEN rest ELSE Failed(without)

SetPools(u) ==
  /\ neighbors' = u.neighbors
  /\ packets' = u.packets
  /\ metadata' = u.metadata
  /\ queuebufs' = u.queuebufs

\* A packet that is alone in its queue is to be sent at once.
Enqueue(d, p) ==
  /\ queue' = [queue EXCEPT ![d] = Append(@, p)]
  /\ transmit_timer' = [transmit_timer EXCEPT ![d] = @ \/ queue[d] = << >>]

\* done: packets reported in the same step.  A new neighbour has sent nothing yet.
SendPacket(d, done) ==
  /\ made < MaxPackets
  /\ made' = made + 1
  /\ SetPools(Allocate(d).use)
  /\ transmissions' = [transmissions EXCEPT ![d] =
                         IF HasNeighbor(d) /\ d \notin neighbors THEN 0 ELSE @]
  /\ IF Allocate(d).ok
       THEN Enqueue(d, made') /\ Report(done)
       ELSE UNCHANGED <<queue, transmit_timer>> /\ Report(done \cup {made'})

-----------------------------------------------------------------------------
(* free_packet and packet_sent *)

\* Mutant of FreePacket: no timer is set for the next packet.
FreePacketUntimed(n, p) ==
  LET rest == Unlink(queue[n], p)
  IN  /\ queue' = [queue EXCEPT ![n] = rest]
      /\ packets' = packets - 1
      /\ metadata' = metadata - 1
      /\ queuebufs' = queuebufs - 1
      /\ transmissions' = [transmissions EXCEPT ![n] = IF rest = << >> THEN @ ELSE 0]
      /\ transmit_timer' = [transmit_timer EXCEPT ![n] = FALSE]
      /\ neighbors' = IF rest = << >> THEN neighbors \ {n} ELSE neighbors

\* Mutant of FreePacket: the head leaves the queue, whichever packet was sent.
FreePacketHead(n, p) ==
  LET rest == Tail(queue[n])
  IN  /\ queue' = [queue EXCEPT ![n] = rest]
      /\ packets' = packets - 1
      /\ metadata' = metadata - 1
      /\ queuebufs' = queuebufs - 1
      /\ transmissions' = [transmissions EXCEPT ![n] = IF rest = << >> THEN @ ELSE 0]
      /\ transmit_timer' = [transmit_timer EXCEPT ![n] = rest # << >>]
      /\ neighbors' = IF rest = << >> THEN neighbors \ {n} ELSE neighbors

FreePacket(n, p) ==
  LET rest == Unlink(queue[n], p)
  IN  /\ queue' = [queue EXCEPT ![n] = rest]
      /\ packets' = packets - 1
      /\ metadata' = metadata - 1
      /\ queuebufs' = queuebufs - 1
      /\ transmissions' = [transmissions EXCEPT ![n] = IF rest = << >> THEN @ ELSE 0]
      /\ transmit_timer' = [transmit_timer EXCEPT ![n] = rest # << >>]
      /\ neighbors' = IF rest = << >> THEN neighbors \ {n} ELSE neighbors

\* Mutant of Tries: the transmissions of this attempt only.
TriesLast(n, status) == IF status \in {"OK", "NOACK"} THEN 1 ELSE transmissions[n]

\* Collisions are counted apart and never exhaust the attempts.
Tries(n, status) ==
  IF status \in {"OK", "NOACK"} THEN transmissions[n] + 1 ELSE transmissions[n]

\* Mutant of Retransmit: one transmission more than the limit.
RetransmitLate ==
  /\ burst.at = "sent"
  /\ burst.status \in {"COLLISION", "NOACK"}
  /\ Tries(burst.n, burst.status) <= CSMA_MAX_MAC_TRANSMISSIONS
  /\ transmissions' = [transmissions EXCEPT ![burst.n] = Tries(burst.n, burst.status)]
  /\ transmit_timer' = [transmit_timer EXCEPT ![burst.n] = TRUE]
  /\ burst' = Idle
  /\ UNCHANGED <<queue, poolVars, appVars, others, deferred>>

\* packet_sent, to be retransmitted.
Retransmit ==
  /\ burst.at = "sent"
  /\ burst.status \in {"COLLISION", "NOACK"}
  /\ Tries(burst.n, burst.status) < CSMA_MAX_MAC_TRANSMISSIONS
  /\ transmissions' = [transmissions EXCEPT ![burst.n] = Tries(burst.n, burst.status)]
  /\ transmit_timer' = [transmit_timer EXCEPT ![burst.n] = TRUE]
  /\ burst' = Idle
  /\ UNCHANGED <<queue, poolVars, appVars, others, deferred>>

\* packet_sent, done with the packet.
Finish ==
  /\ burst.at = "sent"
  /\ burst.status \in {"COLLISION", "NOACK"} =>
       Tries(burst.n, burst.status) >= CSMA_MAX_MAC_TRANSMISSIONS
  /\ FreePacket(burst.n, burst.p)
  /\ burst' = [burst EXCEPT !.at = "callback"]
  /\ UNCHANGED <<appVars, others, deferred>>

-----------------------------------------------------------------------------
(* qsend_list *)

Follows(n, p) ==
  LET i == Place(queue[n], p)
  IN  IF i = Len(queue[n]) THEN 0 ELSE queue[n][i + 1]

\* Mutant of Outcome: also a receiver that is awake is waited for.
OutcomeAwake(n, awake) ==
  {"OK", "COLLISION", "ERR_FATAL"}
    \cup (IF n = Broadcast THEN {} ELSE {"NOACK", "DEFERRED"})

Outcome(n, awake) ==
  {"OK", "COLLISION", "ERR_FATAL"}
    \cup (IF n = Broadcast THEN {} ELSE {"NOACK"})
    \cup (IF n = Broadcast \/ awake THEN {} ELSE {"DEFERRED"})

\* The burst that begins with packet p of n is sent; or one is being received; or
\* the framer fails for one of its packets.
BeginSend(n, p) ==
  burst' = [Idle EXCEPT !.at = "send", !.n = n, !.p = p]

BeginFails(n, p) ==
  \/ burst' = [Idle EXCEPT !.at = "sent", !.n = n, !.p = p, !.status = "COLLISION"]
  \/ \E q \in Elements(queue[n]) :
       /\ q >= p
       /\ burst' = [Idle EXCEPT !.at = "sent", !.n = n, !.p = q, !.status = "ERR_FATAL"]

\* transmit_packet_list
TimerDue(n) ==
  /\ burst = Idle
  /\ transmit_timer[n]
  /\ transmit_timer' = [transmit_timer EXCEPT ![n] = FALSE]
  /\ UNCHANGED <<queue, transmissions, poolVars, appVars, others, deferred>>

\* send_packet of phase.c
PhaseDue(n) ==
  /\ burst = Idle
  /\ deferred[n] # 0
  /\ deferred' = [deferred EXCEPT ![n] = 0]
  /\ UNCHANGED <<nbrVars, poolVars, appVars, others>>

SendHead(n)   == TimerDue(n) /\ BeginSend(n, Head(queue[n]))
HeadFails(n)  == TimerDue(n) /\ BeginFails(n, Head(queue[n]))
PhaseSend(n)  == PhaseDue(n) /\ BeginSend(n, deferred[n])
PhaseFails(n) == PhaseDue(n) /\ BeginFails(n, deferred[n])

\* The packet is transmitted, or its transmission is put off until the receiver is
\* known to wake up.  The next packet of the burst is read before.
Transmit(status) ==
  /\ burst.at = "send"
  /\ status \in Outcome(burst.n, burst.awake)
  /\ IF status = "DEFERRED"
       THEN deferred' = [deferred EXCEPT ![burst.n] = burst.p] /\ burst' = Idle
       ELSE /\ burst' = [burst EXCEPT !.at = "sent", !.status = status,
                                      !.next = Follows(burst.n, burst.p)]
            /\ UNCHANGED deferred
  /\ UNCHANGED <<nbrVars, poolVars, appVars, others>>

\* The burst goes on while transmissions succeed and the packet sent was marked as
\* having a successor (PENDING, set when its frame was made).
Continue ==
  \/ burst' = Idle
  \/ /\ burst.status = "OK" /\ burst.next # 0
     /\ burst' = [Idle EXCEPT !.at = "send", !.n = burst.n, !.p = burst.next, !.awake = TRUE]

\* The sender is told.  If it sends another packet, the mark in packetbuf is lost.
Callback ==
  /\ burst.at = "callback"
  /\ \/ Report({burst.p}) /\ Continue /\ UNCHANGED <<made, nbrVars, poolVars>>
     \/ (\E d \in Dest : SendPacket(d, {burst.p})) /\ burst' = Idle
  /\ UNCHANGED <<others, deferred>>

-----------------------------------------------------------------------------
(* The other users of the stack *)

Send(d) ==
  /\ burst = Idle
  /\ SendPacket(d, {})
  /\ UNCHANGED <<others, deferred, burst>>

OthersTake ==
  /\ burst = Idle
  /\ queuebufs < QUEUEBUF_NUM
  /\ queuebufs' = queuebufs + 1
  /\ others' = others + 1
  /\ UNCHANGED <<neighbors, packets, metadata, nbrVars, appVars, deferred, burst>>

OthersFree ==
  /\ burst = Idle
  /\ others > 0
  /\ queuebufs' = queuebufs - 1
  /\ others' = others - 1
  /\ UNCHANGED <<neighbors, packets, metadata, nbrVars, appVars, deferred, burst>>

-----------------------------------------------------------------------------
Begin == \E n \in Dest : SendHead(n) \/ HeadFails(n) \/ PhaseSend(n) \/ PhaseFails(n)
TransmitAny == \E status \in {"OK", "NOACK", "COLLISION", "ERR_FATAL", "DEFERRED"} : Transmit(status)
Rest == Retransmit \/ Finish \/ Callback \/ OthersTake \/ OthersFree \/ \E d \in Dest : Send(d)

Next == Begin \/ TransmitAny \/ Rest

Spec == Init /\ [][Next]_vars

\* A burst that was begun goes on.  Of each receiver, the timer or the deferred
\* transmission is served between other bursts; and the channel is not busy, nor is the
\* receiver waited for, every time a packet for it is to be sent.
Fairness ==
  /\ WF_vars(Retransmit \/ Finish \/ Callback \/ TransmitAny)
  /\ \A n \in Dest :
       /\ SF_vars(SendHead(n) \/ PhaseSend(n))
       /\ SF_vars(burst.n = n /\ (Transmit("OK") \/ Transmit("NOACK")))

FairSpec == Spec /\ Fairness

-----------------------------------------------------------------------------
(* Properties *)

Queued(p) == \E d \in Dest : p \in Elements(queue[d])
QueuedPackets == {p \in Packet : Queued(p)}

\* Type invariant of the queues.
TypeOK ==
  /\ queue \in [Dest -> Seq(Packet)]
  /\ neighbors \subseteq Dest
  /\ transmit_timer \in [Dest -> BOOLEAN]
  /\ transmissions \in [Dest -> 0 .. CSMA_MAX_MAC_TRANSMISSIONS - 1]
  /\ packets \in Nat /\ metadata \in Nat /\ queuebufs \in Nat /\ others \in Nat
  /\ deferred \in [Dest -> Packet \cup {0}]
  /\ burst \in [at : {"idle", "send", "sent", "callback"}, n : Dest \cup {NONE},
                p : Packet \cup {0}, next : Packet \cup {0}, awake : BOOLEAN,
                status : {"NONE", "OK", "NOACK", "COLLISION", "ERR_FATAL"}]
  /\ made \in 0 .. MaxPackets
  /\ reports \in [Packet -> Nat]

\* No path loses an element of the four pools (csma.c:173-200, 338-411): what is in
\* use is what the queues hold.
PoolsExact ==
  /\ neighbors = {d \in Dest : queue[d] # << >>}
  /\ packets = Cardinality(QueuedPackets)
  /\ metadata = packets
  /\ queuebufs = packets + others

\* A queue that is not empty has one agent that will see to it (csma.c:186-198, 268,
\* 388-391; phase.c:227-235): its timer, a deferred transmission or the burst.  Two
\* agents would send the same packet twice.
QueueServed ==
  \A d \in Dest :
    /\ queue[d] # << >> =>
         transmit_timer[d] \/ deferred[d] # 0 \/ (burst.n = d /\ burst.at # "callback")
    /\ deferred[d] # 0 => ~transmit_timer[d] /\ burst.n # d

\* Pointers to packets that are kept across callbacks and timers stay valid
\* (contikimac.c:859-880, phase.c:231): the packets are still in the queue.
PointersLive ==
  /\ \A d \in Dest : deferred[d] # 0 => deferred[d] \in Elements(queue[d])
  /\ burst.at \in {"send", "sent"} => burst.p \in Elements(queue[burst.n])
  /\ burst.next # 0 => burst.next \in Elements(queue[burst.n])

\* Each packet is reported to its sender exactly once (csma.c:202-314, 412), and not
\* before it has left its queue.
ReportedOnce ==
  \A p \in 1 .. made :
    reports[p] = IF Queued(p) \/ (burst.at = "callback" /\ burst.p = p) THEN 0 ELSE 1

\* Each packet is reported in the end.
EachReported == \A p \in Packet : made >= p ~> reports[p] > 0
=============================================================================
