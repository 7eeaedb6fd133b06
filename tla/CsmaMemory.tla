----------------------------- MODULE CsmaMemory -----------------------------
(***************************************************************************)
(* The neighbour queues of CsmaQueue with the memory they live in: each    *)
(* packet in an element of packet_memb, linked by list.c.                  *)
(***************************************************************************)
EXTENDS CsmaQueue, LinkedList, Memb

VARIABLES
  head,  \* queued_packet_list of each neighbour
  next,  \* of the elements of packet_memb
  count, \* reference counts of packet_memb
  elem   \* history: the element that a packet is in, or End

memoryVars == <<head, next, count, elem>>

Block == 1 .. QUEUEBUF_NUM
List(d) == [head |-> head[d], next |-> next]

MemoryInit ==
  /\ Init
  /\ head = [d \in Dest |-> End]
  /\ next = [e \in Block |-> End]
  /\ count = [e \in Block |-> 0]
  /\ elem = [p \in Packet |-> End]

SetList(d, l) == head' = [head EXCEPT ![d] = l.head] /\ next' = l.next

\* send_packet: memb_alloc, list_add
LinkPacket(d) ==
  LET e == FreeBlock(count)
  IN  /\ count' = Alloc(count)
      /\ elem' = [elem EXCEPT ![made'] = e]
      /\ SetList(d, ListAdd(List(d), e))

\* free_packet: list_remove, memb_free
UnlinkPacket(d) ==
  /\ SetList(d, ListRemove(List(d), elem[burst.p]))
  /\ count' = Free(count, elem[burst.p])
  /\ elem' = [elem EXCEPT ![burst.p] = End]

\* send_packet, for a packet that is refused: the element it got, if any, is freed.
RefusePacket ==
  /\ count' = Free(Alloc(count), FreeBlock(count))
  /\ UNCHANGED <<head, next, elem>>

\* The change of a queue is made in memory.
MemoryStep ==
  \/ UNCHANGED <<queue, made>> /\ UNCHANGED memoryVars
  \/ UNCHANGED queue /\ made' > made /\ RefusePacket
  \/ \E d \in Dest : Len(queue'[d]) > Len(queue[d]) /\ LinkPacket(d)
  \/ \E d \in Dest : Len(queue'[d]) < Len(queue[d]) /\ UnlinkPacket(d)

MemorySpec ==
  MemoryInit /\ [][Next /\ MemoryStep]_<<vars, memoryVars>> /\ Fairness

-----------------------------------------------------------------------------
(* Properties *)

\* Each queue is the chain of its packets in memory and the counts are those of the
\* elements in the queues (csma.c:176-183, 358-397; list.c:142-158, 239-263),
\* whichever packet of a burst leaves and although elements are used again.
QueuesInMemory ==
  /\ \A d \in Dest : Chain(List(d)) = [i \in DOMAIN queue[d] |-> elem[queue[d][i]]]
  /\ \A e \in Block : count[e] = Cardinality({p \in QueuedPackets : elem[p] = e})
=============================================================================
