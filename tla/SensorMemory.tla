---------------------------- MODULE SensorMemory ----------------------------
(***************************************************************************)
(* The sensor node with the memory its buffer lives in: sensor_buff as     *)
(* list.c links it and buff_memb as memb.c counts it.  A block returns to  *)
(* the list with whatever pointer it kept when it was popped.              *)
(***************************************************************************)
EXTENDS SensorNode, LinkedList, Memb

VARIABLES
  sensor_list, \* sensor_buff in memory
  count        \* reference counts of buff_memb

memoryVars == <<sensor_list, count>>

MemoryInit ==
  /\ Init
  /\ sensor_list = [head |-> End, next |-> [b \in Blocks |-> End]]
  /\ count = [b \in Blocks |-> IF b = 0 THEN 1 ELSE 0]

\* A packet is complete: list_add; if the list is full, memb_free of list_pop;
\* memb_alloc.
KeepPacket ==
  LET full == ListAdd(sensor_list, current_elem)
      over == Len(Chain(full)) = BUFF_SIZE
  IN  /\ sensor_list' = IF over THEN ListPop(full) ELSE full
      /\ count' = Alloc(IF over THEN Free(count, full.head) ELSE count)

\* The oldest packet is acknowledged: memb_free of list_pop.
ReleasePacket ==
  IF sensor_list.head = last_elem
    THEN sensor_list' = ListPop(sensor_list) /\ count' = Free(count, sensor_list.head)
    ELSE UNCHANGED memoryVars

MemoryNext ==
  \/ (CompletePacket \/ CompleteAndDrop) /\ KeepPacket
  \/ (\E heard \in BOOLEAN : TxAcked(heard)) /\ ReleasePacket
  \/ /\ \/ TakeSample \/ TxIdle \/ TxContinue \/ TxSpurious \/ RecvAnyAck \/ Move
        \/ \E heard \in BOOLEAN : TxTimeout(heard)
     /\ UNCHANGED memoryVars

MemorySpec ==
  MemoryInit /\ [][MemoryNext]_<<vars, memoryVars>> /\ Fairness

-----------------------------------------------------------------------------
(* Properties *)

\* The linked list and the counts keep the buffer (sensor-node.c:173-194, 247;
\* list.c:142-158, 217-227; memb.c:58-101), although blocks are used again and again
\* and list_pop leaves their pointers as they were: no cycle, no block lost or used
\* twice, and memb_alloc returns the block that the node fills next.
BufferInMemory ==
  /\ Chain(sensor_list) = sensor_buff
  /\ \A b \in Blocks : count[b] = IF b \in allocated THEN 1 ELSE 0
=============================================================================
