----------------------------- MODULE SensorNode -----------------------------
(***************************************************************************)
(* The sensor node (contiki/examples/project/sensor-node.c): the process   *)
(* that samples and fills packets, the process that transmits the oldest   *)
(* packet until a relay acknowledges it, and the callback that receives    *)
(* acknowledgements.  The three are not preemptive (comment, lines 183-184)*)
(* so each run of a process between two waits is one action.               *)
(*                                                                         *)
(* Packets are numbered 0, 1, 2, ... in the order they are completed; a    *)
(* block of the pool holds one packet, and the uint8_t seqno on the wire   *)
(* is the number modulo SEQ_MOD.  Samples are not represented.  Time is    *)
(* represented by tx_budget only: the number of samples that may still be  *)
(* taken before the running transmission timer fires.                      *)
(***************************************************************************)
EXTENDS Integers, Sequences, FiniteSets

CONSTANTS
  BUFF_SIZE,          \* blocks in buff_memb
  SAMPLES_PER_PACKET, \* samples that complete a packet
  SEQ_MOD,            \* seqno is a uint8_t: 256
  TIMEOUT_MAX,        \* unanswered timeouts before the long timer
  SHORT_TX_SAMPLES,   \* samples that can be taken during the short timer
  LONG_TX_SAMPLES,    \* samples that can be taken during the long timer
  MaxPackets          \* bound: packets completed

ASSUME BuffAssumption    == BUFF_SIZE \in Nat /\ BUFF_SIZE >= 2
ASSUME PacketAssumption  == SAMPLES_PER_PACKET \in Nat \ {0}
ASSUME SeqAssumption     == SEQ_MOD \in Nat \ {0}
ASSUME TimeoutAssumption == TIMEOUT_MAX \in Nat \ {0}
ASSUME BoundAssumption   == MaxPackets \in Nat

\* The sampling period is 12 s, the longest transmission timer 35 s: at most
\* three samples, hence at most one completed packet, between two timeouts.
ASSUME TimerAssumption ==
  /\ SHORT_TX_SAMPLES \in Nat
  /\ LONG_TX_SAMPLES \in Nat
  /\ SHORT_TX_SAMPLES <= LONG_TX_SAMPLES
  /\ LONG_TX_SAMPLES <= SAMPLES_PER_PACKET

Blocks == 0 .. BUFF_SIZE - 1
NULL == -1

VARIABLES
  allocated,      \* blocks of buff_memb in use
  sensor_buff,    \* list of the blocks of completed packets, oldest first
  current_elem,   \* block being filled
  sample_cnt,     \* samples in current_elem
  pkt,            \* pkt[b]: number of the packet in block b
  made,           \* packets completed
  tx,             \* where transmit_process waits: "timer" (240) or "yield" (288, 294)
  tx_budget,      \* samples that may be taken before et_tx fires
  timeout_cnt,
  is_tx_sleeping,
  continue,       \* a PROCESS_EVENT_CONTINUE is queued for transmit_process
  tx_success,
  last_elem,      \* block transmitted last
  in_coverage,    \* a relay is in radio range
  stored,         \* history: packets some relay took and acknowledges
  dropped         \* history: packets overwritten because the buffer was full

memVars == <<allocated, sensor_buff, current_elem, sample_cnt, pkt, made, dropped>>
txVars  == <<tx, tx_budget, timeout_cnt, last_elem, stored>>
vars    == <<memVars, txVars, is_tx_sleeping, continue, tx_success, in_coverage>>

OldestPacket == pkt[Head(sensor_buff)]
Buffered == {pkt[sensor_buff[i]] : i \in DOMAIN sensor_buff}

\* The block memb_alloc returns when the blocks in used are taken.
MembAlloc(used) ==
  IF Blocks \ used = {}
    THEN NULL
    ELSE CHOOSE b \in Blocks \ used : \A c \in Blocks \ used : b <= c

-----------------------------------------------------------------------------
\* Both processes have run up to their first wait.
Init ==
  /\ allocated = {0}
  /\ sensor_buff = << >>
  /\ current_elem = 0
  /\ sample_cnt = 0
  /\ pkt = [b \in Blocks |-> 0]
  /\ made = 0
  /\ tx = "timer"
  /\ tx_budget = SHORT_TX_SAMPLES
  /\ timeout_cnt = 0
  /\ is_tx_sleeping = FALSE
  /\ continue = FALSE
  /\ tx_success = FALSE
  /\ last_elem = NULL
  /\ in_coverage \in BOOLEAN
  /\ stored = {}
  /\ dropped = {}

-----------------------------------------------------------------------------
(* sensor_process *)

\* The sampling timer fires.  The transmission timer bounds how many times
\* that can happen first, and a queued event is dispatched long before.
SampleDue ==
  /\ ~continue
  /\ tx = "timer" => tx_budget > 0
  /\ tx_budget' = IF tx = "timer" THEN tx_budget - 1 ELSE tx_budget
  /\ current_elem # NULL

TakeSample ==
  /\ SampleDue
  /\ sample_cnt + 1 < SAMPLES_PER_PACKET
  /\ sample_cnt' = sample_cnt + 1
  /\ UNCHANGED <<allocated, sensor_buff, current_elem, pkt, made, dropped, tx,
                 timeout_cnt, last_elem, stored, is_tx_sleeping, continue,
                 tx_success, in_coverage>>

\* Deviation (for mutants): the flag is cleared but the event not posted.
PostWakeupLost == is_tx_sleeping' = FALSE /\ UNCHANGED continue

\* The wakeup posted to a sleeping transmit_process.
PostWakeup ==
  /\ is_tx_sleeping' = FALSE
  /\ continue' = (continue \/ is_tx_sleeping)

\* The list was not full: the packet is appended and a free block taken.
CompletePacket ==
  /\ SampleDue
  /\ made < MaxPackets
  /\ sample_cnt + 1 = SAMPLES_PER_PACKET
  /\ Len(sensor_buff) + 1 # BUFF_SIZE
  /\ sensor_buff' = Append(sensor_buff, current_elem)
  /\ pkt' = [pkt EXCEPT ![current_elem] = made]
  /\ made' = made + 1
  /\ sample_cnt' = 0
  /\ PostWakeup
  /\ current_elem' = MembAlloc(allocated)
  /\ allocated' = allocated \cup ({current_elem'} \ {NULL})
  /\ UNCHANGED <<dropped, tx, timeout_cnt, last_elem, stored, tx_success, in_coverage>>

\* Deviation (for mutants): the block freed on overflow is the one just added.
DropNewest ==
  /\ SampleDue
  /\ made < MaxPackets
  /\ sample_cnt + 1 = SAMPLES_PER_PACKET
  /\ Len(sensor_buff) + 1 = BUFF_SIZE
  /\ pkt' = [pkt EXCEPT ![current_elem] = made]
  /\ dropped' = dropped \cup {made}
  /\ made' = made + 1
  /\ sample_cnt' = 0
  /\ PostWakeup
  /\ UNCHANGED <<allocated, sensor_buff, current_elem, tx, timeout_cnt, last_elem,
                 stored, tx_success, in_coverage>>

\* Deviation (for mutants): the block popped on overflow is not freed.
DropWithoutFree ==
  /\ SampleDue
  /\ made < MaxPackets
  /\ sample_cnt + 1 = SAMPLES_PER_PACKET
  /\ Len(sensor_buff) + 1 = BUFF_SIZE
  /\ sensor_buff' = Tail(Append(sensor_buff, current_elem))
  /\ pkt' = [pkt EXCEPT ![current_elem] = made]
  /\ dropped' = dropped \cup {pkt'[Head(sensor_buff)]}
  /\ current_elem' = MembAlloc(allocated)
  /\ allocated' = allocated \cup ({current_elem'} \ {NULL})
  /\ made' = made + 1
  /\ sample_cnt' = 0
  /\ PostWakeup
  /\ UNCHANGED <<tx, timeout_cnt, last_elem, stored, tx_success, in_coverage>>

\* The packet fills the list: the oldest one is popped and its block freed.
CompleteAndDrop ==
  /\ SampleDue
  /\ made < MaxPackets
  /\ sample_cnt + 1 = SAMPLES_PER_PACKET
  /\ Len(sensor_buff) + 1 = BUFF_SIZE
  /\ LET full == Append(sensor_buff, current_elem)
         used == allocated \ {Head(full)}
     IN  /\ sensor_buff' = Tail(full)
         /\ pkt' = [pkt EXCEPT ![current_elem] = made]
         /\ dropped' = dropped \cup {pkt'[Head(full)]}
         /\ current_elem' = MembAlloc(used)
         /\ allocated' = used \cup ({current_elem'} \ {NULL})
  /\ made' = made + 1
  /\ sample_cnt' = 0
  /\ PostWakeup
  /\ UNCHANGED <<tx, timeout_cnt, last_elem, stored, tx_success, in_coverage>>

-----------------------------------------------------------------------------
(* transmit_process *)

\* Deviation (for mutants): the count of timeouts is not reset.
SetTxTimerNoReset(cnt) ==
  /\ tx' = "timer"
  /\ tx_budget' = IF cnt >= TIMEOUT_MAX THEN LONG_TX_SAMPLES ELSE SHORT_TX_SAMPLES
  /\ timeout_cnt' = cnt

\* The head of the loop: choose the timer from the count of timeouts, and wait.
SetTxTimer(cnt) ==
  /\ tx' = "timer"
  /\ tx_budget' = IF cnt >= TIMEOUT_MAX THEN LONG_TX_SAMPLES ELSE SHORT_TX_SAMPLES
  /\ timeout_cnt' = IF cnt >= TIMEOUT_MAX THEN 0 ELSE cnt

Sleep ==
  /\ tx' = "yield"
  /\ is_tx_sleeping' = TRUE
  /\ UNCHANGED tx_budget

\* The broadcast of block b; heard: a relay in range stores it.
Transmit(b, heard) ==
  /\ heard => in_coverage
  /\ last_elem' = b
  /\ stored' = IF heard THEN stored \cup {pkt[b]} ELSE stored
  /\ UNCHANGED is_tx_sleeping

\* et_tx fired and nothing is buffered.
TxIdle ==
  /\ tx = "timer"
  /\ sensor_buff = << >>
  /\ Sleep
  /\ UNCHANGED <<memVars, timeout_cnt, last_elem, stored, continue, tx_success, in_coverage>>

\* Deviation (for mutants): the head is released without comparing it to last_elem.
TxAckedNoCompare(heard) ==
  /\ tx = "timer"
  /\ sensor_buff # << >>
  /\ tx_success
  /\ tx_success' = FALSE
  /\ sensor_buff' = Tail(sensor_buff)
  /\ allocated' = allocated \ {Head(sensor_buff)}
  /\ IF Tail(sensor_buff) = << >>
       THEN Sleep /\ timeout_cnt' = 0 /\ UNCHANGED <<last_elem, stored>>
       ELSE Transmit(Head(Tail(sensor_buff)), heard) /\ SetTxTimer(0)
  /\ UNCHANGED <<current_elem, sample_cnt, pkt, made, dropped, continue, in_coverage>>

\* et_tx fired and the last transmission was acknowledged: release the packet,
\* unless an overflow took it first, and transmit the next one, if any.
TxAcked(heard) ==
  /\ tx = "timer"
  /\ sensor_buff # << >>
  /\ tx_success
  /\ tx_success' = FALSE
  /\ LET acked == Head(sensor_buff) = last_elem
         rest  == IF acked THEN Tail(sensor_buff) ELSE sensor_buff
     IN  /\ sensor_buff' = rest
         /\ allocated' = IF acked THEN allocated \ {last_elem} ELSE allocated
         /\ IF rest = << >>
              THEN Sleep /\ timeout_cnt' = 0 /\ UNCHANGED <<last_elem, stored>>
              ELSE Transmit(Head(rest), heard) /\ SetTxTimer(0)
  /\ UNCHANGED <<current_elem, sample_cnt, pkt, made, dropped, continue, in_coverage>>

\* et_tx fired without an acknowledgement: count it and transmit again.
TxTimeout(heard) ==
  /\ tx = "timer"
  /\ sensor_buff # << >>
  /\ ~tx_success
  /\ Transmit(Head(sensor_buff), heard)
  /\ SetTxTimer(timeout_cnt + 1)
  /\ UNCHANGED <<memVars, continue, tx_success, in_coverage>>

\* The queued CONTINUE is dispatched; PROCESS_WAIT_UNTIL ignores it.
TxContinue ==
  /\ continue
  /\ continue' = FALSE
  /\ IF tx = "yield" THEN SetTxTimer(timeout_cnt) ELSE UNCHANGED <<tx, tx_budget, timeout_cnt>>
  /\ UNCHANGED <<memVars, last_elem, stored, is_tx_sleeping, tx_success, in_coverage>>

\* PROCESS_YIELD returns on any event: a timer event overtaken by a CONTINUE,
\* or one broadcast to all processes.  is_tx_sleeping stays set.
TxSpurious ==
  /\ tx = "yield"
  /\ SetTxTimer(timeout_cnt)
  /\ UNCHANGED <<memVars, last_elem, stored, is_tx_sleeping, continue, tx_success, in_coverage>>

-----------------------------------------------------------------------------
(* recv_uc, and the environment *)

\* Acknowledgements are sent within seconds: none is SEQ_MOD packets old.
FreshAck(p) == made - p <= SEQ_MOD

\* Deviation (for mutants): the seqno is compared with the next one to assign.
NextSeqno(p, b) == p % SEQ_MOD = made % SEQ_MOD

SameSeqno(p, b) == p % SEQ_MOD = pkt[b] % SEQ_MOD

\* An acknowledgement of packet p arrives: late, repeated or for a packet no
\* longer buffered.  One that does not match the oldest packet has no effect.
RecvAck(p) ==
  /\ in_coverage
  /\ FreshAck(p)
  /\ sensor_buff # << >>
  /\ SameSeqno(p, Head(sensor_buff))
  /\ tx_success' = TRUE
  /\ UNCHANGED <<memVars, txVars, is_tx_sleeping, continue, in_coverage>>

Move ==
  /\ in_coverage' = ~in_coverage
  /\ UNCHANGED <<memVars, txVars, is_tx_sleeping, continue, tx_success>>

-----------------------------------------------------------------------------
SampleStep   == TakeSample \/ CompletePacket \/ CompleteAndDrop
TxTimer      == TxIdle \/ \E heard \in BOOLEAN : TxAcked(heard) \/ TxTimeout(heard)
TxHeard      == TxAcked(TRUE) \/ TxTimeout(TRUE)
RecvAnyAck   == \E p \in stored : RecvAck(p)

Next == SampleStep \/ TxTimer \/ TxContinue \/ TxSpurious \/ RecvAnyAck \/ Move

Spec == Init /\ [][Next]_vars

\* The timers fire and queued events are dispatched; in a lossy but not dead
\* radio some transmission and some acknowledgement get through.
Fairness ==
  /\ WF_vars(TxTimer)
  /\ WF_vars(TxContinue)
  /\ SF_vars(TxHeard)
  /\ SF_vars(RecvAnyAck)

FairSpec == Spec /\ Fairness

-----------------------------------------------------------------------------
(* Properties *)

\* Type invariant of the sensor node.
TypeOK ==
  /\ allocated \in SUBSET Blocks
  /\ sensor_buff \in Seq(Blocks)
  /\ current_elem \in Blocks \cup {NULL}
  /\ sample_cnt \in 0 .. SAMPLES_PER_PACKET - 1
  /\ pkt \in [Blocks -> Nat]
  /\ made \in Nat
  /\ tx \in {"timer", "yield"}
  /\ tx_budget \in 0 .. LONG_TX_SAMPLES
  /\ timeout_cnt \in 0 .. TIMEOUT_MAX - 1
  /\ is_tx_sleeping \in BOOLEAN
  /\ continue \in BOOLEAN
  /\ tx_success \in BOOLEAN
  /\ last_elem \in Blocks \cup {NULL}
  /\ in_coverage \in BOOLEAN
  /\ stored \in SUBSET Nat
  /\ dropped \in SUBSET Nat

\* Memory safety of the two processes that share the pool (173-194, 247): the
\* blocks in use are exactly the distinct blocks of the list and the one being
\* filled, so none leaks, none is in use twice and memb_alloc never fails.
PoolSound ==
  /\ current_elem \in allocated
  /\ allocated = {current_elem} \cup {sensor_buff[i] : i \in DOMAIN sensor_buff}
  /\ \A i \in DOMAIN sensor_buff : sensor_buff[i] # current_elem
  /\ \A i, j \in DOMAIN sensor_buff : sensor_buff[i] = sensor_buff[j] => i = j

\* The list holds the latest packets, in order, with no gap: what leaves it is
\* always the oldest packet (the comment of lines 156-159).
BufferWindow ==
  \A i \in DOMAIN sensor_buff : pkt[sensor_buff[i]] = made - Len(sensor_buff) + i - 1

\* No packet is lost between the buffer and the relays: each completed packet
\* is still buffered, or stored by a relay, or was overwritten on overflow.  A
\* late acknowledgement, a reused block or a wrapped seqno must not pop another.
Accounted ==
  \A p \in 0 .. made - 1 : p \in Buffered \cup stored \cup dropped

\* A transmitter that sleeps over a non-empty buffer has a wakeup queued
\* (189-192): nothing else would ever start it again.
NoLostWakeup ==
  tx = "yield" /\ sensor_buff # << >> => continue

-----------------------------------------------------------------------------
(* The inductive invariant behind Accounted: why the comparison of pointers  *)
(* on line 245 releases the right packet although blocks are reused and an   *)
(* acknowledgement may be older than the last transmission.                  *)

\* Only the oldest packet is ever transmitted.
StoredOld == \A p \in stored : p < made /\ p <= made - Len(sensor_buff)

\* If the oldest packet is stored by a relay, it was the last one transmitted.
StoredIsLast ==
  sensor_buff # << >> /\ OldestPacket \in stored => last_elem = Head(sensor_buff)

\* The first packet completed while transmit_process sleeps is not sent yet.
AsleepUnsent ==
  tx = "yield" /\ sensor_buff # << >> => OldestPacket \notin stored

\* A recorded acknowledgement is for the oldest packet, or that packet was
\* overwritten and its block cannot be back in the list before et_tx fires.
AckSound ==
  tx_success =>
    /\ tx = "timer"
    /\ sensor_buff # << >>
    /\ \/ last_elem = Head(sensor_buff) /\ OldestPacket \in stored
       \/ /\ \A i \in DOMAIN sensor_buff : sensor_buff[i] # last_elem
          /\ tx_budget + sample_cnt < SAMPLES_PER_PACKET

SleepFlag == tx = "yield" => is_tx_sleeping \/ continue

IInv ==
  /\ TypeOK
  /\ Len(sensor_buff) < BUFF_SIZE
  /\ Len(sensor_buff) <= made
  /\ PoolSound
  /\ BufferWindow
  /\ Accounted
  /\ NoLostWakeup
  /\ SleepFlag
  /\ StoredOld
  /\ StoredIsLast
  /\ AsleepUnsent
  /\ AckSound

-----------------------------------------------------------------------------
\* If the node stays in coverage from some time on, each buffered packet leaves
\* the buffer (240-248): acknowledged, or overwritten.
Released ==
  <>[]in_coverage =>
    \A p \in 0 .. MaxPackets - 1 : (p \in Buffered) ~> (p \notin Buffered)
=============================================================================
