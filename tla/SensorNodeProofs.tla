-------------------------- MODULE SensorNodeProofs --------------------------
(***************************************************************************)
(* Proofs about SensorNode and SensorMemory for every value of the         *)
(* constants that satisfies the assumptions of those modules.              *)
(***************************************************************************)
EXTENDS SensorMemory, ListFacts

USE BuffAssumption, PacketAssumption, SeqAssumption, TimeoutAssumption,
    TimerAssumption

\* Two packets less than SEQ_MOD apart never have the same seqno.
LEMMA SeqnoUnique ==
  ASSUME NEW p \in Nat, NEW q \in Nat, p <= q, q - p < SEQ_MOD,
         p % SEQ_MOD = q % SEQ_MOD
  PROVE  p = q
<1> DEFINE dp == p \div SEQ_MOD
           dq == q \div SEQ_MOD
<1>1. /\ dp \in Int /\ dq \in Int
      /\ p = SEQ_MOD * dp + (p % SEQ_MOD)
      /\ q = SEQ_MOD * dq + (q % SEQ_MOD)
  OBVIOUS
<1>2. /\ p % SEQ_MOD \in Int
      /\ SEQ_MOD * dp \in Int /\ SEQ_MOD * dq \in Int
  BY <1>1
<1>3. SEQ_MOD * (dq - dp) = q - p
  <2>1. SEQ_MOD * (dq - dp) = SEQ_MOD * dq - SEQ_MOD * dp
    BY <1>1
  <2>2. QED BY <1>1, <1>2, <2>1
<1>4. ~(dq - dp >= 1)
  BY <1>1, <1>3, SMTT(20)
<1>5. ~(dq - dp <= -1)
  BY <1>1, <1>3, SMTT(20)
<1>6. dq = dp
  BY <1>1, <1>4, <1>5
<1>7. QED BY <1>1, <1>6

\* The least-index block is found whenever some block is free.
LEMMA MembAllocFree ==
  ASSUME NEW used \in SUBSET Blocks, used # Blocks
  PROVE  /\ MembAlloc(used) \in Blocks \ used
         /\ \A b \in Blocks \ used : MembAlloc(used) <= b
<1>1. Blocks \ used # {} /\ Blocks \ used \in SUBSET Nat
  <2>1. \E b \in Blocks : b \notin used
    OBVIOUS
  <2>2. Blocks \subseteq Nat
    BY DEF Blocks
  <2>3. QED BY <2>1, <2>2
<1>2. \E b \in Blocks \ used : \A c \in Blocks \ used : b <= c
  BY <1>1, LeastNat
<1>3. MembAlloc(used) = CHOOSE b \in Blocks \ used : \A c \in Blocks \ used : b <= c
  BY <1>1 DEF MembAlloc
<1>4. QED BY <1>2, <1>3

\* While the list has room a block is free: the pool holds the list and the
\* packet being filled.
LEMMA PoolNotFull ==
  ASSUME TypeOK, PoolSound, Len(sensor_buff) + 1 < BUFF_SIZE
  PROVE  allocated # Blocks
<1> DEFINE n == Len(sensor_buff)
           f == [i \in 0 .. n |-> IF i = 0 THEN current_elem ELSE sensor_buff[i]]
<1>0. sensor_buff \in Seq(Blocks) /\ n \in Nat /\ DOMAIN sensor_buff = 1 .. n
  BY DEF TypeOK
<1>1. f \in Surjection(0 .. n, allocated)
  <2>1. f \in [0 .. n -> allocated]
    BY <1>0 DEF PoolSound
  <2>2. \A b \in allocated : \E i \in 0 .. n : f[i] = b
    <3>1. SUFFICES ASSUME NEW b \in allocated PROVE \E i \in 0 .. n : f[i] = b
      OBVIOUS
    <3>2. CASE b = current_elem
      <4>1. f[0] = b /\ 0 \in 0 .. n BY <1>0, <3>2
      <4>2. QED BY <4>1
    <3>3. CASE b # current_elem
      <4>1. PICK i \in 1 .. n : sensor_buff[i] = b
        BY <1>0, <3>1, <3>3 DEF PoolSound
      <4>2. f[i] = b /\ i \in 0 .. n BY <1>0, <4>1
      <4>3. QED BY <4>2
    <3>4. QED BY <3>2, <3>3
  <2>3. QED BY <2>1, <2>2 DEF Surjection
<1>2. IsFiniteSet(0 .. n) /\ Cardinality(0 .. n) = n + 1
  BY <1>0, FS_Interval
<1>3. Cardinality(allocated) <= n + 1
  BY <1>1, <1>2, FS_Surjection
<1>4. Cardinality(Blocks) = BUFF_SIZE
  BY FS_Interval DEF Blocks
<1>5. QED BY <1>0, <1>3, <1>4

-----------------------------------------------------------------------------
(* Type correctness *)

LEMMA MembAllocType ==
  ASSUME NEW used \in SUBSET Blocks
  PROVE  MembAlloc(used) \in Blocks \cup {NULL}
<1>1. CASE used = Blocks
  BY <1>1 DEF MembAlloc
<1>2. CASE used # Blocks
  BY <1>2, MembAllocFree
<1>3. QED BY <1>1, <1>2

LEMMA TimerType ==
  ASSUME NEW cnt \in Nat, cnt <= TIMEOUT_MAX, SetTxTimer(cnt)
  PROVE  /\ tx' \in {"timer", "yield"}
         /\ tx_budget' \in 0 .. LONG_TX_SAMPLES
         /\ timeout_cnt' \in 0 .. TIMEOUT_MAX - 1
<1>1. tx' \in {"timer", "yield"} /\ timeout_cnt' \in 0 .. TIMEOUT_MAX - 1
  BY DEF SetTxTimer
<1>2. tx_budget' \in {SHORT_TX_SAMPLES, LONG_TX_SAMPLES}
  BY DEF SetTxTimer
<1>3. QED BY <1>1, <1>2

LEMMA SampleDueType ==
  ASSUME TypeOK, SampleDue
  PROVE  tx_budget' \in 0 .. LONG_TX_SAMPLES /\ current_elem \in Blocks
BY DEF TypeOK, SampleDue

LEMMA WakeupType ==
  ASSUME TypeOK, PostWakeup
  PROVE  is_tx_sleeping' \in BOOLEAN /\ continue' \in BOOLEAN
BY DEF TypeOK, PostWakeup

\* What is at the head of a list that is not empty.
LEMMA HeadBlock ==
  ASSUME TypeOK, sensor_buff # << >>
  PROVE  /\ Head(sensor_buff) = sensor_buff[1]
         /\ Head(sensor_buff) \in Blocks
         /\ OldestPacket \in Nat
         /\ Len(sensor_buff) \in Nat \ {0}
         /\ Tail(sensor_buff) \in Seq(Blocks)
         /\ Len(Tail(sensor_buff)) = Len(sensor_buff) - 1
         /\ \A i \in 1 .. Len(sensor_buff) - 1 : Tail(sensor_buff)[i] = sensor_buff[i + 1]
<1>1. sensor_buff \in Seq(Blocks)
  BY DEF TypeOK
<1>2. /\ Tail(sensor_buff) \in Seq(Blocks)
      /\ Len(Tail(sensor_buff)) = Len(sensor_buff) - 1
      /\ \A i \in 1 .. Len(sensor_buff) - 1 : Tail(sensor_buff)[i] = sensor_buff[i + 1]
  BY <1>1, HeadTailProperties
<1>3. Head(sensor_buff) \in Blocks /\ Head(sensor_buff) = sensor_buff[1]
  BY <1>1
<1>4. OldestPacket \in Nat
  BY <1>3 DEF TypeOK, OldestPacket
<1>5. Len(sensor_buff) \in Nat \ {0}
  BY <1>1
<1>6. QED BY <1>2, <1>3, <1>4, <1>5

LEMMA TransmitType ==
  ASSUME TypeOK, NEW b \in Blocks, NEW heard \in BOOLEAN, Transmit(b, heard)
  PROVE  /\ last_elem' \in Blocks \cup {NULL}
         /\ stored' \in SUBSET Nat
         /\ is_tx_sleeping' \in BOOLEAN
<1>1. pkt[b] \in Nat
  BY DEF TypeOK
<1>2. QED BY <1>1 DEF TypeOK, Transmit

\* The list with the completed packet appended, and what the pop of the
\* oldest packet leaves of it.
LEMMA FullList ==
  ASSUME TypeOK, current_elem \in Blocks
  PROVE  LET full == Append(sensor_buff, current_elem)
             n == Len(sensor_buff)
         IN  /\ full \in Seq(Blocks)
             /\ Len(full) = n + 1
             /\ \A i \in 1 .. n : full[i] = sensor_buff[i]
             /\ full[n + 1] = current_elem
             /\ Head(full) = full[1]
             /\ Head(full) \in Blocks
             /\ Tail(full) \in Seq(Blocks)
             /\ Len(Tail(full)) = n
             /\ \A i \in 1 .. n : Tail(full)[i] = full[i + 1]
<1> DEFINE full == Append(sensor_buff, current_elem)
           n == Len(sensor_buff)
<1>1. sensor_buff \in Seq(Blocks) /\ n \in Nat
  BY DEF TypeOK
<1>2. /\ full \in Seq(Blocks)
      /\ full # << >>
      /\ Len(full) = n + 1
      /\ \A i \in 1 .. n : full[i] = sensor_buff[i]
      /\ full[n + 1] = current_elem
  BY <1>1, AppendProperties
<1> HIDE DEF full
<1>3. /\ Tail(full) \in Seq(Blocks)
      /\ Len(Tail(full)) = n
      /\ \A i \in 1 .. n : Tail(full)[i] = full[i + 1]
  BY <1>1, <1>2, HeadTailProperties
<1>4. Head(full) \in Blocks /\ Head(full) = full[1]
  BY <1>2
<1>5. QED BY <1>2, <1>3, <1>4 DEF full

LEMMA InitType == Init => TypeOK
<1>1. 0 \in Blocks
  BY DEF Blocks
<1>2. ASSUME Init PROVE sensor_buff \in Seq(Blocks)
  BY <1>2, EmptySeq DEF Init
<1>3. QED BY <1>1, <1>2 DEF Init, TypeOK

\* Each step keeps the types: the only arithmetic is that of the two counters,
\* and every block comes from the pool.
LEMMA StepType == TypeOK /\ [Next]_vars => TypeOK'
<1> SUFFICES ASSUME TypeOK, [Next]_vars PROVE TypeOK'
  OBVIOUS
<1>1. CASE TakeSample
  <2>1. sample_cnt' \in 0 .. SAMPLES_PER_PACKET - 1
    BY <1>1 DEF TypeOK, TakeSample
  <2>2. QED BY <1>1, <2>1, SampleDueType DEF TypeOK, TakeSample
<1>2. CASE CompletePacket
  <2>1. current_elem \in Blocks /\ tx_budget' \in 0 .. LONG_TX_SAMPLES
    BY <1>2, SampleDueType DEF CompletePacket
  <2>2. sensor_buff' \in Seq(Blocks)
    BY <1>2, <2>1, FullList DEF CompletePacket
  <2>3. current_elem' \in Blocks \cup {NULL}
    BY <1>2, MembAllocType DEF TypeOK, CompletePacket
  <2>4. allocated' \in SUBSET Blocks
    BY <1>2, <2>3 DEF TypeOK, CompletePacket
  <2>5. pkt' \in [Blocks -> Nat] /\ made' \in Nat
    <3>1. pkt \in [Blocks -> Nat] /\ made \in Nat
      BY DEF TypeOK
    <3>2. pkt' = [pkt EXCEPT ![current_elem] = made] /\ made' = made + 1
      BY <1>2 DEF CompletePacket
    <3>3. made' \in Nat
      BY <3>1, <3>2
    <3>4. pkt' \in [Blocks -> Nat]
      BY <3>1, <3>2, Zenon
    <3>5. QED BY <3>3, <3>4
  <2>c. sample_cnt' \in 0 .. SAMPLES_PER_PACKET - 1
    BY <1>2 DEF CompletePacket
  <2>6. is_tx_sleeping' \in BOOLEAN /\ continue' \in BOOLEAN
    BY <1>2, WakeupType DEF CompletePacket
  <2>7. QED BY <1>2, <2>1, <2>2, <2>3, <2>4, <2>5, <2>c, <2>6 DEF TypeOK, CompletePacket
<1>3. CASE CompleteAndDrop
  <2> DEFINE full == Append(sensor_buff, current_elem)
             used == allocated \ {Head(full)}
  <2>1. current_elem \in Blocks /\ tx_budget' \in 0 .. LONG_TX_SAMPLES
    BY <1>3, SampleDueType DEF CompleteAndDrop
  <2>2. sensor_buff' \in Seq(Blocks) /\ Head(full) \in Blocks
    BY <1>3, <2>1, FullList DEF CompleteAndDrop
  <2>3. current_elem' \in Blocks \cup {NULL}
    BY <1>3, MembAllocType DEF TypeOK, CompleteAndDrop
  <2>4. allocated' \in SUBSET Blocks
    BY <1>3, <2>3 DEF TypeOK, CompleteAndDrop
  <2>5. pkt' \in [Blocks -> Nat] /\ made' \in Nat
    <3>1. pkt \in [Blocks -> Nat] /\ made \in Nat
      BY DEF TypeOK
    <3>2. pkt' = [pkt EXCEPT ![current_elem] = made] /\ made' = made + 1
      BY <1>3 DEF CompleteAndDrop
    <3>3. made' \in Nat
      BY <3>1, <3>2
    <3>4. pkt' \in [Blocks -> Nat]
      BY <3>1, <3>2, Zenon
    <3>5. QED BY <3>3, <3>4
  <2>c. sample_cnt' \in 0 .. SAMPLES_PER_PACKET - 1
    BY <1>3 DEF CompleteAndDrop
  <2>6. dropped' \in SUBSET Nat
    BY <1>3, <2>2, <2>5 DEF TypeOK, CompleteAndDrop
  <2>7. is_tx_sleeping' \in BOOLEAN /\ continue' \in BOOLEAN
    BY <1>3, WakeupType DEF CompleteAndDrop
  <2>8. QED BY <1>3, <2>1, <2>2, <2>3, <2>4, <2>5, <2>c, <2>6, <2>7 DEF TypeOK, CompleteAndDrop
<1>4. CASE TxIdle
  BY <1>4 DEF TypeOK, TxIdle, Sleep, memVars
<1>5. ASSUME NEW heard \in BOOLEAN, TxAcked(heard) PROVE TypeOK'
  <2> DEFINE rest == IF Head(sensor_buff) = last_elem THEN Tail(sensor_buff) ELSE sensor_buff
  <2>1. rest \in Seq(Blocks)
    BY <1>5, HeadBlock DEF TypeOK, TxAcked
  <2>2. /\ sensor_buff' = rest
        /\ allocated' \in SUBSET Blocks
        /\ tx_success' = FALSE
        /\ UNCHANGED <<current_elem, sample_cnt, pkt, made, dropped, continue, in_coverage>>
    BY <1>5 DEF TypeOK, TxAcked
  <2>3. CASE rest = << >>
    <3>1. Sleep /\ timeout_cnt' = 0 /\ UNCHANGED <<last_elem, stored>>
      BY <1>5, <2>3 DEF TxAcked
    <3>2. timeout_cnt' \in 0 .. TIMEOUT_MAX - 1
      BY <3>1
    <3>3. /\ tx' = "yield" /\ is_tx_sleeping' = TRUE /\ tx_budget' = tx_budget
          /\ last_elem' = last_elem /\ stored' = stored
      BY <3>1 DEF Sleep
    <3>4. QED BY <2>1, <2>2, <3>2, <3>3 DEF TypeOK
  <2>4. CASE rest # << >>
    <3>1. Transmit(Head(rest), heard) /\ SetTxTimer(0)
      BY <1>5, <2>4 DEF TxAcked
    <3>2. Head(rest) \in Blocks
      BY <2>1, <2>4, HeadTailProperties
    <3>3. /\ last_elem' \in Blocks \cup {NULL}
          /\ stored' \in SUBSET Nat
          /\ is_tx_sleeping' \in BOOLEAN
      BY <1>5, <3>1, <3>2, TransmitType
    <3>4. /\ tx' \in {"timer", "yield"}
          /\ tx_budget' \in 0 .. LONG_TX_SAMPLES
          /\ timeout_cnt' \in 0 .. TIMEOUT_MAX - 1
      BY <3>1, TimerType
    <3>5. QED BY <2>1, <2>2, <3>3, <3>4 DEF TypeOK
  <2>5. QED BY <2>3, <2>4
<1>6. ASSUME NEW heard \in BOOLEAN, TxTimeout(heard) PROVE TypeOK'
  <2>1. /\ last_elem' \in Blocks \cup {NULL}
        /\ stored' \in SUBSET Nat
        /\ is_tx_sleeping' \in BOOLEAN
    BY <1>6, HeadBlock, TransmitType DEF TxTimeout
  <2>2. timeout_cnt + 1 \in Nat /\ timeout_cnt + 1 <= TIMEOUT_MAX
    BY DEF TypeOK
  <2>3. /\ tx' \in {"timer", "yield"}
        /\ tx_budget' \in 0 .. LONG_TX_SAMPLES
        /\ timeout_cnt' \in 0 .. TIMEOUT_MAX - 1
    BY <1>6, <2>2, TimerType DEF TxTimeout
  <2>4. QED BY <1>6, <2>1, <2>3 DEF TypeOK, TxTimeout, memVars
<1>7. ASSUME TxContinue \/ TxSpurious PROVE TypeOK'
  <2>1. timeout_cnt \in Nat /\ timeout_cnt <= TIMEOUT_MAX
    BY DEF TypeOK
  <2>2. /\ tx' \in {"timer", "yield"}
        /\ tx_budget' \in 0 .. LONG_TX_SAMPLES
        /\ timeout_cnt' \in 0 .. TIMEOUT_MAX - 1
    <3>1. CASE SetTxTimer(timeout_cnt)
      BY <2>1, <3>1, TimerType
    <3>2. CASE UNCHANGED <<tx, tx_budget, timeout_cnt>>
      BY <3>2 DEF TypeOK
    <3>3. QED BY <1>7, <3>1, <3>2 DEF TxContinue, TxSpurious
  <2>3. UNCHANGED <<memVars, last_elem, stored, is_tx_sleeping, tx_success, in_coverage>>
    BY <1>7 DEF TxContinue, TxSpurious
  <2>4. continue' \in BOOLEAN
    BY <1>7 DEF TypeOK, TxContinue, TxSpurious
  <2>5. QED BY <2>2, <2>3, <2>4 DEF TypeOK, memVars
<1>8. ASSUME NEW p \in stored, RecvAck(p) PROVE TypeOK'
  BY <1>8 DEF TypeOK, RecvAck, memVars, txVars
<1>9. CASE Move
  BY <1>9 DEF TypeOK, Move, memVars, txVars
<1>10. CASE UNCHANGED vars
  BY <1>10 DEF TypeOK, vars, memVars, txVars
<1>11. QED
  BY <1>1, <1>2, <1>3, <1>4, <1>5, <1>6, <1>7, <1>8, <1>9, <1>10
     DEF Next, SampleStep, TxTimer, RecvAnyAck

\* The node's variables keep their types, for every size of the buffer, of the
\* packets and of the seqno.
THEOREM TypeCorrect == Spec => []TypeOK
BY InitType, StepType, PTL DEF Spec


-----------------------------------------------------------------------------
(* The inductive invariant: the list and the pool *)

ListInv ==
  /\ Len(sensor_buff) < BUFF_SIZE
  /\ Len(sensor_buff) <= made
  /\ PoolSound
  /\ BufferWindow

LEMMA BuffDomain ==
  ASSUME TypeOK
  PROVE  /\ Len(sensor_buff) \in Nat
         /\ DOMAIN sensor_buff = 1 .. Len(sensor_buff)
         /\ \A i \in 1 .. Len(sensor_buff) : sensor_buff[i] \in Blocks
         /\ sensor_buff = << >> <=> Len(sensor_buff) = 0
<1>1. sensor_buff \in Seq(Blocks)
  BY DEF TypeOK
<1>2. QED BY <1>1

\* The oldest packet is the first of the window.
LEMMA OldestNumber ==
  ASSUME TypeOK, BufferWindow, sensor_buff # << >>
  PROVE  OldestPacket = made - Len(sensor_buff)
<1>1. 1 \in DOMAIN sensor_buff
  BY BuffDomain
<1>2. pkt[sensor_buff[1]] = made - Len(sensor_buff)
  BY <1>1, BuffDomain DEF BufferWindow, TypeOK
<1>3. QED BY <1>2, HeadBlock DEF OldestPacket

\* A step that leaves the list, the pool and the packets alone.
LEMMA ListKept ==
  ASSUME ListInv, UNCHANGED <<allocated, sensor_buff, current_elem, pkt, made>>
  PROVE  ListInv' /\ Buffered' = Buffered /\ OldestPacket' = OldestPacket
BY DEF ListInv, PoolSound, BufferWindow, Buffered, OldestPacket

\* Releasing the oldest packet.
LEMMA ListPopped ==
  ASSUME TypeOK, TypeOK', ListInv, sensor_buff # << >>,
         sensor_buff' = Tail(sensor_buff),
         allocated' = allocated \ {Head(sensor_buff)},
         UNCHANGED <<current_elem, pkt, made>>
  PROVE  /\ ListInv'
         /\ Buffered \subseteq Buffered' \cup {OldestPacket}
         /\ Len(sensor_buff)' = Len(sensor_buff) - 1
<1> DEFINE n == Len(sensor_buff)
<1>1. /\ n \in Nat \ {0}
      /\ DOMAIN sensor_buff = 1 .. n
      /\ DOMAIN sensor_buff' = 1 .. n - 1
      /\ Len(sensor_buff') = n - 1
      /\ \A i \in 1 .. n - 1 : sensor_buff'[i] = sensor_buff[i + 1]
      /\ Head(sensor_buff) = sensor_buff[1]
      /\ made \in Nat
  <2>1. sensor_buff' \in Seq(Blocks) /\ made \in Nat
    BY DEF TypeOK
  <2>2. QED BY <2>1, HeadBlock, BuffDomain
<1>2. (Len(sensor_buff) < BUFF_SIZE)' /\ (Len(sensor_buff) <= made)'
  BY <1>1 DEF ListInv
<1>3. PoolSound'
  <2>1. /\ current_elem \in allocated /\ current_elem # sensor_buff[1]
        /\ allocated = {current_elem} \cup {sensor_buff[i] : i \in 1 .. n}
        /\ \A i \in 1 .. n : sensor_buff[i] # current_elem
        /\ \A i, j \in 1 .. n : sensor_buff[i] = sensor_buff[j] => i = j
    BY <1>1 DEF ListInv, PoolSound
  <2>2. allocated' = {current_elem} \cup {sensor_buff'[i] : i \in 1 .. n - 1}
    <3>1. ASSUME NEW b \in allocated' PROVE b \in {current_elem} \cup {sensor_buff'[i] : i \in 1 .. n - 1}
      <4>1. CASE b = current_elem
        BY <4>1
      <4>2. CASE b # current_elem
        <5>1. PICK i \in 1 .. n : b = sensor_buff[i]
          BY <2>1, <3>1, <4>2
        <5>2. i - 1 \in 1 .. n - 1 /\ sensor_buff'[i - 1] = b
          BY <1>1, <3>1, <5>1
        <5>3. QED BY <5>2
      <4>3. QED BY <4>1, <4>2
    <3>2. ASSUME NEW i \in 1 .. n - 1 PROVE sensor_buff'[i] \in allocated'
      <4>1. sensor_buff'[i] = sensor_buff[i + 1] /\ i + 1 \in 1 .. n /\ i + 1 # 1 /\ 1 \in 1 .. n
        BY <1>1
      <4>2. sensor_buff[i + 1] # sensor_buff[1]
        BY <2>1, <4>1
      <4>3. QED BY <1>1, <2>1, <4>1, <4>2
    <3>3. current_elem \in allocated'
      BY <1>1, <2>1
    <3>4. QED BY <3>1, <3>2, <3>3
  <2>3. /\ \A i \in 1 .. n - 1 : sensor_buff'[i] # current_elem
        /\ \A i, j \in 1 .. n - 1 : sensor_buff'[i] = sensor_buff'[j] => i = j
    BY <1>1, <2>1
  <2>4. QED BY <1>1, <2>2, <2>3 DEF PoolSound
<1>4. BufferWindow'
  BY <1>1 DEF ListInv, BufferWindow
<1>5. Buffered \subseteq Buffered' \cup {OldestPacket}
  <2>1. SUFFICES ASSUME NEW i \in 1 .. n PROVE pkt[sensor_buff[i]] \in Buffered' \cup {OldestPacket}
    BY <1>1 DEF Buffered
  <2>2. CASE i = 1
    BY <1>1, <2>2 DEF OldestPacket
  <2>3. CASE i # 1
    <3>1. i - 1 \in 1 .. n - 1 /\ sensor_buff'[i - 1] = sensor_buff[i]
      BY <1>1, <2>3
    <3>2. QED BY <1>1, <3>1 DEF Buffered
  <2>4. QED BY <2>2, <2>3
<1>6. QED BY <1>1, <1>2, <1>3, <1>4, <1>5 DEF ListInv


\* Completing a packet while the list has room: memb_alloc finds a free block.
LEMMA ListAppended ==
  ASSUME TypeOK, TypeOK', ListInv, CompletePacket
  PROVE  /\ ListInv'
         /\ Buffered' = Buffered \cup {made}
         /\ Len(sensor_buff)' = Len(sensor_buff) + 1
         /\ sensor_buff # << >> => Head(sensor_buff)' = Head(sensor_buff)
<1> DEFINE n == Len(sensor_buff)
<1>1. /\ n \in Nat
      /\ DOMAIN sensor_buff = 1 .. n
      /\ DOMAIN sensor_buff' = 1 .. n + 1
      /\ Len(sensor_buff') = n + 1
      /\ \A i \in 1 .. n : sensor_buff'[i] = sensor_buff[i]
      /\ sensor_buff'[n + 1] = current_elem
      /\ Head(sensor_buff') = sensor_buff'[1]
      /\ \A i \in 1 .. n : sensor_buff[i] \in Blocks
      /\ current_elem \in Blocks
      /\ made \in Nat /\ made' = made + 1
  <2>1. sensor_buff' = Append(sensor_buff, current_elem) /\ current_elem \in Blocks
    BY SampleDueType DEF CompletePacket
  <2>2. sensor_buff' \in Seq(Blocks) /\ made \in Nat /\ made' = made + 1
    BY DEF TypeOK, CompletePacket
  <2>3. QED BY <2>1, <2>2, BuffDomain, FullList
<1>2. n + 1 < BUFF_SIZE
  BY <1>1 DEF CompletePacket, ListInv
<1>3. /\ current_elem' \in Blocks \ allocated
      /\ allocated' = allocated \cup {current_elem'}
  <2>1. allocated # Blocks
    BY <1>1, <1>2, PoolNotFull DEF ListInv
  <2>2. allocated \in SUBSET Blocks
    BY DEF TypeOK
  <2>3. current_elem' \in Blocks \ allocated
    BY <2>1, <2>2, MembAllocFree DEF CompletePacket
  <2>4. current_elem' # NULL
    BY <2>3 DEF Blocks, NULL
  <2>5. QED BY <2>3, <2>4 DEF CompletePacket
<1>4. /\ \A i \in 1 .. n : pkt'[sensor_buff[i]] = pkt[sensor_buff[i]]
      /\ pkt'[current_elem] = made
  <2>1. pkt \in [Blocks -> Nat] /\ pkt' = [pkt EXCEPT ![current_elem] = made]
    BY DEF TypeOK, CompletePacket
  <2>2. \A i \in 1 .. n : sensor_buff[i] # current_elem
    BY <1>1 DEF ListInv, PoolSound
  <2>3. QED BY <1>1, <2>1, <2>2
<1>5. PoolSound'
  <2>1. /\ allocated = {current_elem} \cup {sensor_buff[i] : i \in 1 .. n}
        /\ \A i \in 1 .. n : sensor_buff[i] # current_elem
        /\ \A i, j \in 1 .. n : sensor_buff[i] = sensor_buff[j] => i = j
    BY <1>1 DEF ListInv, PoolSound
  <2>2. allocated = {sensor_buff'[i] : i \in 1 .. n + 1}
    <3>1. ASSUME NEW b \in allocated PROVE \E i \in 1 .. n + 1 : b = sensor_buff'[i]
      <4>1. CASE b = current_elem
        BY <1>1, <4>1
      <4>2. CASE b # current_elem
        <5>1. PICK i \in 1 .. n : b = sensor_buff[i]
          BY <2>1, <3>1, <4>2
        <5>2. i \in 1 .. n + 1 /\ b = sensor_buff'[i]
          BY <1>1, <5>1
        <5>3. QED BY <5>2
      <4>3. QED BY <4>1, <4>2
    <3>2. ASSUME NEW i \in 1 .. n + 1 PROVE sensor_buff'[i] \in allocated
      <4>1. i \in 1 .. n \/ i = n + 1
        BY <1>1
      <4>2. QED BY <1>1, <2>1, <4>1
    <3>3. QED BY <3>1, <3>2
  <2>3. \A i \in 1 .. n + 1 : sensor_buff'[i] # current_elem'
    BY <1>3, <2>2
  <2>4. ASSUME NEW i \in 1 .. n + 1, NEW j \in 1 .. n + 1, sensor_buff'[i] = sensor_buff'[j]
        PROVE  i = j
    <3>1. (i \in 1 .. n \/ i = n + 1) /\ (j \in 1 .. n \/ j = n + 1)
      BY <1>1
    <3>2. QED BY <1>1, <2>1, <2>4, <3>1
  <2>5. QED BY <1>1, <1>3, <2>2, <2>3, <2>4 DEF PoolSound
<1>6. BufferWindow'
  <2>1. ASSUME NEW i \in 1 .. n + 1 PROVE pkt'[sensor_buff'[i]] = made' - (n + 1) + i - 1
    <3>1. CASE i = n + 1
      BY <1>1, <1>4, <3>1
    <3>2. CASE i # n + 1
      <4>1. i \in 1 .. n
        BY <1>1, <3>2
      <4>2. pkt[sensor_buff[i]] = made - n + i - 1
        BY <1>1, <4>1 DEF ListInv, BufferWindow
      <4>3. QED BY <1>1, <1>4, <4>1, <4>2
    <3>3. QED BY <3>1, <3>2
  <2>2. QED BY <1>1, <2>1 DEF BufferWindow
<1>7. Buffered' = Buffered \cup {made}
  <2>1. ASSUME NEW i \in 1 .. n + 1 PROVE pkt'[sensor_buff'[i]] \in Buffered \cup {made}
    <3>1. i \in 1 .. n \/ i = n + 1
      BY <1>1
    <3>2. QED BY <1>1, <1>4, <3>1 DEF Buffered
  <2>2. ASSUME NEW i \in 1 .. n PROVE pkt[sensor_buff[i]] \in Buffered'
    <3>1. i \in 1 .. n + 1
      BY <1>1
    <3>2. QED BY <1>1, <1>4, <3>1 DEF Buffered
  <2>3. made \in Buffered'
    <3>1. n + 1 \in 1 .. n + 1
      BY <1>1
    <3>2. pkt'[sensor_buff'[n + 1]] = made /\ n + 1 \in DOMAIN sensor_buff'
      BY <1>1, <1>4, <3>1
    <3>3. QED BY <3>2 DEF Buffered
  <2>4. /\ Buffered = {pkt[sensor_buff[i]] : i \in 1 .. n}
        /\ Buffered' = {pkt'[sensor_buff'[i]] : i \in 1 .. n + 1}
    BY <1>1 DEF Buffered
  <2>5. Buffered' \subseteq Buffered \cup {made}
    BY <2>1, <2>4
  <2>6. Buffered \cup {made} \subseteq Buffered'
    BY <2>2, <2>3, <2>4
  <2>7. QED BY <2>5, <2>6
<1>8. (Len(sensor_buff) < BUFF_SIZE)' /\ (Len(sensor_buff) <= made)'
  BY <1>1, <1>2 DEF ListInv
<1>9. sensor_buff # << >> => Head(sensor_buff)' = Head(sensor_buff)
  <2>1. ASSUME sensor_buff # << >> PROVE sensor_buff'[1] = sensor_buff[1]
    BY <1>1, <2>1, BuffDomain
  <2>2. QED BY <1>1, <2>1, HeadBlock
<1>10. QED BY <1>1, <1>5, <1>6, <1>7, <1>8, <1>9 DEF ListInv

\* Completing a packet that fills the list: the oldest one makes room, and the
\* block being filled next is a free one.
LEMMA ListShifted ==
  ASSUME TypeOK, TypeOK', ListInv, CompleteAndDrop
  PROVE  /\ ListInv'
         /\ sensor_buff # << >>
         /\ Buffered \subseteq Buffered' \cup {OldestPacket}
         /\ made \in Buffered'
         /\ dropped' = dropped \cup {OldestPacket}
         /\ Len(sensor_buff)' = Len(sensor_buff)
         /\ \A i \in DOMAIN sensor_buff' : sensor_buff'[i] # Head(sensor_buff)
<1> DEFINE n == Len(sensor_buff)
           full == Append(sensor_buff, current_elem)
<1>1. /\ n \in Nat \ {0} /\ n + 1 = BUFF_SIZE
      /\ sensor_buff # << >>
      /\ DOMAIN sensor_buff = 1 .. n
      /\ DOMAIN sensor_buff' = 1 .. n
      /\ Len(sensor_buff') = n
      /\ \A i \in 1 .. n - 1 : sensor_buff'[i] = sensor_buff[i + 1]
      /\ sensor_buff'[n] = current_elem
      /\ Head(full) = sensor_buff[1]
      /\ Head(sensor_buff) = sensor_buff[1]
      /\ \A i \in 1 .. n : sensor_buff[i] \in Blocks
      /\ current_elem \in Blocks
      /\ made \in Nat /\ made' = made + 1
  <2>1. sensor_buff' = Tail(full) /\ current_elem \in Blocks
    BY SampleDueType DEF CompleteAndDrop
  <2>2. sensor_buff' \in Seq(Blocks) /\ made \in Nat /\ made' = made + 1
    BY DEF TypeOK, CompleteAndDrop
  <2>3. n \in Nat \ {0} /\ n + 1 = BUFF_SIZE /\ sensor_buff # << >>
    BY BuffDomain DEF CompleteAndDrop
  <2>4. /\ Head(full) = full[1]
        /\ \A i \in 1 .. n : full[i] = sensor_buff[i]
        /\ full[n + 1] = current_elem
        /\ Len(sensor_buff') = n
        /\ \A i \in 1 .. n : sensor_buff'[i] = full[i + 1]
    BY <2>1, FullList
  <2>5. /\ DOMAIN sensor_buff = 1 .. n
        /\ \A i \in 1 .. n : sensor_buff[i] \in Blocks
        /\ DOMAIN sensor_buff' = 1 .. n
        /\ Head(sensor_buff) = sensor_buff[1]
    BY <2>2, <2>3, <2>4, BuffDomain, HeadBlock
  <2> HIDE DEF full
  <2>6. /\ \A i \in 1 .. n - 1 : sensor_buff'[i] = sensor_buff[i + 1]
        /\ sensor_buff'[n] = current_elem
        /\ Head(full) = sensor_buff[1]
    BY <2>3, <2>4
  <2>7. QED BY <2>1, <2>2, <2>3, <2>4, <2>5, <2>6
<1>2. /\ allocated = {current_elem} \cup {sensor_buff[i] : i \in 1 .. n}
      /\ \A i \in 1 .. n : sensor_buff[i] # current_elem
      /\ \A i, j \in 1 .. n : sensor_buff[i] = sensor_buff[j] => i = j
  BY <1>1 DEF ListInv, PoolSound
<1>3. /\ current_elem' \in Blocks \ (allocated \ {sensor_buff[1]})
      /\ allocated' = (allocated \ {sensor_buff[1]}) \cup {current_elem'}
  <2> DEFINE used == allocated \ {sensor_buff[1]}
  <2>1. used \in SUBSET Blocks
    BY DEF TypeOK
  <2>2. used # Blocks
    BY <1>1
  <2>3. current_elem' = MembAlloc(used) /\ allocated' = used \cup ({current_elem'} \ {NULL})
    BY <1>1 DEF CompleteAndDrop
  <2>4. current_elem' \in Blocks \ used
    BY <2>1, <2>2, <2>3, MembAllocFree
  <2>5. current_elem' # NULL
    BY <2>4 DEF Blocks, NULL
  <2>6. QED BY <2>3, <2>4, <2>5
<1>4. /\ \A i \in 1 .. n : pkt'[sensor_buff[i]] = pkt[sensor_buff[i]]
      /\ pkt'[current_elem] = made
  <2>1. pkt \in [Blocks -> Nat] /\ pkt' = [pkt EXCEPT ![current_elem] = made]
    BY DEF TypeOK, CompleteAndDrop
  <2>2. QED BY <1>1, <1>2, <2>1
<1>5. ASSUME NEW i \in 1 .. n
      PROVE  \/ i + 1 \in 1 .. n /\ sensor_buff'[i] = sensor_buff[i + 1]
             \/ i = n /\ sensor_buff'[i] = current_elem
  <2>1. CASE i = n
    BY <1>1, <2>1
  <2>2. CASE i # n
    <3>1. n \in Nat
      BY <1>1
    <3>2. i \in 1 .. n - 1 /\ i + 1 \in 1 .. n
      BY <2>2, <3>1
    <3>3. QED BY <1>1, <3>2
  <2>3. QED BY <2>1, <2>2
<1>6. PoolSound'
  <2>1. allocated \ {sensor_buff[1]} = {sensor_buff'[i] : i \in 1 .. n}
    <3>1. ASSUME NEW b \in allocated \ {sensor_buff[1]} PROVE \E i \in 1 .. n : b = sensor_buff'[i]
      <4>1. CASE b = current_elem
        BY <1>1, <4>1
      <4>2. CASE b # current_elem
        <5>1. PICK i \in 1 .. n : b = sensor_buff[i]
          BY <1>2, <3>1, <4>2
        <5>2. i - 1 \in 1 .. n - 1 /\ i - 1 \in 1 .. n /\ b = sensor_buff'[i - 1]
          BY <1>1, <3>1, <5>1
        <5>3. QED BY <5>2
      <4>3. QED BY <4>1, <4>2
    <3>2. ASSUME NEW i \in 1 .. n PROVE sensor_buff'[i] \in allocated \ {sensor_buff[1]}
      <4>1. 1 \in 1 .. n
        BY <1>1
      <4>2. CASE i + 1 \in 1 .. n /\ sensor_buff'[i] = sensor_buff[i + 1]
        <5>1. sensor_buff[i + 1] # sensor_buff[1]
          BY <1>1, <1>2, <4>1, <4>2
        <5>2. QED BY <1>2, <4>2, <5>1
      <4>3. CASE sensor_buff'[i] = current_elem
        BY <1>2, <4>1, <4>3
      <4>4. QED BY <1>5, <4>2, <4>3
    <3>3. QED BY <3>1, <3>2
  <2>2. \A i \in 1 .. n : sensor_buff'[i] # current_elem'
    BY <1>3, <2>1
  <2>3. ASSUME NEW i \in 1 .. n, NEW j \in 1 .. n, sensor_buff'[i] = sensor_buff'[j]
        PROVE  i = j
    <3>1. \/ i + 1 \in 1 .. n /\ sensor_buff'[i] = sensor_buff[i + 1]
          \/ i = n /\ sensor_buff'[i] = current_elem
      BY <1>5
    <3>2. \/ j + 1 \in 1 .. n /\ sensor_buff'[j] = sensor_buff[j + 1]
          \/ j = n /\ sensor_buff'[j] = current_elem
      BY <1>5
    <3>3. i + 1 \in 1 .. n /\ j + 1 \in 1 .. n => i + 1 = j + 1
      BY <1>2, <2>3, <3>1, <3>2
    <3>4. (i = n /\ j = n) \/ i + 1 = j + 1
      BY <1>2, <2>3, <3>1, <3>2, <3>3
    <3>5. QED BY <3>4
  <2>4. QED BY <1>1, <1>3, <2>1, <2>2, <2>3 DEF PoolSound
<1>7. BufferWindow'
  <2>1. ASSUME NEW i \in 1 .. n PROVE pkt'[sensor_buff'[i]] = made' - n + i - 1
    <3>1. CASE i = n /\ sensor_buff'[i] = current_elem
      BY <1>1, <1>4, <3>1
    <3>2. CASE i + 1 \in 1 .. n /\ sensor_buff'[i] = sensor_buff[i + 1]
      <4>1. pkt[sensor_buff[i + 1]] = made - n + (i + 1) - 1
        BY <1>1, <3>2 DEF ListInv, BufferWindow
      <4>2. QED BY <1>1, <1>4, <3>2, <4>1
    <3>3. QED BY <1>5, <3>1, <3>2
  <2>2. QED BY <1>1, <2>1 DEF BufferWindow
<1>8. Buffered \subseteq Buffered' \cup {OldestPacket}
  <2>1. SUFFICES ASSUME NEW i \in 1 .. n PROVE pkt[sensor_buff[i]] \in Buffered' \cup {OldestPacket}
    BY <1>1 DEF Buffered
  <2>2. CASE i = 1
    BY <1>1, <2>2 DEF OldestPacket
  <2>3. CASE i # 1
    <3>1. i - 1 \in 1 .. n /\ sensor_buff'[i - 1] = sensor_buff[i]
      BY <1>1, <2>3
    <3>2. pkt[sensor_buff[i]] = pkt'[sensor_buff'[i - 1]]
      BY <1>4, <3>1
    <3>3. i - 1 \in DOMAIN sensor_buff'
      BY <1>1, <3>1
    <3>4. QED BY <3>2, <3>3 DEF Buffered
  <2>4. QED BY <2>2, <2>3
<1>9. made \in Buffered'
  <2>1. n \in 1 .. n
    BY <1>1
  <2>2. QED BY <1>1, <1>4, <2>1 DEF Buffered
<1>10. dropped' = dropped \cup {OldestPacket}
  <2>1. pkt'[sensor_buff[1]] = pkt[sensor_buff[1]]
    BY <1>1, <1>4
  <2>2. QED BY <1>1, <2>1 DEF CompleteAndDrop, OldestPacket
<1>11. \A i \in 1 .. n : sensor_buff'[i] # sensor_buff[1]
  <2>1. 1 \in 1 .. n
    BY <1>1
  <2>2. ASSUME NEW i \in 1 .. n PROVE sensor_buff'[i] # sensor_buff[1]
    <3>1. CASE i + 1 \in 1 .. n /\ sensor_buff'[i] = sensor_buff[i + 1]
      BY <1>1, <1>2, <2>1, <3>1
    <3>2. CASE sensor_buff'[i] = current_elem
      BY <1>2, <2>1, <3>2
    <3>3. QED BY <1>5, <3>1, <3>2
  <2>3. QED BY <2>2
<1>12. (Len(sensor_buff) < BUFF_SIZE)' /\ (Len(sensor_buff) <= made)'
  BY <1>1 DEF ListInv
<1>13. QED BY <1>1, <1>6, <1>7, <1>8, <1>9, <1>10, <1>11, <1>12 DEF ListInv


-----------------------------------------------------------------------------
(* The inductive invariant: packets, acknowledgements and the wakeup *)

LEMMA InvParts ==
  IInv <=> /\ TypeOK /\ ListInv /\ Accounted /\ NoLostWakeup /\ SleepFlag
           /\ StoredOld /\ StoredIsLast /\ AsleepUnsent /\ AckSound
BY DEF IInv, ListInv

LEMMA InitInv == Init => IInv
<1> SUFFICES ASSUME Init PROVE IInv
  OBVIOUS
<1>1. TypeOK
  BY InitType
<1>2. sensor_buff = << >> /\ Len(sensor_buff) = 0 /\ DOMAIN sensor_buff = {}
  BY <1>1, BuffDomain DEF Init
<1>3. ListInv
  BY <1>2 DEF Init, ListInv, PoolSound, BufferWindow
<1>4. Accounted /\ NoLostWakeup /\ SleepFlag
  BY <1>2 DEF Init, Accounted, NoLostWakeup, SleepFlag
<1>5. StoredOld /\ StoredIsLast /\ AsleepUnsent /\ AckSound
  BY <1>2 DEF Init, StoredOld, StoredIsLast, AsleepUnsent, AckSound
<1>6. QED BY <1>1, <1>3, <1>4, <1>5, InvParts

\* Sampling without completing a packet moves one unit from tx_budget to
\* sample_cnt, or finds transmit_process asleep.
LEMMA TakeSampleInv ==
  ASSUME IInv, TypeOK', TakeSample
  PROVE  IInv'
<1> USE InvParts
<1>1. ListInv' /\ Buffered' = Buffered /\ OldestPacket' = OldestPacket
  BY ListKept DEF TakeSample
<1>2. Accounted' /\ NoLostWakeup' /\ SleepFlag'
  BY <1>1 DEF TakeSample, Accounted, NoLostWakeup, SleepFlag
<1>3. StoredOld' /\ StoredIsLast' /\ AsleepUnsent'
  BY <1>1 DEF TakeSample, StoredOld, StoredIsLast, AsleepUnsent
<1>4. AckSound'
  <2>1. tx = "timer" => tx_budget' + sample_cnt' = tx_budget + sample_cnt
    BY DEF TakeSample, SampleDue, TypeOK
  <2>2. QED BY <1>1, <2>1 DEF TakeSample, AckSound
<1>5. QED BY <1>1, <1>2, <1>3, <1>4 DEF IInv, ListInv

\* Packets completed while the list has room are new: no relay stores them yet.
LEMMA CompletePacketInv ==
  ASSUME IInv, TypeOK', CompletePacket
  PROVE  IInv'
<1> USE InvParts
<1>0. /\ made \in Nat /\ made' = made + 1 /\ Len(sensor_buff) \in Nat
      /\ stored' = stored /\ dropped' = dropped /\ tx' = tx
      /\ last_elem' = last_elem /\ tx_success' = tx_success
  BY BuffDomain DEF TypeOK, CompletePacket
<1>1. /\ ListInv'
      /\ Buffered' = Buffered \cup {made}
      /\ Len(sensor_buff)' = Len(sensor_buff) + 1
      /\ sensor_buff # << >> => Head(sensor_buff)' = Head(sensor_buff)
  BY ListAppended
<1>2. sensor_buff' # << >> /\ OldestPacket' = made - Len(sensor_buff)
  <2>1. sensor_buff' # << >>
    BY <1>0, <1>1, EmptySeq DEF TypeOK
  <2>2. OldestPacket' = pkt'[sensor_buff'[1]] /\ 1 \in DOMAIN sensor_buff'
    BY <2>1 DEF OldestPacket, TypeOK
  <2>3. pkt'[sensor_buff'[1]] = made' - Len(sensor_buff') + 1 - 1
    BY <1>1, <2>2 DEF ListInv, BufferWindow
  <2>4. QED BY <1>0, <1>1, <2>1, <2>2, <2>3
<1>3. sensor_buff # << >> => OldestPacket' = OldestPacket
  BY <1>2, OldestNumber DEF ListInv
<1>4. sensor_buff = << >> => OldestPacket' = made /\ made \notin stored
  BY <1>0, <1>2 DEF StoredOld
<1>5. Accounted'
  BY <1>0, <1>1 DEF Accounted
<1>6. NoLostWakeup' /\ SleepFlag'
  BY <1>0 DEF CompletePacket, SampleDue, PostWakeup, NoLostWakeup, SleepFlag, TypeOK
<1>7. StoredOld'
  BY <1>0, <1>1 DEF StoredOld, TypeOK
<1>8. StoredIsLast' /\ AsleepUnsent'
  BY <1>0, <1>1, <1>2, <1>3, <1>4 DEF StoredIsLast, AsleepUnsent
<1>9. AckSound'
  <2>1. SUFFICES ASSUME tx_success PROVE AckSound'
    BY <1>0 DEF AckSound
  <2>2. tx = "timer" /\ sensor_buff # << >>
    BY <2>1 DEF AckSound
  <2>3. tx_budget + sample_cnt >= SAMPLES_PER_PACKET
    <3>1. tx_budget > 0 /\ sample_cnt + 1 = SAMPLES_PER_PACKET
      BY <2>2 DEF CompletePacket, SampleDue
    <3>2. tx_budget \in Int /\ sample_cnt \in Int
      BY DEF TypeOK
    <3>3. QED BY <3>1, <3>2, PacketAssumption
  <2>4. last_elem = Head(sensor_buff) /\ OldestPacket \in stored
    <3>1. \/ last_elem = Head(sensor_buff) /\ OldestPacket \in stored
          \/ tx_budget + sample_cnt < SAMPLES_PER_PACKET
      BY <2>1 DEF AckSound
    <3>2. tx_budget + sample_cnt \in Int
      BY DEF TypeOK
    <3>3. QED BY <2>3, <3>1, <3>2, PacketAssumption
  <2>5. QED BY <1>0, <1>1, <1>2, <1>3, <2>2, <2>4 DEF AckSound
<1>10. QED BY <1>1, <1>5, <1>6, <1>7, <1>8, <1>9 DEF IInv, ListInv

\* An overflow takes the oldest packet.  If it was acknowledged, the timer
\* fires before another packet can be completed.
LEMMA CompleteAndDropInv ==
  ASSUME IInv, TypeOK', CompleteAndDrop
  PROVE  IInv'
<1> USE InvParts
<1>0. /\ made \in Nat /\ made' = made + 1 /\ Len(sensor_buff) \in Nat
      /\ stored' = stored /\ tx' = tx
      /\ last_elem' = last_elem /\ tx_success' = tx_success
  BY BuffDomain DEF TypeOK, CompleteAndDrop
<1>1. /\ ListInv'
      /\ sensor_buff # << >>
      /\ Buffered \subseteq Buffered' \cup {OldestPacket}
      /\ made \in Buffered'
      /\ dropped' = dropped \cup {OldestPacket}
      /\ Len(sensor_buff)' = Len(sensor_buff)
      /\ \A i \in DOMAIN sensor_buff' : sensor_buff'[i] # Head(sensor_buff)
  BY ListShifted
<1>2. sensor_buff' # << >> /\ OldestPacket' = OldestPacket + 1
  <2>1. sensor_buff' # << >>
    BY <1>0, <1>1, BuffDomain, EmptySeq DEF TypeOK
  <2>2. OldestPacket' = pkt'[sensor_buff'[1]] /\ 1 \in DOMAIN sensor_buff'
    BY <2>1 DEF OldestPacket, TypeOK
  <2>3. pkt'[sensor_buff'[1]] = made' - Len(sensor_buff') + 1 - 1
    BY <1>1, <2>2 DEF ListInv, BufferWindow
  <2>4. OldestPacket = made - Len(sensor_buff)
    BY <1>1, OldestNumber DEF ListInv
  <2>5. QED BY <1>0, <1>1, <2>1, <2>2, <2>3, <2>4
<1>3. OldestPacket' \notin stored
  <2>1. OldestPacket = made - Len(sensor_buff)
    BY <1>1, OldestNumber DEF ListInv
  <2>2. \A p \in stored : p \in Nat /\ p <= made - Len(sensor_buff)
    BY DEF StoredOld, TypeOK
  <2>3. QED BY <1>0, <1>2, <2>1, <2>2
<1>4. Accounted'
  BY <1>0, <1>1 DEF Accounted
<1>5. NoLostWakeup' /\ SleepFlag'
  BY <1>0 DEF CompleteAndDrop, SampleDue, PostWakeup, NoLostWakeup, SleepFlag, TypeOK
<1>6. StoredOld'
  BY <1>0, <1>1 DEF StoredOld, TypeOK
<1>7. StoredIsLast' /\ AsleepUnsent'
  BY <1>0, <1>3 DEF StoredIsLast, AsleepUnsent
<1>8. AckSound'
  <2>1. SUFFICES ASSUME tx_success PROVE AckSound'
    BY <1>0 DEF AckSound
  <2>2. tx = "timer"
    BY <2>1 DEF AckSound
  <2>3. tx_budget + sample_cnt >= SAMPLES_PER_PACKET
    <3>1. tx_budget > 0 /\ sample_cnt + 1 = SAMPLES_PER_PACKET
      BY <2>2 DEF CompleteAndDrop, SampleDue
    <3>2. tx_budget \in Int /\ sample_cnt \in Int
      BY DEF TypeOK
    <3>3. QED BY <3>1, <3>2, PacketAssumption
  <2>4. last_elem = Head(sensor_buff)
    <3>1. \/ last_elem = Head(sensor_buff) /\ OldestPacket \in stored
          \/ tx_budget + sample_cnt < SAMPLES_PER_PACKET
      BY <2>1 DEF AckSound
    <3>2. tx_budget + sample_cnt \in Int
      BY DEF TypeOK
    <3>3. QED BY <2>3, <3>1, <3>2, PacketAssumption
  <2>5. tx_budget' + sample_cnt' < SAMPLES_PER_PACKET
    <3>1. tx_budget' = tx_budget - 1 /\ sample_cnt' = 0
      BY <2>2 DEF CompleteAndDrop, SampleDue
    <3>2. tx_budget \in Int /\ tx_budget <= LONG_TX_SAMPLES
      BY DEF TypeOK
    <3>3. QED BY <3>1, <3>2, PacketAssumption, TimerAssumption
  <2>6. QED BY <1>0, <1>1, <1>2, <2>2, <2>4, <2>5 DEF AckSound
<1>9. QED BY <1>1, <1>4, <1>5, <1>6, <1>7, <1>8 DEF IInv, ListInv


LEMMA TxIdleInv ==
  ASSUME IInv, TypeOK', TxIdle
  PROVE  IInv'
<1> USE InvParts
<1>1. ListInv' /\ Buffered' = Buffered /\ OldestPacket' = OldestPacket
  BY ListKept DEF TxIdle, memVars
<1>2. Accounted' /\ NoLostWakeup' /\ SleepFlag'
  BY <1>1 DEF TxIdle, Sleep, memVars, Accounted, NoLostWakeup, SleepFlag
<1>3. StoredOld' /\ StoredIsLast' /\ AsleepUnsent' /\ AckSound'
  BY DEF TxIdle, memVars, StoredOld, StoredIsLast, AsleepUnsent, AckSound
<1>4. QED BY <1>1, <1>2, <1>3 DEF IInv, ListInv

\* Sending the oldest packet of the list keeps the facts about stored packets.
LEMMA TransmitInv ==
  ASSUME TypeOK, TypeOK', ListInv', sensor_buff' # << >>, tx' = "timer",
         NEW heard \in BOOLEAN, Transmit(Head(sensor_buff'), heard),
         pkt' = pkt, made' = made, tx_success' = FALSE,
         \A p \in stored : p < made /\ p <= made - Len(sensor_buff')
  PROVE  /\ StoredOld' /\ StoredIsLast' /\ AsleepUnsent' /\ AckSound' /\ NoLostWakeup' /\ SleepFlag'
         /\ stored \subseteq stored'
<1>1. /\ stored' = stored \/ stored' = stored \cup {OldestPacket'}
      /\ last_elem' = Head(sensor_buff')
  BY DEF Transmit, OldestPacket
<1>2. OldestPacket' = made - Len(sensor_buff') /\ Len(sensor_buff') \in Nat \ {0} /\ made \in Nat
  <2>1. sensor_buff' \in Seq(Blocks) /\ made \in Nat
    BY DEF TypeOK
  <2>2. Len(sensor_buff') \in Nat \ {0} /\ 1 \in DOMAIN sensor_buff'
    BY <2>1
  <2>3. pkt'[sensor_buff'[1]] = made' - Len(sensor_buff') + 1 - 1
    BY <2>2 DEF ListInv, BufferWindow
  <2>4. OldestPacket' = pkt'[sensor_buff'[1]]
    BY <2>1 DEF OldestPacket
  <2>5. QED BY <2>1, <2>2, <2>3, <2>4
<1>3. StoredOld'
  BY <1>1, <1>2 DEF StoredOld
<1>4. QED BY <1>1, <1>3 DEF StoredIsLast, AsleepUnsent, AckSound, NoLostWakeup, SleepFlag

\* The packet released is the oldest one, which a relay stores; the pointer
\* comparison fails exactly when an overflow has taken that packet already.
LEMMA TxAckedInv ==
  ASSUME IInv, TypeOK', NEW heard \in BOOLEAN, TxAcked(heard)
  PROVE  IInv'
<1> DEFINE acked == Head(sensor_buff) = last_elem
           rest == IF acked THEN Tail(sensor_buff) ELSE sensor_buff
<1> USE InvParts
<1>0. /\ made \in Nat /\ Len(sensor_buff) \in Nat
      /\ sensor_buff # << >> /\ tx = "timer" /\ tx_success
      /\ sensor_buff' = rest /\ pkt' = pkt /\ made' = made /\ dropped' = dropped
      /\ current_elem' = current_elem /\ tx_success' = FALSE
      /\ allocated' = IF acked THEN allocated \ {last_elem} ELSE allocated
  BY BuffDomain DEF TypeOK, TxAcked
<1>1. acked => OldestPacket \in stored
  <2>1. acked => \E i \in DOMAIN sensor_buff : sensor_buff[i] = last_elem
    BY <1>0, HeadBlock, BuffDomain
  <2>2. QED BY <1>0, <2>1 DEF AckSound
<1>2. /\ ListInv'
      /\ Buffered \subseteq Buffered' \cup stored
      /\ Len(sensor_buff') <= Len(sensor_buff)
      /\ Len(sensor_buff') \in Nat
  <2>1. CASE acked
    <3>1. sensor_buff' = Tail(sensor_buff) /\ allocated' = allocated \ {Head(sensor_buff)}
      BY <1>0, <2>1
    <3>2. /\ ListInv'
          /\ Buffered \subseteq Buffered' \cup {OldestPacket}
          /\ Len(sensor_buff)' = Len(sensor_buff) - 1
      BY <1>0, <3>1, ListPopped
    <3>3. Len(sensor_buff) - 1 \in Nat
      BY <1>0, HeadBlock
    <3>4. QED BY <1>0, <1>1, <2>1, <3>2, <3>3
  <2>2. CASE ~acked
    BY <1>0, <2>2, ListKept
  <2>3. QED BY <2>1, <2>2
<1>3. \A p \in stored : p < made /\ p <= made - Len(sensor_buff')
  <2>1. \A p \in stored : p \in Nat /\ p < made /\ p <= made - Len(sensor_buff)
    BY DEF StoredOld, TypeOK
  <2>2. QED BY <1>0, <1>2, <2>1
<1>4. /\ stored \subseteq stored'
      /\ StoredOld' /\ StoredIsLast' /\ AsleepUnsent' /\ AckSound' /\ NoLostWakeup' /\ SleepFlag'
  <2>1. CASE rest = << >>
    <3>1. stored' = stored /\ is_tx_sleeping'
      BY <1>0, <2>1 DEF TxAcked, Sleep
    <3>2. QED
      BY <1>0, <1>3, <2>1, <3>1
         DEF StoredOld, StoredIsLast, AsleepUnsent, AckSound, NoLostWakeup, SleepFlag
  <2>2. CASE rest # << >>
    <3>1. Transmit(Head(sensor_buff'), heard) /\ tx' = "timer"
      BY <1>0, <2>2 DEF TxAcked, SetTxTimer
    <3>2. QED BY <1>0, <1>2, <1>3, <2>2, <3>1, TransmitInv
  <2>3. QED BY <2>1, <2>2
<1>5. Accounted'
  BY <1>0, <1>2, <1>4 DEF Accounted
<1>6. QED BY <1>2, <1>4, <1>5 DEF IInv, ListInv

LEMMA TxTimeoutInv ==
  ASSUME IInv, TypeOK', NEW heard \in BOOLEAN, TxTimeout(heard)
  PROVE  IInv'
<1> USE InvParts
<1>0. /\ sensor_buff' = sensor_buff /\ sensor_buff # << >> /\ tx' = "timer"
      /\ Transmit(Head(sensor_buff'), heard)
      /\ pkt' = pkt /\ made' = made /\ tx_success' = FALSE /\ dropped' = dropped
  BY DEF TxTimeout, SetTxTimer, memVars, TypeOK
<1>1. ListInv' /\ Buffered' = Buffered
  BY ListKept DEF TxTimeout, memVars
<1>2. /\ StoredOld' /\ StoredIsLast' /\ AsleepUnsent' /\ AckSound' /\ NoLostWakeup' /\ SleepFlag'
      /\ stored \subseteq stored'
  <2>1. \A p \in stored : p < made /\ p <= made - Len(sensor_buff')
    BY <1>0 DEF StoredOld
  <2>2. QED BY <1>0, <1>1, <2>1, TransmitInv
<1>3. Accounted'
  BY <1>0, <1>1, <1>2 DEF Accounted
<1>4. QED BY <1>1, <1>2, <1>3 DEF IInv, ListInv

LEMMA WakeInv ==
  ASSUME IInv, TypeOK', TxContinue \/ TxSpurious
  PROVE  IInv'
<1> USE InvParts
<1>0. /\ UNCHANGED <<memVars, last_elem, stored, is_tx_sleeping, tx_success, in_coverage>>
      /\ tx' = "timer"
      /\ tx = "timer" => UNCHANGED tx_budget
  BY DEF TxContinue, TxSpurious, SetTxTimer, TypeOK
<1>1. ListInv' /\ Buffered' = Buffered /\ OldestPacket' = OldestPacket
  BY <1>0, ListKept DEF memVars
<1>2. Accounted' /\ NoLostWakeup' /\ SleepFlag'
  BY <1>0, <1>1 DEF memVars, Accounted, NoLostWakeup, SleepFlag
<1>3. StoredOld' /\ StoredIsLast' /\ AsleepUnsent' /\ AckSound'
  BY <1>0, <1>1 DEF memVars, StoredOld, StoredIsLast, AsleepUnsent, AckSound
<1>4. QED BY <1>1, <1>2, <1>3 DEF IInv, ListInv

\* An acknowledgement that matches the oldest packet is for that packet.
LEMMA RecvAckInv ==
  ASSUME IInv, TypeOK', NEW p \in stored, RecvAck(p)
  PROVE  IInv'
<1> USE InvParts
<1>0. UNCHANGED <<memVars, txVars, is_tx_sleeping, continue, in_coverage>> /\ sensor_buff # << >>
  BY DEF RecvAck
<1>1. p = OldestPacket
  <2>1. /\ p \in Nat /\ OldestPacket \in Nat
        /\ Len(sensor_buff) \in Nat \ {0} /\ made \in Nat
        /\ OldestPacket = made - Len(sensor_buff)
    BY <1>0, HeadBlock, OldestNumber DEF TypeOK, ListInv
  <2>2. p <= OldestPacket
    BY <2>1 DEF StoredOld
  <2>3. OldestPacket - p < SEQ_MOD
    BY <2>1 DEF RecvAck, FreshAck
  <2>4. p % SEQ_MOD = OldestPacket % SEQ_MOD
    BY DEF RecvAck, SameSeqno, OldestPacket
  <2>5. QED BY <2>1, <2>2, <2>3, <2>4, SeqnoUnique
<1>2. ListInv' /\ Buffered' = Buffered /\ OldestPacket' = OldestPacket
  BY <1>0, ListKept DEF memVars
<1>3. Accounted' /\ NoLostWakeup' /\ SleepFlag'
  BY <1>0, <1>2 DEF memVars, txVars, Accounted, NoLostWakeup, SleepFlag
<1>4. StoredOld' /\ StoredIsLast' /\ AsleepUnsent'
  BY <1>0, <1>2 DEF memVars, txVars, StoredOld, StoredIsLast, AsleepUnsent
<1>5. AckSound'
  <2>1. last_elem = Head(sensor_buff)
    BY <1>0, <1>1 DEF StoredIsLast
  <2>2. tx = "timer"
    BY <1>0, <1>1 DEF AsleepUnsent, TypeOK
  <2>3. QED BY <1>0, <1>1, <1>2, <2>1, <2>2 DEF AckSound, memVars, txVars
<1>6. QED BY <1>2, <1>3, <1>4, <1>5 DEF IInv, ListInv

LEMMA UnchangedInv ==
  ASSUME IInv, UNCHANGED <<memVars, txVars, is_tx_sleeping, continue, tx_success>>
  PROVE  IInv' \/ ~TypeOK'
<1> USE InvParts
<1>1. ListInv' /\ Buffered' = Buffered /\ OldestPacket' = OldestPacket
  BY ListKept DEF memVars
<1>2. Accounted' /\ NoLostWakeup' /\ SleepFlag'
  BY <1>1 DEF memVars, txVars, Accounted, NoLostWakeup, SleepFlag
<1>3. StoredOld' /\ StoredIsLast' /\ AsleepUnsent' /\ AckSound'
  BY <1>1 DEF memVars, txVars, StoredOld, StoredIsLast, AsleepUnsent, AckSound
<1>4. QED BY <1>1, <1>2, <1>3 DEF IInv, ListInv

LEMMA StepInv == IInv /\ [Next]_vars => IInv'
<1> SUFFICES ASSUME IInv, [Next]_vars PROVE IInv'
  OBVIOUS
<1>0. TypeOK'
  BY StepType DEF IInv
<1>1. CASE SampleStep
  BY <1>0, <1>1, TakeSampleInv, CompletePacketInv, CompleteAndDropInv DEF SampleStep
<1>2. CASE TxTimer
  BY <1>0, <1>2, TxIdleInv, TxAckedInv, TxTimeoutInv DEF TxTimer
<1>3. CASE TxContinue \/ TxSpurious
  BY <1>0, <1>3, WakeInv
<1>4. CASE RecvAnyAck
  BY <1>0, <1>4, RecvAckInv DEF RecvAnyAck
<1>5. CASE Move
  BY <1>0, <1>5, UnchangedInv DEF Move
<1>6. CASE UNCHANGED vars
  BY <1>0, <1>6, UnchangedInv DEF vars
<1>7. QED BY <1>1, <1>2, <1>3, <1>4, <1>5, <1>6 DEF Next

\* The inductive invariant of the sensor node.
THEOREM Invariance == Spec => []IInv
BY InitInv, StepInv, PTL DEF Spec

\* No completed packet disappears before a relay stores it, except the oldest
\* ones on overflow: whatever the sizes, the timing of acknowledgements within
\* the freshness bound, and the reuse of blocks.
THEOREM NoPacketLost == Spec => []Accounted
<1>1. IInv => Accounted
  BY DEF IInv
<1>2. QED BY <1>1, Invariance, PTL

\* The pool never leaks a block, never hands one out twice, and never runs out.
THEOREM PoolIsSound == Spec => []PoolSound
<1>1. IInv => PoolSound
  BY DEF IInv
<1>2. QED BY <1>1, Invariance, PTL

\* The list holds the latest packets in order: what leaves is the oldest.
THEOREM OldestLeaves == Spec => []BufferWindow
<1>1. IInv => BufferWindow
  BY DEF IInv
<1>2. QED BY <1>1, Invariance, PTL

\* transmit_process never sleeps over a non-empty buffer without a wakeup.
THEOREM WakeupNotLost == Spec => []NoLostWakeup
<1>1. IInv => NoLostWakeup
  BY DEF IInv
<1>2. QED BY <1>1, Invariance, PTL

-----------------------------------------------------------------------------
(* The buffer in memory *)

Counts(used) == [b \in Blocks |-> IF b \in used THEN 1 ELSE 0]

\* sensor_buff is linked and buff_memb counted.
MemoryInv ==
  /\ Links(sensor_list, sensor_buff)
  /\ DOMAIN sensor_list.next = Blocks
  /\ count = Counts(allocated)

\* memb_alloc finds the same block in the counts as in the set of blocks in use.
LEMMA AllocCounts ==
  ASSUME NEW used \in SUBSET Blocks
  PROVE  Alloc(Counts(used)) = Counts(used \cup ({MembAlloc(used)} \ {NULL}))
<1> DEFINE c == Counts(used)
           f == FreeBlock(c)
           a == MembAlloc(used)
<1>1. /\ DOMAIN c = Blocks /\ Blocks \subseteq Nat
      /\ \A b \in Blocks : c[b] = IF b \in used THEN 1 ELSE 0
  BY DEF Counts, Blocks
<1>2. Alloc(c) = [b \in Blocks |-> IF b = f THEN c[b] + 1 ELSE c[b]]
  BY <1>1 DEF Alloc
<1> HIDE DEF c
<1>3. CASE used = Blocks
  <2>1. f = -1 /\ a = NULL
    <3>1. \A b \in DOMAIN c : c[b] # 0
      <4>1. SUFFICES ASSUME NEW b \in Blocks PROVE c[b] # 0
        BY <1>1, Zenon
      <4>2. b \in used
        BY <1>3
      <4>3. QED BY <1>1, <4>2
    <3>2. Blocks \ used = {}
      BY <1>3
    <3>3. f = -1
      BY <3>1 DEF FreeBlock
    <3>4. a = NULL
      BY <3>2, Zenon DEF MembAlloc
    <3>5. QED BY <3>3, <3>4
  <2>2. \A b \in Blocks : b # f
    BY <1>1, <2>1
  <2> HIDE DEF f, a
  <2>3. \A b \in Blocks : (IF b = f THEN c[b] + 1 ELSE c[b])
                          = IF b \in used \cup ({a} \ {NULL}) THEN 1 ELSE 0
    BY <1>1, <2>1, <2>2
  <2>4. QED BY <1>2, <2>3 DEF Counts, c, a
<1>4. CASE used # Blocks
  <2>1. a \in Blocks \ used /\ \A b \in Blocks \ used : a <= b
    BY <1>4, MembAllocFree
  <2>2. \E b \in Blocks : c[b] = 0
    BY <1>1, <2>1
  <2>3. f \in Blocks /\ c[f] = 0 /\ \A b \in Blocks : c[b] = 0 => f <= b
    BY <1>1, <2>2, FreeBlockFact
  <2> HIDE DEF f, a
  <2>4. f \in Blocks \ used /\ f <= a
    BY <1>1, <2>1, <2>3
  <2>5. f = a /\ a # NULL /\ a \in Nat
    BY <1>1, <2>1, <2>4 DEF NULL
  <2>6. \A b \in Blocks : (IF b = f THEN c[b] + 1 ELSE c[b])
                          = IF b \in used \cup ({a} \ {NULL}) THEN 1 ELSE 0
    BY <1>1, <2>1, <2>5
  <2>7. QED BY <1>2, <2>6 DEF Counts, c, a
<1>5. QED BY <1>3, <1>4

LEMMA FreeCounts ==
  ASSUME NEW used \in SUBSET Blocks, NEW b \in used
  PROVE  Free(Counts(used), b) = Counts(used \ {b})
<1> DEFINE c == Counts(used)
<1>1. DOMAIN c = Blocks /\ \A e \in Blocks : c[e] = IF e \in used THEN 1 ELSE 0
  BY DEF Counts
<1>2. Free(c, b) = [e \in Blocks |-> IF e = b /\ c[e] > 0 THEN c[e] - 1 ELSE c[e]]
  BY <1>1 DEF Free
<1> HIDE DEF c
<1>3. \A e \in Blocks : (IF e = b /\ c[e] > 0 THEN c[e] - 1 ELSE c[e])
                        = IF e \in used \ {b} THEN 1 ELSE 0
  BY <1>1
<1>4. QED BY <1>2, <1>3 DEF Counts, c

LEMMA MemoryInvInit == MemoryInit => MemoryInv
<1> SUFFICES ASSUME MemoryInit PROVE MemoryInv
  OBVIOUS
<1>1. /\ sensor_list = [head |-> End, next |-> [b \in Blocks |-> End]]
      /\ count = [b \in Blocks |-> IF b = 0 THEN 1 ELSE 0]
      /\ sensor_buff = << >> /\ allocated = {0}
  BY DEF MemoryInit, Init
<1>2. IsFiniteSet(Blocks) /\ End \notin Blocks
  BY FS_Interval DEF Blocks, End
<1>3. count = Counts(allocated)
  BY <1>1 DEF Counts
<1>4. DOMAIN sensor_list.next = Blocks /\ sensor_list.head = End
      /\ sensor_list = [head |-> sensor_list.head, next |-> sensor_list.next]
  BY <1>1
<1>5. sensor_buff \in Seq(Blocks) /\ Len(sensor_buff) = 0 /\ DOMAIN sensor_buff = {}
  BY <1>1
<1>6. QED BY <1>2, <1>3, <1>4, <1>5 DEF MemoryInv, Links, Distinct, At

\* sensor_process: the packet is linked, and the oldest one unlinked if the list is full.
LEMMA KeepPacketMemory ==
  ASSUME IInv, MemoryInv, CompletePacket \/ CompleteAndDrop, KeepPacket
  PROVE  MemoryInv'
<1> DEFINE s == Append(sensor_buff, current_elem)
           full == ListAdd(sensor_list, current_elem)
<1>1. /\ current_elem \in Blocks /\ current_elem \in allocated /\ allocated \in SUBSET Blocks
      /\ sensor_buff \in Seq(Blocks) /\ Len(sensor_buff) \in Nat
      /\ current_elem \notin Elements(sensor_buff)
  BY BuffDomain, SampleDueType DEF IInv, TypeOK, PoolSound, Elements, CompletePacket, CompleteAndDrop
<1>2. Links(full, s) /\ DOMAIN full.next = Blocks
  BY <1>1, AddLinks DEF MemoryInv
<1>3. Chain(full) = s /\ Len(s) = Len(sensor_buff) + 1 /\ s # << >>
  <2>1. Chain(full) = s
    BY <1>2, ChainIs
  <2>2. QED BY <1>1, <2>1
<1>4. count = Counts(allocated)
  BY DEF MemoryInv
<1>5. KeepPacket => /\ sensor_list' = IF Len(sensor_buff) + 1 = BUFF_SIZE THEN ListPop(full) ELSE full
                    /\ count' = Alloc(IF Len(sensor_buff) + 1 = BUFF_SIZE
                                      THEN Free(count, full.head) ELSE count)
  BY <1>3 DEF KeepPacket
<1> HIDE DEF full, s
<1>6. CASE CompletePacket
  <2>1. /\ Len(sensor_buff) + 1 # BUFF_SIZE
        /\ sensor_buff' = s
        /\ allocated' = allocated \cup ({MembAlloc(allocated)} \ {NULL})
    BY <1>6 DEF CompletePacket, s
  <2>2. sensor_list' = full /\ count' = Alloc(count)
    BY <1>5, <2>1
  <2>3. QED BY <1>1, <1>2, <1>4, <2>1, <2>2, AllocCounts DEF MemoryInv
<1>7. CASE CompleteAndDrop
  <2> DEFINE used == allocated \ {Head(s)}
  <2>1. /\ Len(sensor_buff) + 1 = BUFF_SIZE
        /\ sensor_buff' = Tail(s)
        /\ allocated' = used \cup ({MembAlloc(used)} \ {NULL})
    BY <1>7 DEF CompleteAndDrop, s
  <2>2. full.head = Head(s) /\ Head(s) = s[1]
    BY <1>2, <1>3, LinksFacts
  <2>3. Head(s) \in allocated
    <3>1. sensor_buff # << >> /\ s[1] = sensor_buff[1] /\ 1 \in DOMAIN sensor_buff
      BY <1>1, <2>1 DEF s
    <3>2. QED BY <2>2, <3>1 DEF IInv, PoolSound
  <2>4. sensor_list' = ListPop(full) /\ count' = Alloc(Free(count, Head(s)))
    BY <1>5, <2>1, <2>2
  <2>5. Links(sensor_list', sensor_buff') /\ sensor_list'.next = full.next
    BY <1>2, <1>3, <2>1, <2>4, PopLinks
  <2>6. Free(count, Head(s)) = Counts(used)
    BY <1>1, <1>4, <2>3, FreeCounts
  <2> HIDE DEF used
  <2>7. count' = Counts(allocated')
    <3>1. used \in SUBSET Blocks
      BY <1>1 DEF used
    <3>2. QED BY <2>1, <2>4, <2>6, <3>1, AllocCounts
  <2>8. QED BY <1>2, <2>5, <2>7 DEF MemoryInv
<1>8. QED BY <1>6, <1>7

\* transmit_process: the block acknowledged is the first of the list or stays in it.
LEMMA ReleasePacketMemory ==
  ASSUME IInv, MemoryInv, NEW heard \in BOOLEAN, TxAcked(heard), ReleasePacket
  PROVE  MemoryInv'
<1>1. /\ sensor_buff # << >> /\ allocated \in SUBSET Blocks
      /\ sensor_buff' = IF Head(sensor_buff) = last_elem THEN Tail(sensor_buff) ELSE sensor_buff
      /\ allocated' = IF Head(sensor_buff) = last_elem THEN allocated \ {last_elem} ELSE allocated
  BY DEF TxAcked, IInv, TypeOK
<1>2. sensor_list.head = Head(sensor_buff)
  BY <1>1, LinksFacts DEF MemoryInv
<1>3. CASE Head(sensor_buff) = last_elem
  <2>1. Head(sensor_buff) \in allocated
    <3>1. 1 \in DOMAIN sensor_buff /\ Head(sensor_buff) = sensor_buff[1]
      BY <1>1, BuffDomain, HeadBlock DEF IInv
    <3>2. QED BY <3>1 DEF IInv, PoolSound
  <2>2. sensor_list' = ListPop(sensor_list) /\ count' = Free(count, last_elem)
    BY <1>2, <1>3 DEF ReleasePacket
  <2>3. Links(sensor_list', sensor_buff') /\ sensor_list'.next = sensor_list.next
    BY <1>1, <1>3, <2>2, PopLinks DEF MemoryInv
  <2>4. count' = Counts(allocated')
    BY <1>1, <1>3, <2>1, <2>2, FreeCounts DEF MemoryInv
  <2>5. QED BY <2>3, <2>4 DEF MemoryInv
<1>4. CASE Head(sensor_buff) # last_elem
  BY <1>1, <1>2, <1>4 DEF ReleasePacket, memoryVars, MemoryInv
<1>5. QED BY <1>3, <1>4

\* The other steps leave buffer and memory alone.
LEMMA OtherMemory ==
  ASSUME MemoryInv, UNCHANGED <<allocated, sensor_buff, memoryVars>>
  PROVE  MemoryInv'
BY DEF MemoryInv, memoryVars

LEMMA MemoryStep ==
  IInv /\ MemoryInv /\ [MemoryNext]_<<vars, memoryVars>> => MemoryInv' /\ [Next]_vars
<1> SUFFICES ASSUME IInv, MemoryInv, [MemoryNext]_<<vars, memoryVars>>
             PROVE  MemoryInv' /\ [Next]_vars
  OBVIOUS
<1>1. CASE (CompletePacket \/ CompleteAndDrop) /\ KeepPacket
  BY <1>1, KeepPacketMemory DEF Next, SampleStep
<1>2. CASE (\E heard \in BOOLEAN : TxAcked(heard)) /\ ReleasePacket
  BY <1>2, ReleasePacketMemory DEF Next, TxTimer
<1>3. CASE /\ \/ TakeSample \/ TxIdle \/ TxContinue \/ TxSpurious \/ RecvAnyAck \/ Move
              \/ \E heard \in BOOLEAN : TxTimeout(heard)
           /\ UNCHANGED memoryVars
  <2>1. UNCHANGED <<allocated, sensor_buff>>
    BY <1>3 DEF TakeSample, TxIdle, TxContinue, TxSpurious, RecvAnyAck, RecvAck, Move, TxTimeout,
                memVars
  <2>2. Next
    BY <1>3 DEF Next, SampleStep, TxTimer
  <2>3. QED BY <1>3, <2>1, <2>2, OtherMemory
<1>4. CASE UNCHANGED <<vars, memoryVars>>
  BY <1>4, OtherMemory DEF vars, memVars
<1>5. QED BY <1>1, <1>2, <1>3, <1>4 DEF MemoryNext

\* The list and the pool are in memory what the program takes them for: the chain of
\* pointers is the buffer, without a cycle, and the counts are those of the blocks in
\* use, for every size and every order in which blocks are used again.
THEOREM BufferKeptInMemory == MemorySpec => []BufferInMemory
<1>1. MemoryInit => IInv /\ MemoryInv
  BY InitInv, MemoryInvInit DEF MemoryInit
<1>2. IInv /\ MemoryInv /\ [MemoryNext]_<<vars, memoryVars>> => (IInv /\ MemoryInv)'
  BY MemoryStep, StepInv
<1>3. MemoryInv => BufferInMemory
  BY ChainIs DEF MemoryInv, BufferInMemory, Counts
<1>4. QED BY <1>1, <1>2, <1>3, PTL DEF MemorySpec
=============================================================================
