# Verification of the cattle monitoring network

TLA+ models of the wireless sensor network in `contiki/examples/project` (sensor
nodes on the animals sample and buffer, relay nodes in the pasture collect and
forward, a base station receives) and of the parts of Contiki that it stands on:
the process kernel, the timers and the medium access layer. TLC checks the models
on small instances; TLAPS proves the main results for every value of the constants.
Paths are relative to `src/`; line numbers without a file belong to the program that
the section is about.

## 1. The system

| Part | State | Operations | Talks to |
|------|-------|------------|----------|
| Sensor node (`sensor-node.c`) | pool `buff_memb`, list `sensor_buff`, `current_elem`, `sample_cnt`; `timeout_cnt`, `tx_success`, `last_elem`, `is_tx_sleeping` | `sensor_process`: sample, complete a packet, drop the oldest, wake the transmitter. `transmit_process`: send the oldest packet until acknowledged, sleep. `recv_uc`: note an acknowledgement | its two processes share the list and the pool, and one event; broadcasts SENSOR_DATA, hears ACK_SENSOR |
| Relay node (`relay-node.c`) | `agg_data_buffer`; slots `agg_data_to_be_sent`, `agg_data_fwd`, `ack_agg_fwd`, each with its flags; `sensor_ack_list`; `hop_nr`, `conf_seqn`, `flg_conf`; timers `et_rnd`, `et_rnd_ack` | `broadcast_recv`: SENSOR_DATA, HOP_CONF, AGGREGATED_DATA. `recv_uc`: ACK_AGG. `broadcast_process`: one of three transmissions. `unicast_process`: one of two acknowledgements | callbacks set flags and timers, processes clear them; radio |
| Base station (`base_station.c`) | `conf_seqn`, one acknowledgement slot, `et_rnd_ack` | start a round, receive and acknowledge a packet | radio |
| Medium access (`core/net/mac`) | a queue for each neighbour over four pools, the burst being sent, deferred transmissions, last MAC number per sender | send, retransmit, report, drop duplicates | all nodes; its callbacks may send again |
| Process kernel (`core/sys/process.c`, main loop of `platform/sky`) | process list, ring of events, poll flags | start, exit, post, poll, dispatch, sleep | all processes; interrupts poll |
| Timers (`core/sys/etimer.c`, `ctimer.c`, clock interrupt) | timer list, next expiration, wrapping clock; `ctimer_list` | set, reset, restart, stop, adjust, expire | all processes; the event queue |
| Library (`core/lib/memb.c`, `list.c`) | reference counts, links | alloc, free, add, remove, pop | sensor, relay, kernel, medium access |

### What is hard

Processes and callbacks of a node are not preemptive, so the interleaving is
between *runs* of processes, and everything read before a wait may be stale after
it; only interrupts come anywhere. On the radio every message may be lost, late,
repeated or overtaken, and the applications use neither timestamps nor remembered
sequence numbers. What follows from that for each part (`hazards` in `PROJECT.json`
has each at its line):

* Sensor node. The pointer comparison of line 245 stands between a late
  acknowledgement and the release of the wrong packet, although blocks are
  reused and the sampler pops the list behind the transmitter's back; the wakeup
  may get lost; the pool may run out; `seqno` is 8 bits wide.
* Relay node. A packet is handed over when an acknowledgement is *received*, so
  for a while there are two copies or more; acknowledgements share one slot, are
  ignored while the relay has a packet of its own, and name a packet, not a hop.
  The same packet comes back by another route. Hop numbers are stamped when a
  packet is built. Rounds are told apart by `!=`. A restart empties the relay.
* Base station. One acknowledgement slot; an 8-bit round number.
* Kernel. An interrupt between any two instructions of `do_poll`, or between the
  last look at the queue and the instruction that sleeps; handlers that unlink the
  process a loop stands at; a full or wrapped ring.
* Timers. Expiration times wrap; the event queue may be full when timers expire;
  a process exits with timers on the list; the event of an earlier expiration is
  still in the queue when a timer is set again.
* Medium access. A packet takes an element of each of four pools and any of them
  may be empty; a burst and a deferred transmission keep pointers into a queue from
  which callbacks free packets and to which they add some.

What makes it correct: a sensor packet leaves the sensor node only to a relay or
because the buffer overflowed; a reading acknowledged by a relay stays in the
network until it reaches the base station; work that waits is always woken; the
flood gives usable hop numbers; packets arrive; no event, poll, timer or queued
packet is forgotten, and nothing is done twice.

## 2. Modules

| Module | Models |
|--------|--------|
| `SensorNode` | `sensor-node.c`, its list a sequence and its pool a set |
| `LinkedList`, `Memb` | the memory of `list.c` and `memb.c` |
| `SensorMemory` | `SensorNode` with list and pool in memory |
| `MCSensorOutage` | `SensorNode` out of coverage, with a clock derived from the samples |
| `Radio` | frames under way, the message formats |
| `RelayNode` | `relay-node.c`, one function of `Relay` per variable |
| `BaseStation` | `base_station.c` |
| `CattleNetwork` | relays and base station on one radio; fairness; properties |
| `ReadingCustody` | the abstract promise that `CattleNetwork` implements |
| `Rounds` | `CattleNetwork` with the history of the current round |
| `MCNetwork`, `MCRounds` | their instances: topologies and bounds |
| `Lists` | pure operators on lists: `Elements`, `Place`, `Unlink`, `Keep`, `Backwards` |
| `EventQueue` | the abstract promise of the event queue |
| `ProcessKernel` | `process.c` under the main loop, interrupted; `MCKernel` has its instances |
| `EventTimers`, `CallbackTimers` | `etimer.c` and `timer.c` with the clock interrupt; `ctimer.c` on top |
| `CsmaQueue` | `csma.c` over the bursts of `contikimac.c` and the deferrals of `phase.c` |
| `CsmaMemory` | `CsmaQueue` with its queues in memory |
| `MacLink` | `CsmaQueue` to one receiver with the duplicate test of `mac-sequence.c` |
| `SensorNodeProofs`, `CattleNetworkProofs`, `RoundsProofs`, `CustodyProofs`, `ProcessKernelProofs`, `TimerProofs`, `CsmaProofs` | theorems; `ListFacts` has the lemmas they share on lists, linked memory and blocks |

### SensorNode and SensorMemory

A run of a process between two waits is one action. `TakeSample`,
`CompletePacket` and `CompleteAndDrop` are the three ways through the loop of
`sensor_process`; the wakeup and `memb_alloc` are part of the latter two. `TxIdle`,
`TxAcked` and `TxTimeout` are the ways through the loop of `transmit_process` when
`et_tx` fires, up to the next wait: releasing the head, transmitting the next
packet and choosing the next timer are one action. `TxContinue` and `TxSpurious`
are the events that end `PROCESS_YIELD`. `RecvAck` is the callback.

A packet is known by its number in order of completion; `pkt[b]` is the number of
the packet in block `b`, the wire carries it modulo `SEQ_MOD`. `stored` records
the packets some relay took and so may acknowledge at any time from then on, as
often as it likes; `dropped` those lost to overflow. Sample values are left out.
Of time one fact is kept, because the program relies on it: between two timer
events of the transmitter at most `LONG_TX_SAMPLES` samples are taken (12 s per
sample, 35 s at most), fewer than make two packets. An acknowledgement is never
older than `SEQ_MOD` packets (`FreshAck`): 256 packets take four hours, an
acknowledgement seconds.

`SensorMemory` runs the same program on linked memory: a head pointer, a `next`
pointer in every block, reference counts. `list_pop` leaves the pointer of the block
it takes off, the block is handed out again with that pointer in it, and only the
order of calls in `list_add` keeps the list from closing on itself. `BufferInMemory`
says that the memory always represents the sequence and the set. `CsmaMemory` does
the same for the queues of `csma.c`, where `list_remove` takes elements out of the
middle.

### Radio, RelayNode, BaseStation, CattleNetwork

A flag and the slot it guards are one variable (an empty slot is `NoPacket` or
`NoAck`): the source sets and clears `flg_x`, `overwrite_x` and the contents
together. A timer is TRUE from the moment it is set until the process it wakes
finds nothing to do; a callback that finds it expired sets it again, which the
model cannot tell from it still running. The arm and the flag are the same
action, as in the callbacks.

A transmission takes effect for any subset of the nodes in range; the empty
subset is a collision or a refusal by the MAC queue. Frames are received in any
order. `Repeats` says whether a frame can be received twice (see section 5);
`Restarts` which relays may lose their memory and begin again. SENSOR_DATA is an
open environment: any reading may reach any relay at any time, several relays,
several times. The contents of packets are history (`built`).

NULL from `memb_alloc` in the relay (line 85) is modelled as a lost
acknowledgement; what the write through NULL does to the machine is not.

`Settled` and `SettledRounds`: rounds start every 200 s and the flood takes
seconds. Properties that depend on rounds not overlapping are checked with
`SettledRounds = TRUE` only, the others with overlapping rounds too. `Rounds`
adds what the properties of a round must know of its past: whether all its messages
arrived, whether its number was new to each relay, whether a relay restarted.

### ProcessKernel

`pc` says where the main loop is; one action is the code between two points at which
an interrupt may change what the code does next. `Interrupt` gives a driver work,
sets the poll flags of its process and wakes the processor; it may come at every
value of `pc`. A run of a process is one action and does at most one thing the
kernel can notice (post, broadcast, poll, start or exit a process, itself included);
processes called synchronously inside it do nothing. `process_list` is a sequence,
and `stale_next` keeps the pointer of a process that was unlinked while `do_poll` or
the broadcast loop stood at it. The ring is `events`, `fevent`, `nevents` as in the
code.

### EventTimers and CallbackTimers

The clock counts modulo `W`; `Tick` is the clock interrupt with the comparison of
`clock.c`; `PollTimers` is the poll handler of `etimer_process`, all timers that have
expired in one action, stopping at a full queue. The kernel is reduced to what the
proofs about it show: a bounded queue in order, a poll that is not lost. `due` is
history: the time left, a plain integer, against which the modular arithmetic is
judged. `Reset` and `Adjust` are used as the headers ask. The assumption on intervals
states what the code needs: shorter than half the clock's range, or the interrupt
takes `next_expiration` for one that has passed or has yet to come.

### CsmaQueue and MacLink

Sending a burst keeps the processor, so a burst is a sequence of steps that only its
own callbacks interleave with: `Begin` (a timer or a deferred transmission is due),
`Transmit`, then `Retransmit`, or `Finish` and `Callback`, in which the application
may send again. `SendPacket` makes the allocations of csma.c one inside the other
(`Allocate`, `TakePacket`, `TakeMetadata`, `TakeBuffer`): each that fails makes those
around it give back what they took, and `PoolsExact` and `QueuesInMemory` judge the
result. The outcome of a transmission is chosen among those ContikiMAC can
return; strobes, phases and the duty cycle are not modelled. `OthersTake` is the rest
of the stack taking buffers of the shared pool. `MacLink` adds one receiver, whether
it heard each frame, and what `mac_sequence_is_duplicate` lets pass.

## 3. Runs

| Run | Question | Instance |
|-----|----------|----------|
| `sensor` | is any packet lost, block leaked, wakeup missed, list broken? does every packet leave the buffer? | 3 blocks, 5 packets, `SEQ_MOD` 3, 2 samples per packet |
| `sensor_outage` | does the buffer last four hours? (violated) | the program's constants |
| `net_custody` | is a reading told to be stored kept until it arrives? | bs - r1 - r2, r2 builds two packets and r1 forwards them, two frames, two readings |
| `net_reroute` | do custody and hop numbers survive changing routes, at relays that both build and forward? | bs - r1 - r2, bs hears r2 as well, each relay builds one packet, overlapping rounds modulo 2, one frame |
| `net_rounds` | does a round find the true distances, can hops be counted without bound? | bs with r1 and r2, r1 - r2 - r3; repeats, restarts of r2 and r3, rounds modulo 2 |
| `net_live` | does every packet arrive? | line, rounds modulo 2, one frame |
| `net_ackpool` | is every stored sensor packet acknowledged? (violated) | one relay, 2 readings per packet |
| `kernel` | is a poll, an event or a process of the list ever lost or served twice? does the ring implement the queue? | 2 processes, ring of 2 |
| `timers` | does every timer fire, never early, with the queue full and the clock wrapping? | clock modulo 4, one callback timer, two event timers, 2 processes, queue of 1 |
| `callback_early` | is a callback called before its time? (violated) | one callback timer |
| `csma` | is a packet, a pool element or a pointer ever lost, is each packet reported once and in the end? | broadcast and two receivers over 2 neighbour elements, pools of 3, 2 transmissions, 4 packets |
| `mac_duplicate` | is a repeated frame recognised? (violated) | one receiver, 3 packets |

Why the bounds are enough:

* `sensor`: with three blocks the list overflows while a packet is in flight and every
  block is reused; five packets pass the wrap of `SEQ_MOD` = 3, so wrapped
  acknowledgements occur.
* Network: two frames are the fewest that can overtake each other; an
  acknowledgement and a data frame, or two acknowledgements, are under way together.
  Two relays suffice for a packet to come back to its builder and for numbers to be
  passed to and fro. In `net_reroute` radio links need not be symmetric: r2 is heard by
  the base station and does not hear it, so it is two hops away and `HopSound` says more
  than that numbers are positive; its packets travel both ways. There a relay that has
  its own packet in one slot and another's in the other ignores the acknowledgement of
  the second, acknowledgements of different packets replace each other at the base
  station and at a relay, and a packet comes back to its builder. The third relay in
  `net_rounds` stands behind a relay that hears a round by two ways, so that a longer
  number may be passed on first. `SENSOR_DATA_PER_PACKET` is 1 where only packets
  matter, so that the next packet waits in `agg_data_buffer` behind the
  occupied slot, and 2 in `net_ackpool`. With `ConfMod` = 1 rounds repeat but do not
  reset hop numbers, which keeps `net_custody` small; the other runs have resets.
  `HOP_NR_INITIAL` is larger than any distance. Frame identifiers are symmetric and
  the symmetry is used in safety runs only.
* `kernel`: two processes are the fewest for one to unlink the other under a loop,
  two events for the ring to wrap and to be full. The proofs cover the rest.
* `timers`: with intervals of 1 and a clock modulo 4 each timer wraps many times; three
  timers and two processes put a timer of one process between those of another at an
  exit; a queue of one is full whenever two timers expire together. Lateness is bounded
  by `MaxLate`, without which a timer would be overtaken by the clock.
* `csma`: two receivers and the broadcast address share two elements, so that the third
  is refused; four packets make a burst with a successor while others arrive in a
  callback, fill a queue and exhaust a pool of three. Of the four allocations those of a
  neighbour, a packet and a buffer fail, the last with everything before it to be undone,
  a new neighbour included. That of metadata cannot fail first, as its pool is as large
  as that of packets (csma.c:120-121); the branch is modelled and covered by the proof.

Deadlock is checked in every run: the nodes never stop. Each property has a mutant: a
definition of the model changed the way a bug would change the code (`Mutant` and
`Deviation` in the modules), for which TLC finds the property violated.

### Findings

* `sensor_outage`: the report (doc/Report2_Group10.tex:533-534) requires four hours
  of storage; `BUFF_SIZE` = 50 gives 49 packets of one minute each.
* `net_ackpool`: `sensor_ack_memb` can be empty when a sensor packet is stored; the
  unchecked NULL of line 85 is then written through and no acknowledgement queued.
* `callback_early`: a callback timer that is set again while the event of its earlier
  expiration waits in the queue is called when that event comes (ctimer.c:76), before
  the time it was set for.
* `mac_duplicate`: one number per sender is kept, where the header speaks of the last
  few. A unicast whose link layer acknowledgement was lost, then a broadcast of the
  same sender, then the retransmission: it is passed up twice.

Met while modelling, without a contradiction to anything the repository states:

* A process that ends itself with `process_exit` and then waits again is off the list
  with the state of a running one (process.c:182-199); `process_is_running` says so too.
* A broadcast event may be given twice, and even without end, if handlers keep starting
  processes: `process_start` puts them in front of the loop (`BroadcastOnce` and
  `EventsServed` are stated for broadcasts without one).
* After `etimer_adjust` has moved a timer past the present nothing polls for it.
* Interrupt and `etimer_process` agree only on intervals below half the clock's range.
* A relay that missed as many rounds as there are numbers takes the next one for the one
  it knows; `RoundConverges` therefore asks that the number be new to each relay.

## 4. Fairness

* `SensorNode`: timers fire and queued events are dispatched (weak fairness of
  `TxTimer`, `TxContinue`). Strong fairness of `TxHeard` and `RecvAnyAck` says that of
  infinitely many transmissions and acknowledgements some get through: the radio is
  lossy, not dead, and animals come back into coverage. Nothing is assumed of `Move`
  or of sampling.
* `CattleNetwork`: frames on the air are received (`Deliver`), timers fire
  (`RelayTimers`), the base station keeps starting rounds, and of each kind of
  transmission repeated for ever one reaches all nodes in range. The random delays of
  lines 93, 118 and 263-277 are what makes that so in the program.
* `ProcessKernel`: weak fairness of the main loop only: the processor runs. Interrupts
  need not come.
* `CallbackTimers`: weak fairness of the clock, the poll handler, the delivery of events
  and the first run of `ctimer_process`. Processes owe nothing.
* `CsmaQueue`: weak fairness of the steps of a burst that has begun; strong fairness, for
  each neighbour, of its timer or deferred transmission being served between other bursts
  without a failure, and of a transmission that ends in OK or NOACK, since collisions do not count as attempts and a
  channel that is busy every time would put a packet off for ever.

## 5. Custody and the MAC layer

`Custody` strengthens `PacketHeld` to what the protocol keeps: the slots holding a
packet that has not arrived outnumber the acknowledgements of it sent or about to be
sent by relays. An acknowledgement is created together with a new copy
(`TakeAggData`), overwriting one only makes fewer, and receiving one uses it up and
frees at most one slot. That counting needs a frame to be received at most once and
relays that do not restart: packets are only in RAM. With `Repeats = TRUE`
`PacketHeld` fails: a relay takes back its own packet, stamped with an old hop number,
has it in both slots, and one acknowledgement received twice empties both. The MAC
layer is meant to discard repeated frames, but `mac_duplicate` shows that it does so
only while no other frame of the same sender came between; custody rests on that.

With overlapping rounds (`SettledRounds = FALSE`) hop numbers can count up to
`HOP_NR_INITIAL`, since line 127 lets an older round restart; `HopBounded`,
`RoundConverges` and `EventuallyReceived` are therefore claimed for settled rounds
only. `HopSound`, that no relay believes to be nearer than it is, holds always.

## 6. Proofs

All theorems hold for every value of the constants that meets the named assumptions of
the modules: every topology, every buffer, pool and ring size, every number of
processes, receivers and packets. Each follows from an inductive invariant, shown by
one lemma per action.

**`SensorNodeProofs`**: `TypeCorrect`, `PoolIsSound`, `OldestLeaves`, `NoPacketLost`,
`WakeupNotLost`. `Accounted` is not inductive: a step that releases a packet must know
that it is stored. The invariant `IInv` says why it is. The list holds consecutive
packets (`BufferWindow`) in distinct blocks (`PoolSound`), so different buffered packets
have different seqnos modulo `SEQ_MOD` as far as fresh acknowledgements go. Only the
oldest packet is ever transmitted (`StoredOld`). If the oldest is stored, it was the last
one transmitted (`StoredIsLast`). If `tx_success` is set, either the head is `last_elem`
and stored, or the packet transmitted last was overwritten and its block is not in the
list; that block cannot be back at the head before `et_tx` fires, because at most one
packet is completed between two timer events (`AckSound`). `AsleepUnsent` and `SleepFlag`
carry the same facts over the time the transmitter sleeps.

`BufferKeptInMemory` is about `SensorMemory`. Its invariant `MemoryInv` says of every
position what `BufferInMemory` says of the whole chain (`Links` in `ListFacts`): `head` is
the first element, each element points to the next, the last to `NULL`, and no element
occurs twice; and each count is 1 or 0 as the block is in use. `list_add`, `list_pop`
and `list_remove` keep `Links`, and pointers that are followed from `head` then give the
list (`ChainIs`, by induction on the distance to the end). `memb_alloc` takes the first
block with count 0, which is the block `SensorNode` takes. That `list_add` never finds
its element listed already rests on `PoolSound` of `IInv`.

**`CattleNetworkProofs`**: `TypeCorrect`, with the fact that only relays send
AGGREGATED_DATA, which the types of acknowledgements need; `TimersStayArmed`;
`HopNumbersSound`. The latter adds to `HopSound` that a HOP_CONF under way carries at
least the distance of its sender and is heard only in range, and that a relay that is to
pass a round on has a distance below `HOP_NR_INITIAL`. It assumes nothing of the radio:
frames may repeat and relays restart.

**`RoundsProofs`**, under `SettledRounds = TRUE` (stated in each theorem) and
`ConnectedAssumption`, that every relay has a neighbour one hop nearer than itself and
none is `HOP_NR_INITIAL` hops away: `RoundsConverge` and `HopNumbersBounded`, for every
topology, any loss, repetition and order of messages, and, the first of them, restarts.
`RoundConverges` speaks of settled states only, so the invariant `RoundsInv` must say
what is on its way while the flood runs. Every HOP_CONF on the air, and every relay that is
to pass the round on, has the current number (`CurrentRound`), since a round starts only
after the one before has settled. In a round whose messages arrive, every relay that has
passed on its number, and the base station, has brought it to each neighbour, or a smaller
one: a frame is on its way there, or the neighbour knows at most one hop more (`Telling`).
When nothing is under way no relay has more than one hop more than its nearer neighbour,
hence, by the least distance at which it could fail, none has more than its distance; and
none has less, by `HopNumbersSound`. For `HopBounded` the invariant counts
(`NumbersCounted`): if number *h* is under way in a round, then for every *j* up to *h* at
least *j* relays know a number of that round that is at most *j*. A relay that takes a
number takes a smaller one than it had, or joins the round.

**`CustodyProofs`**, under `Repeats = FALSE` and `Restarts = {}` (stated in each
theorem): `PacketsKept` by counting copies and acknowledgements as in section 5, with the
strengthening that frames, slots and the base station name built packets only;
`PacketsHeld` from it; `AcknowledgedIsTaken`; and `ReadingsKept`, that `CattleNetwork`
implements `ReadingCustody`: initial states map to initial states, and every step takes
readings, lets them arrive, or stutters.

**`ProcessKernelProofs`**: `KernelTypeCorrect` and `ListStaysSound` (the invariant adds
that `do_poll` stands at an unlinked process only right after the run in which that
process ended itself, with an old pointer into the list, and that only listed processes
have work); `PollsKept`; `SleepsOnlyIdle`; `QueueKept`, that the ring implements `EventQueue`.
The argument of `PollsKept`: while `do_poll` walks the list, every process with work and
its flag set stands at or after the place of the walk, or `poll_requested` is set again.
Starting a process only puts others behind it, unlinking keeps the order of the rest
(`ListFacts`), and a walk whose process was unlinked goes on from its old pointer, which
is where the rest begins. `NUMEVENTS` is at most 128 by
assumption: beyond, the 8-bit sum of process.c:346 is cut before the remainder is taken.

`BroadcastReachesAll` and `BroadcastReachesOnce` are about the same walk in `do_event`,
where any process may leave the list and any may be put in front of it. The invariant
`CastInv` says that a process that has been running since the event was posted and has
not been called lies ahead of the loop: in every set of processes that contains the next
one and is closed under the pointers, old ones included. Handlers change the pointers,
but a set closed under the new ones is closed under the old ones once the process that
left is dealt with. As long as no process starts, there is a set of processes around the
next one, none of them called yet, in which every pointer leads to a higher rank
(`NoneTwice`); so none is called twice.

**`TimerProofs`**: `TimersTypeCorrect`, `TimersOverduePolled`, `TimersNoOrphans`,
`TimersFireWhenDue`, `CallbackStaysAhead`, of `EventTimers` driven by callback timers and
by processes with timers of their own. The invariant ties the clock modulo `W` to plain
integers: start and interval of a timer give the time left, unless the timer is off the
list and too late for the clock to tell (`TimeSound`, `ListedSound`); so `timer_expired`
and the distances of `update_time` decide as integers would. `next_expiration` precedes
the expiration of each pending timer by no more than its interval (`NextSound`); it may
be earlier than all of them, as an exit removes timers and leaves it alone, and then the
interrupt polls too often, but not too late. For that the intervals must be below half
the clock's range and `W` even: with `W` = 2*i* + 1 and a `next_expiration` left behind, a
timer of interval *i* could be overdue without a poll. `clock_time_t` has a number of bits,
so the code is safe. `CallbackInv` adds that only `ctimer_process` owns the event timers of
callbacks, which never exits, and that before its first run they have no event timer but
an interval.

**`CsmaProofs`**: `CsmaTypeCorrect`, `PoolsKept`, `QueuesServed`, `PointersStayLive`,
`ReportedExactlyOnce`, by one invariant `CsmaInv`. Its parts need each other. A packet is
in one queue, once (`Apart`), so that freeing it takes it out of what is queued and
lowers the counts by one. A queue that is not empty has someone to serve it, and a
deferred transmission excludes both timer and burst (`QueueServed`), so that nothing can
free the packet it points to (`PointersLive`). `BurstSound` says why that persists: a
burst to a receiver not known to be awake has no timer beside it, so that when it is put
off it is alone, and one to a receiver known to be awake is never put off. That a refused
packet leaves the pools as they were (`AllocateFact`) goes from the innermost allocation
outwards; for the neighbour it needs `PoolsExact` itself: an empty queue means that the
element was allocated just now, a full one that it was there before.

`QueuesKeptInMemory` is about `CsmaMemory`, where all queues share one array of pointers.
The invariant adds to `CsmaInv` that each queued packet has an element of its own
(`ElemSound`), that every queue is linked, and that the elements with count 1 are those
of queued packets. By `Apart` the queues then share no element, so a change of one leaves
the pointers of the others alone (`LinksElsewhere`). `memb_alloc` finds a block
when `send_packet` asks for one: fewer than `QUEUEBUF_NUM` are counted, since the program
has checked the pools that `PoolsKept` says count the queued packets; and an element
taken for a packet that is then refused goes back (`RefusedMemory`).

Induction is over the least natural number for which a statement fails (`LeastNat` in
`ListFacts`), since the provers cannot instantiate theorems with an operator as parameter.

Only model-checked: liveness, which is out of the provers' reach.

## 7. Not modelled

* Sample values, power, logging, and the clock beyond the orders described above.
* In the library `list_push`, `list_chop`, `list_insert`, `list_copy`: nothing modelled
  calls them. `list_push` would be used for packets of type ACK, which only `runicast.c`
  and `collect.c` make and the programs do not use.
* The window between the expiry of a timer and the run of the process it wakes: in
  `RelayNode` and `BaseStation` a timer stays TRUE until the process finds nothing to do.
* Timers set by a process from its handler of PROCESS_EVENT_EXIT, or by a callback of one
  that has exited: `NoOrphans` is about processes that run. `Adjust` stays within the
  interval of a pending timer, though etimer_adjust checks nothing.
* In the kernel, processes that make several kernel calls in one run, and synchronous
  handlers that call the kernel.
* In the medium access layer the duty cycle, strobes, channel checks, phase estimation and
  the framer: reduced to the outcomes a transmission can have. The queue numbers are not
  wrapped (16 bits) and one receiver is looked at in `MacLink`.
* A full event queue at sensor-node.c:191: the node posts one event a minute into a ring
  of 8 (platform/sky/contiki-conf.h:138); the refusal itself is in `ProcessKernel`.
* The layers of Rime (`broadcast.c`, `unicast.c`, `abc.c`, `chameleon.c`): they set an
  address or a header and hand the packet on, without state of their own.
* The older copy of the programs in `contiki/contiki/examples/project`, which the build
  does not use, `common.c` (printing), the evaluation scripts and the traces (offline, no
  state).
* The rest of Contiki: some 490 000 lines of other platforms, register definitions,
  IPv6, the shell, Coffee, other MAC and routing layers, tools and examples. Nearly all of
  it is neither linked into the three programs nor changed by the project, which is why
  the mapped code is a small share of the repository. Of what is linked, the radio driver
  and the start of the platform are left out: device registers and initialisation.
* Seqnos of aggregated packets coming round (`MaxBuilt` <= 256).
