---------------------------- MODULE ProcessKernel ----------------------------
(***************************************************************************)
(* The process kernel of Contiki (core/sys/process.c) under the main loop  *)
(* of the sky platform (platform/sky/contiki-sky-main.c), interrupted at   *)
(* any point by a device driver that calls process_poll.                   *)
(*                                                                         *)
(* A run of a process (one call of its thread) is one action: it does at   *)
(* most one of the things the kernel can notice.  Runs of other processes  *)
(* that are called synchronously from it (PROCESS_EVENT_INIT, EXIT and     *)
(* EXITED) do nothing the kernel can notice.  process_list is a sequence;  *)
(* the next pointer that a process keeps after it has been unlinked is     *)
(* stale_next.                                                             *)
(***************************************************************************)
EXTENDS Lists, FiniteSets

CONSTANTS
  Proc,       \* the processes
  NULL,       \* no process; PROCESS_BROADCAST as a receiver
  NUMEVENTS,  \* PROCESS_CONF_NUMEVENTS
  Msg,        \* events posted by processes
  AtBoot      \* processes started at boot, last first

ASSUME NullAssumption    == NULL \notin Proc
ASSUME BootAssumption    ==
  AtBoot \in Seq(Proc) /\ \A i, j \in DOMAIN AtBoot : AtBoot[i] = AtBoot[j] => i = j

\* fevent + nevents is cut to process_num_events_t, an unsigned char, before the
\* remainder is taken.
ASSUME QueueAssumption == NUMEVENTS \in 1 .. 128

VARIABLES
  events, nevents, fevent, \* the event queue: a ring
  process_list,            \* running processes, in the order in which they are called
  stale_next,              \* p->next of a process that is not in the list
  running,                 \* p->state # PROCESS_STATE_NONE
  needspoll, poll_requested,
  pc,                      \* where the main loop is
  poll_p,                  \* p in do_poll
  event_p,                 \* receiver, or p, in do_event
  given,                   \* history: the event posted last
  work,                    \* history: processes for which a driver has work
  audience, reached,       \* history: processes that the event being broadcast
                           \* must still reach, and has reached
  joined                   \* history: a process was started meanwhile

queueVars == <<events, nevents, fevent, given>>
listVars  == <<process_list, stale_next, running>>
pollVars  == <<needspoll, poll_requested>>
loopVars  == <<pc, poll_p, event_p>>
castVars  == <<audience, reached, joined>>
vars      == <<queueVars, listVars, pollVars, loopVars, work, castVars>>

Events == [ev : Msg, p : Proc \cup {NULL}]
NoEvent == [ev |-> NULL, p |-> NULL]

(* The process list *)

Listed == Elements(process_list)
First(list) == IF list = << >> THEN NULL ELSE list[1]
Successor(list, p) ==
  IF Place(list, p) = Len(list) THEN NULL ELSE list[Place(list, p) + 1]

\* Mutant of NextIn: a loop whose process was unlinked begins again.
NextInRestart(list, stale, p) ==
  IF p \in Elements(list) THEN Successor(list, p) ELSE First(list)

\* p->next
NextIn(list, stale, p) == IF p \in Elements(list) THEN Successor(list, p) ELSE stale[p]

NextOf(p) == NextIn(process_list, stale_next, p)

-----------------------------------------------------------------------------
Init ==
  /\ events = [i \in 0 .. NUMEVENTS - 1 |-> NoEvent]
  /\ nevents = 0
  /\ fevent = 0
  /\ given = NoEvent
  /\ process_list = AtBoot
  /\ stale_next = [p \in Proc |-> NULL]
  /\ running = [p \in Proc |-> p \in Elements(AtBoot)]
  /\ needspoll = [p \in Proc |-> FALSE]
  /\ poll_requested = FALSE
  /\ pc = "run"
  /\ poll_p = NULL
  /\ event_p = NULL
  /\ work = {}
  /\ audience = {}
  /\ reached = {}
  /\ joined = FALSE

-----------------------------------------------------------------------------
(* The event queue *)

\* Mutant of PostSlot: the remainder is not taken.
PostSlotNoWrap == fevent + nevents

\* Mutant of PostSlot: the ring is taken to begin at 0.
PostSlotFromZero == nevents

PostSlot == ((fevent + nevents) % 256) % NUMEVENTS

\* Mutant of Post: a full queue is not noticed.
PostUnchecked(e) ==
  /\ events' = [events EXCEPT ![PostSlot] = e]
  /\ nevents' = nevents + 1
  /\ given' = e
  /\ UNCHANGED fevent

\* process_post: the caller is told of a full queue and goes on.
Post(e) ==
  IF nevents = NUMEVENTS
    THEN UNCHANGED queueVars
    ELSE /\ events' = [events EXCEPT ![PostSlot] = e]
         /\ nevents' = nevents + 1
         /\ given' = e
         /\ UNCHANGED fevent

TakeEvent ==
  /\ fevent' = (fevent + 1) % NUMEVENTS
  /\ nevents' = nevents - 1
  /\ UNCHANGED <<events, given>>

-----------------------------------------------------------------------------
(* What a run of process p may do *)

\* process_poll, by a process or by an interrupt.
RequestPoll(q) ==
  IF running[q]
    THEN needspoll' = [needspoll EXCEPT ![q] = TRUE] /\ poll_requested' = TRUE
    ELSE UNCHANGED pollVars

\* Mutant of StartProcess: the list is not searched for the process first.
StartProcessTwice(q) ==
  /\ process_list' = <<q>> \o process_list
  /\ running' = [running EXCEPT ![q] = TRUE]
  /\ UNCHANGED stale_next

\* process_start: a process that is listed already is left alone.
StartProcess(q) ==
  IF q \in Listed
    THEN UNCHANGED listVars
    ELSE /\ process_list' = <<q>> \o process_list
         /\ running' = [running EXCEPT ![q] = TRUE]
         /\ UNCHANGED stale_next

\* Mutant of ExitProcess: the next pointer of the process is cleared.
ExitProcessClear(q) ==
  IF q \notin Listed
    THEN UNCHANGED listVars
    ELSE /\ process_list' = Unlink(process_list, q)
         /\ stale_next' = [stale_next EXCEPT ![q] = NULL]
         /\ running' = [running EXCEPT ![q] = FALSE]

\* exit_process; the next pointer of the process is left as it is.
ExitProcess(q) ==
  IF q \notin Listed
    THEN UNCHANGED listVars
    ELSE /\ process_list' = Unlink(process_list, q)
         /\ stale_next' = [stale_next EXCEPT ![q] = NextOf(q)]
         /\ running' = [running EXCEPT ![q] = FALSE]

\* process_exit by the process that runs: when its thread waits again, call_process
\* sets its state to PROCESS_STATE_RUNNING although it has been unlinked.  It stays
\* CALLED, and is called no more, when a later call ends its thread: nothing can tell
\* it from a process whose calls do nothing, so running stays TRUE.
ExitSelf(p) ==
  IF p \notin Listed
    THEN UNCHANGED listVars
    ELSE /\ process_list' = Unlink(process_list, p)
         /\ stale_next' = [stale_next EXCEPT ![p] = NextOf(p)]
         /\ UNCHANGED running

\* A run of p: it waits, posts, polls, starts, ends another process or itself.
Operate(p) ==
  \/ UNCHANGED <<queueVars, pollVars, listVars>>
  \/ /\ \E q \in Proc \cup {NULL}, e \in Msg : Post([ev |-> e, p |-> q])
     /\ UNCHANGED <<pollVars, listVars>>
  \/ /\ \E q \in Proc : RequestPoll(q)
     /\ UNCHANGED <<queueVars, listVars>>
  \/ /\ (\E q \in Proc : StartProcess(q) \/ ExitProcess(q)) \/ ExitSelf(p)
     /\ UNCHANGED <<queueVars, pollVars>>

\* An event is being broadcast.
Casting == event_p # NULL /\ pc # "dispatch"

\* call_process: only a process that is running is called.  A poll handler takes
\* all the work its driver has left (taken).
CallProcess(p, taken) ==
  /\ IF running[p] THEN Operate(p) ELSE UNCHANGED <<queueVars, pollVars, listVars>>
  /\ work' = (work \ taken) \cap Elements(process_list')
  /\ audience' = audience \cap Elements(process_list')
  /\ joined' = (joined \/ (Casting /\ ~ Elements(process_list') \subseteq Listed))

-----------------------------------------------------------------------------
(* process_run, do_poll and do_event *)

\* The head of do_poll.
BeginPoll ==
  /\ poll_requested' = FALSE
  /\ poll_p' = First(process_list)
  /\ pc' = "poll"

RunPoll ==
  /\ pc = "run"
  /\ poll_requested
  /\ BeginPoll
  /\ UNCHANGED <<queueVars, listVars, needspoll, event_p, work, castVars>>

RunEvent ==
  /\ pc = "run"
  /\ ~poll_requested
  /\ pc' = "event"
  /\ UNCHANGED <<queueVars, listVars, pollVars, poll_p, event_p, work, castVars>>

PollSkip ==
  /\ pc = "poll"
  /\ poll_p # NULL
  /\ ~needspoll[poll_p]
  /\ poll_p' = NextOf(poll_p)
  /\ UNCHANGED <<queueVars, listVars, pollVars, pc, event_p, work, castVars>>

\* needspoll is cleared before the process is called.
PollFound ==
  /\ pc = "poll"
  /\ poll_p # NULL
  /\ needspoll[poll_p]
  /\ running' = [running EXCEPT ![poll_p] = TRUE]
  /\ needspoll' = [needspoll EXCEPT ![poll_p] = FALSE]
  /\ pc' = "called"
  /\ UNCHANGED <<queueVars, process_list, stale_next, poll_requested, poll_p, event_p,
                 work, castVars>>

PollCall ==
  /\ pc = "called"
  /\ CallProcess(poll_p, {poll_p})
  /\ pc' = "handled"
  /\ UNCHANGED <<poll_p, event_p, reached>>

\* Mutant of PollReturn: needspoll is cleared after the call.
PollReturnClears ==
  /\ pc = "handled"
  /\ poll_p' = NextOf(poll_p)
  /\ needspoll' = [needspoll EXCEPT ![poll_p] = FALSE]
  /\ pc' = "poll"
  /\ UNCHANGED <<queueVars, listVars, poll_requested, event_p, work, castVars>>

PollReturn ==
  /\ pc = "handled"
  /\ poll_p' = NextOf(poll_p)
  /\ pc' = "poll"
  /\ UNCHANGED <<queueVars, listVars, pollVars, event_p, work, castVars>>

\* Mutant of PollEnd: process_run serves either polls or an event.
PollEndReturn ==
  /\ pc = "poll"
  /\ poll_p = NULL
  /\ pc' = IF event_p = NULL THEN "return" ELSE "deliver"
  /\ UNCHANGED <<queueVars, listVars, pollVars, poll_p, event_p, work, castVars>>

PollEnd ==
  /\ pc = "poll"
  /\ poll_p = NULL
  /\ pc' = IF event_p = NULL THEN "event" ELSE "deliver"
  /\ UNCHANGED <<queueVars, listVars, pollVars, poll_p, event_p, work, castVars>>

NoEventWaits ==
  /\ pc = "event"
  /\ nevents = 0
  /\ pc' = "return"
  /\ UNCHANGED <<queueVars, listVars, pollVars, poll_p, event_p, work, castVars>>

TakeForOne ==
  /\ pc = "event"
  /\ nevents > 0
  /\ events[fevent].p # NULL
  /\ TakeEvent
  /\ event_p' = events[fevent].p
  /\ pc' = "dispatch"
  /\ UNCHANGED <<listVars, pollVars, poll_p, work, castVars>>

Dispatch ==
  /\ pc = "dispatch"
  /\ CallProcess(event_p, {})
  /\ event_p' = NULL
  /\ pc' = "return"
  /\ UNCHANGED <<poll_p, reached>>

TakeForAll ==
  /\ pc = "event"
  /\ nevents > 0
  /\ events[fevent].p = NULL
  /\ TakeEvent
  /\ event_p' = First(process_list)
  /\ audience' = Listed
  /\ reached' = {}
  /\ joined' = FALSE
  /\ pc' = "broadcast"
  /\ UNCHANGED <<listVars, pollVars, poll_p, work>>

\* Polls come before each delivery of a broadcast event.
BroadcastPoll ==
  /\ pc = "broadcast"
  /\ event_p # NULL
  /\ poll_requested
  /\ BeginPoll
  /\ UNCHANGED <<queueVars, listVars, needspoll, event_p, work, castVars>>

BroadcastNext ==
  /\ pc = "broadcast"
  /\ event_p # NULL
  /\ ~poll_requested
  /\ pc' = "deliver"
  /\ UNCHANGED <<queueVars, listVars, pollVars, poll_p, event_p, work, castVars>>

Deliver ==
  /\ pc = "deliver"
  /\ CallProcess(event_p, {})
  /\ reached' = IF running[event_p] THEN reached \cup {event_p} ELSE reached
  /\ event_p' = NextIn(process_list', stale_next', event_p)
  /\ pc' = "broadcast"
  /\ UNCHANGED poll_p

BroadcastEnd ==
  /\ pc = "broadcast"
  /\ event_p = NULL
  /\ audience' = {}
  /\ reached' = {}
  /\ joined' = FALSE
  /\ pc' = "return"
  /\ UNCHANGED <<queueVars, listVars, pollVars, poll_p, event_p, work>>

-----------------------------------------------------------------------------
(* The main loop and the interrupts *)

Idle == nevents = 0 /\ ~poll_requested

\* The value of process_run decides whether to call it again.
Return ==
  /\ pc = "return"
  /\ pc' = IF Idle THEN "idle" ELSE "run"
  /\ UNCHANGED <<queueVars, listVars, pollVars, poll_p, event_p, work, castVars>>

\* Mutant of TryToSleep: process_nevents is not asked again with interrupts
\* disabled.
TryToSleepUnasked ==
  /\ pc = "idle"
  /\ pc' = "sleep"
  /\ UNCHANGED <<queueVars, listVars, pollVars, poll_p, event_p, work, castVars>>

\* With interrupts disabled: ask again, and sleep.
TryToSleep ==
  /\ pc = "idle"
  /\ pc' = IF Idle THEN "sleep" ELSE "run"
  /\ UNCHANGED <<queueVars, listVars, pollVars, poll_p, event_p, work, castVars>>

\* Mutant of Interrupt: only poll_requested is set.
InterruptNoFlag(p) ==
  /\ poll_requested' = (poll_requested \/ running[p])
  /\ work' = IF p \in Listed THEN work \cup {p} ELSE work
  /\ pc' = IF pc = "sleep" THEN "run" ELSE pc
  /\ UNCHANGED <<queueVars, listVars, needspoll, poll_p, event_p, castVars>>

\* A driver has work for p, asks for it to be polled and wakes the processor.
Interrupt(p) ==
  /\ RequestPoll(p)
  /\ work' = IF p \in Listed THEN work \cup {p} ELSE work
  /\ pc' = IF pc = "sleep" THEN "run" ELSE pc
  /\ UNCHANGED <<queueVars, listVars, poll_p, event_p, castVars>>

DoPoll  == PollSkip \/ PollFound \/ PollCall \/ PollReturn \/ PollEnd
DoEvent ==
  \/ NoEventWaits \/ TakeForOne \/ Dispatch
  \/ TakeForAll \/ BroadcastPoll \/ BroadcastNext \/ Deliver \/ BroadcastEnd
MainLoop == RunPoll \/ RunEvent \/ DoPoll \/ DoEvent \/ Return \/ TryToSleep

Next == MainLoop \/ \E p \in Proc : Interrupt(p)

Spec == Init /\ [][Next]_vars

\* The processor runs; interrupts need not come.
FairSpec == Spec /\ WF_vars(MainLoop)

-----------------------------------------------------------------------------
(* Properties *)

\* Type invariant of the kernel.
TypeOK ==
  /\ events \in [0 .. NUMEVENTS - 1 -> Events \cup {NoEvent}]
  /\ nevents \in 0 .. NUMEVENTS
  /\ fevent \in 0 .. NUMEVENTS - 1
  /\ given \in Events \cup {NoEvent}
  /\ process_list \in Seq(Proc)
  /\ stale_next \in [Proc -> Proc \cup {NULL}]
  /\ running \in [Proc -> BOOLEAN]
  /\ needspoll \in [Proc -> BOOLEAN]
  /\ poll_requested \in BOOLEAN
  /\ pc \in {"run", "poll", "called", "handled", "event", "dispatch", "broadcast", "deliver",
             "return", "idle", "sleep"}
  /\ poll_p \in Proc \cup {NULL}
  /\ event_p \in Proc \cup {NULL}
  /\ work \subseteq Proc
  /\ audience \subseteq Proc
  /\ reached \subseteq Proc
  /\ joined \in BOOLEAN

\* The ring holds the events in the order in which they were posted.
Queue == [i \in 1 .. nevents |-> events[(fevent + i - 1) % NUMEVENTS]]
EQ == INSTANCE EventQueue WITH queue <- Queue, Event <- Events, NoEvent <- NoEvent

\* The ring implements the queue (process.c:261-272, 335-350): no event is lost,
\* repeated or overtaken, also when the ring wraps and when it is full.
KeepsQueue == EQ!Spec

\* do_poll has yet to come to p.
PollAhead(p) ==
  LET next == IF pc = "poll" THEN poll_p ELSE NextOf(poll_p)
  IN  /\ pc \in {"poll", "called", "handled"}
      /\ {p, next} \subseteq Listed
      /\ Place(process_list, p) >= Place(process_list, next)

\* A poll requested by an interrupt, whatever instruction it hits, is never lost
\* (process.c:224-238, 370-380): until the poll handler runs, the flags make the
\* kernel come to the process.
NoLostPoll ==
  \A p \in work :
    \/ needspoll[p] /\ (poll_requested \/ PollAhead(p))
    \/ pc = "called" /\ poll_p = p

\* The processor sleeps only when no event waits and no driver has work for a
\* process (contiki-sky-main.c:442-453).
SleepsIdle == pc = "sleep" => nevents = 0 /\ work = {}

\* No process is in the list twice, which would close it to a ring, and those in
\* it can be called (process.c:98-121, 123-172).  The converse fails: see ExitSelf.
ListSound ==
  /\ \A i, j \in DOMAIN process_list : process_list[i] = process_list[j] => i = j
  /\ \A p \in Listed : running[p]

\* An event posted to all reaches every process that keeps running while it is
\* delivered, though handlers unlink the process the loop stands at, or its
\* neighbours (process.c:277-285).
BroadcastComplete == pc = "broadcast" /\ event_p = NULL => audience \subseteq reached

\* No process is given the same broadcast event twice, unless a process was started
\* meanwhile: that one is put in front, and the loop may come by again.
BroadcastOnce ==
  pc = "deliver" /\ ~joined /\ running[event_p] => event_p \notin reached

\* Events do not wait for ever behind polls (process.c:301-313): the event at the
\* front is taken, unless each handler of a broadcast starts the process before it
\* again, and the loop never ends.
EventsServed ==
  <>[]~joined =>
    \A i \in 0 .. NUMEVENTS - 1 : (nevents > 0 /\ fevent = i) ~> (fevent # i)

\* A driver's work is eventually taken up, unless its process ends.
PollsServed == \A p \in Proc : p \in work ~> p \notin work
=============================================================================
