----------------------------- MODULE EventTimers -----------------------------
(***************************************************************************)
(* The event timers of Contiki (core/sys/etimer.c, core/sys/timer.c) with  *)
(* the clock interrupt of the sky mote (cpu/msp430/f1xxx/clock.c).  The    *)
(* clock counts modulo W and its interrupt asks for a poll of              *)
(* etimer_process when next_expiration has come.  A run of a process does  *)
(* one thing with one timer.  The event queue is a bounded sequence, as    *)
(* ProcessKernel implements it; only the events of timers are represented. *)
(***************************************************************************)
EXTENDS Integers, Lists

CONSTANTS
  Timer,       \* the event timers
  Proc,        \* the processes that use them
  NONE,        \* PROCESS_NONE
  W,           \* clock_time_t counts modulo W
  Interval,    \* the intervals that are asked for
  Adjustment,  \* the time differences given to etimer_adjust
  MaxLate,     \* bound: how long the processor is ever too busy to poll
  NUMEVENTS    \* PROCESS_CONF_NUMEVENTS

ASSUME NoneAssumption  == NONE \notin Timer /\ NONE \notin Proc
\* The clock is an unsigned number of some bits.
ASSUME ClockAssumption == W \in Nat \ {0} /\ W % 2 = 0 /\ MaxLate \in Nat
ASSUME QueueAssumption == NUMEVENTS \in Nat \ {0}
\* A timer must be seen to have expired before the clock comes round; and the clock
\* interrupt takes next_expiration for passed during half a round only, so that a
\* longer interval can be missed when Exit leaves an old next_expiration.
ASSUME IntervalAssumption ==
  \A i \in Interval : i \in Nat /\ i + MaxLate < W - 1 /\ 2 * i < W

ASSUME AdjustmentAssumption == Adjustment \subseteq Int

VARIABLES
  count,            \* the clock
  timerlist,
  owner,            \* t->p
  start, interval,  \* t->timer
  next_expiration,
  needspoll,        \* of etimer_process
  queue,            \* the event queue
  alive,            \* the processes that run
  due               \* history: the time left until the timer is to expire

clockVars == <<start, interval, due>>
listVars  == <<timerlist, owner, next_expiration>>
vars == <<count, clockVars, listVars, needspoll, queue, alive>>

Event == [p : Proc, t : Timer]

MAX_TICKS == (W - 1) \div 2

Listed == Elements(timerlist)

Init ==
  /\ count = 0
  /\ timerlist = << >>
  /\ owner = [t \in Timer |-> NONE]
  /\ start = [t \in Timer |-> 0]
  /\ interval = [t \in Timer |-> 0]
  /\ next_expiration = 0
  /\ needspoll = FALSE
  /\ queue = << >>
  /\ alive = Proc
  /\ due = [t \in Timer |-> -MaxLate - 1]

-----------------------------------------------------------------------------
(* Time *)

\* Mutant of Expired: the clock is compared with the expiration time.
ExpiredCompare(t) == (start[t] + interval[t]) % W <= count

\* timer_expired: diff = clock_time() - start + 1 in W.
Expired(t) == interval[t] < (count - start[t] + 1) % W

\* Mutant of UpdateTime: expiration times are compared, not distances.
UpdateTimeCompare(list, s, i) ==
  LET expiration == {(s[t] + i[t]) % W : t \in Elements(list)}
  IN  IF list = << >> THEN 0
      ELSE CHOOSE x \in expiration : \A y \in expiration : x <= y

\* update_time: distances from now are compared in W.
UpdateTime(list, s, i) ==
  LET distance == {(s[t] + i[t] - count) % W : t \in Elements(list)}
      tdist == CHOOSE d \in distance : \A e \in distance : d <= e
  IN  IF list = << >> THEN 0 ELSE (count + tdist) % W

\* Mutant of PollDue: a poll only at the very tick.
PollDueExact(now) == timerlist # << >> /\ next_expiration = now

\* The test of the clock interrupt, at the new time.
PollDue(now) == timerlist # << >> /\ (next_expiration - now - 1) % W > MAX_TICKS

\* The clock interrupt.  Timers off the list may be late without limit: due
\* stops at -MaxLate - 1 for them.
Tick ==
  /\ \A t \in Listed : due[t] > -MaxLate
  /\ count' = (count + 1) % W
  /\ due' = [t \in Timer |-> IF due[t] < -MaxLate THEN due[t] ELSE due[t] - 1]
  /\ needspoll' = (needspoll \/ PollDue(count'))
  /\ UNCHANGED <<start, interval, listVars, queue, alive>>

-----------------------------------------------------------------------------
(* etimer_process *)

Room == NUMEVENTS - Len(queue)

TimerEvents(ts) == [i \in DOMAIN ts |-> [p |-> owner[ts[i]], t |-> ts[i]]]

\* Mutant of PollTimers: a full queue is not polled for again.
PollTimersOnce ==
  LET expired == Keep(timerlist, {t \in Timer : Expired(t)})
      posted  == SubSeq(expired, 1, IF Len(expired) < Room THEN Len(expired) ELSE Room)
  IN  /\ needspoll
      /\ queue' = queue \o TimerEvents(posted)
      /\ timerlist' = Keep(timerlist, Timer \ Elements(posted))
      /\ owner' = [t \in Timer |-> IF t \in Listed \ Elements(timerlist') THEN NONE ELSE owner[t]]
      /\ next_expiration' = IF timerlist' = timerlist THEN next_expiration
                            ELSE UpdateTime(timerlist', start, interval)
      /\ needspoll' = FALSE
      /\ UNCHANGED <<count, clockVars, alive>>

\* PROCESS_EVENT_POLL: the timers that have expired are posted, in the order of the
\* list, until the queue is full; then the process asks to be polled again.
PollTimers ==
  LET expired == Keep(timerlist, {t \in Timer : Expired(t)})
      posted  == SubSeq(expired, 1, IF Len(expired) < Room THEN Len(expired) ELSE Room)
  IN  /\ needspoll
      /\ queue' = queue \o TimerEvents(posted)
      /\ timerlist' = Keep(timerlist, Timer \ Elements(posted))
      /\ owner' = [t \in Timer |-> IF t \in Listed \ Elements(timerlist') THEN NONE ELSE owner[t]]
      /\ next_expiration' = IF timerlist' = timerlist THEN next_expiration
                            ELSE UpdateTime(timerlist', start, interval)
      /\ needspoll' = (posted # expired)
      /\ UNCHANGED <<count, clockVars, alive>>

\* Mutant of Orphans: removal goes on past the element it put in place.
OrphansSkip(p) ==
  {t \in Listed : owner[t] = p
     /\ \A i \in 2 .. Len(timerlist) : timerlist[i] = t => owner[timerlist[i - 1]] # p}

Orphans(p) == {t \in Listed : owner[t] = p}

\* PROCESS_EVENT_EXITED; next_expiration is left alone.
Exit(p) ==
  /\ p \in alive
  /\ alive' = alive \ {p}
  /\ timerlist' = Keep(timerlist, Timer \ Orphans(p))
  /\ UNCHANGED <<count, clockVars, owner, next_expiration, needspoll, queue>>

Start(p) ==
  /\ p \notin alive
  /\ alive' = alive \cup {p}
  /\ UNCHANGED <<count, clockVars, listVars, needspoll, queue>>

-----------------------------------------------------------------------------
(* What a process does with a timer *)

\* Mutant of AddTimer: a timer that is listed is put in front again.
AddTimerTwice(p, t) ==
  /\ needspoll' = TRUE
  /\ owner' = [owner EXCEPT ![t] = p]
  /\ timerlist' = <<t>> \o timerlist
  /\ next_expiration' = UpdateTime(timerlist', start', interval')

AddTimer(p, t) ==
  /\ needspoll' = TRUE
  /\ owner' = [owner EXCEPT ![t] = p]
  /\ timerlist' = IF owner[t] # NONE /\ t \in Listed THEN timerlist ELSE <<t>> \o timerlist
  /\ next_expiration' = UpdateTime(timerlist', start', interval')

\* etimer_set
Set(p, t, i) ==
  /\ start' = [start EXCEPT ![t] = count]
  /\ interval' = [interval EXCEPT ![t] = i]
  /\ due' = [due EXCEPT ![t] = i]
  /\ AddTimer(p, t)

\* etimer_reset_with_new_interval and etimer_reset, of a timer that has expired
\* ("must not be executed before timer expired", timer.c:80), not too long ago.
Reset(p, t, i) ==
  /\ owner[t] = NONE
  /\ due[t] \in -MaxLate .. 0
  /\ start' = [start EXCEPT ![t] = (@ + interval[t]) % W]
  /\ interval' = [interval EXCEPT ![t] = i]
  /\ due' = [due EXCEPT ![t] = @ + i]
  /\ AddTimer(p, t)

\* etimer_restart, of a timer that has been set.
Restart(p, t) == interval[t] \in Interval /\ Set(p, t, interval[t])

\* etimer_stop
Stop(t) ==
  /\ timerlist' = Keep(timerlist, Timer \ {t})
  /\ next_expiration' = IF t \in Listed THEN UpdateTime(timerlist', start, interval)
                        ELSE next_expiration
  /\ owner' = [owner EXCEPT ![t] = NONE]
  /\ UNCHANGED <<clockVars, needspoll>>

\* etimer_adjust, of a timer that is pending, within its interval.  Moved past the
\* present a timer is not polled for; moved so that its start lies in the future it
\* has expired at once.
Adjust(t, d) ==
  /\ t \in Listed
  /\ due[t] + d \in 1 .. interval[t]
  /\ start' = [start EXCEPT ![t] = (@ + d) % W]
  /\ due' = [due EXCEPT ![t] = @ + d]
  /\ next_expiration' = UpdateTime(timerlist, start', interval)
  /\ UNCHANGED <<interval, timerlist, owner, needspoll>>

\* Process p, with its timers T.
Use(p, T) ==
  /\ p \in alive
  /\ \E t \in T :
       \/ \E i \in Interval : Set(p, t, i) \/ Reset(p, t, i)
       \/ Restart(p, t)
       \/ Stop(t)
       \/ \E d \in Adjustment : Adjust(t, d)
  /\ UNCHANGED <<count, queue, alive>>

-----------------------------------------------------------------------------
(* The kernel *)

\* What the receiver does with the event is an action of its own (Use).
Take ==
  /\ queue # << >>
  /\ queue' = Tail(queue)
  /\ UNCHANGED <<count, clockVars, listVars, needspoll, alive>>

Next ==
  \/ Tick \/ PollTimers \/ Take
  \/ \E p \in Proc : Use(p, Timer) \/ Exit(p) \/ Start(p)

Spec == Init /\ [][Next]_vars

-----------------------------------------------------------------------------
(* Properties *)

\* Type invariant of the timers.
TypeOK ==
  /\ count \in 0 .. W - 1
  /\ timerlist \in Seq(Timer)
  /\ \A i, j \in DOMAIN timerlist : timerlist[i] = timerlist[j] => i = j
  /\ owner \in [Timer -> Proc \cup {NONE}]
  /\ start \in [Timer -> 0 .. W - 1]
  /\ interval \in [Timer -> Interval \cup {0}]
  /\ next_expiration \in 0 .. W - 1
  /\ needspoll \in BOOLEAN
  /\ queue \in Seq(Event)
  /\ Len(queue) <= NUMEVENTS
  /\ alive \subseteq Proc
  /\ due \in [Timer -> Int]

\* While a timer is overdue a poll of etimer_process is pending, whatever was set,
\* stopped or removed since and however the clock wrapped (clock.c:97-99).
OverduePolled == \A t \in Listed : due[t] <= 0 => needspoll

\* A timer on the list belongs to a process that runs: the walk of the list at
\* PROCESS_EVENT_EXITED misses none (etimer.c:91-107).  Only processes that run set
\* timers here, not the last run of one that exits.
NoOrphans == \A t \in Listed : owner[t] \in alive

\* etimer.h:92-95: "set an event timer for a time sometime in the future. When the
\* event timer expires, the event PROCESS_EVENT_TIMER will be posted": never before.
FiresWhenDue ==
  [][\A t \in Listed : t \notin Elements(timerlist') /\ Len(queue') > Len(queue)
                         => due[t] <= 0]_vars

\* A timer that is overdue does not stay so: its event is posted, or it is stopped
\* or set again.
OverdueFires == \A t \in Timer :
  (t \in Listed /\ due[t] <= 0) ~> ~(t \in Listed /\ due[t] <= 0)
=============================================================================
