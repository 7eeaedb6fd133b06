---------------------------- MODULE CallbackTimers ----------------------------
(***************************************************************************)
(* The callback timers of Contiki (core/sys/ctimer.c).  A callback timer   *)
(* is an event timer of ctimer_process and an element of ctimer_list; the  *)
(* event calls the function only if the timer is on the list.  What the    *)
(* function does is one of the calls any process may make afterwards.      *)
(***************************************************************************)
EXTENDS EventTimers

CONSTANTS
  Callback,      \* the callback timers
  ctimer_process

ASSUME CallbackAssumption == Callback \subseteq Timer /\ ctimer_process \in Proc

VARIABLES ctimer_list, initialized

ctimerVars == <<ctimer_list, initialized>>
allVars == <<vars, ctimerVars>>

Client == Proc \ {ctimer_process}

Without(t) == Keep(ctimer_list, Callback \ {t})

CInit ==
  /\ Init
  /\ ctimer_list = << >>
  /\ initialized = FALSE

-----------------------------------------------------------------------------
\* Calls of processes.  ctimer_set before ctimer_process runs only notes the
\* interval.
CSet(c, i) ==
  /\ IF initialized
       THEN Set(ctimer_process, c, i)
       ELSE /\ interval' = [interval EXCEPT ![c] = i]
            /\ UNCHANGED <<start, due, listVars, needspoll>>
  /\ ctimer_list' = Append(Without(c), c)

\* Before ctimer_process runs, a timer that was set is only put on the list.
Relist(c) == interval[c] \in Interval /\ UNCHANGED <<clockVars, listVars, needspoll>>

CReset(c) ==
  /\ IF initialized THEN Reset(ctimer_process, c, interval[c]) ELSE Relist(c)
  /\ ctimer_list' = Append(Without(c), c)

CRestart(c) ==
  /\ IF initialized THEN Restart(ctimer_process, c) ELSE Relist(c)
  /\ ctimer_list' = Append(Without(c), c)

\* Mutant of CStop: the timer stays on ctimer_list.
CStopListed(c) ==
  /\ IF initialized THEN Stop(c)
     ELSE owner' = [owner EXCEPT ![c] = NONE]
          /\ UNCHANGED <<clockVars, timerlist, next_expiration, needspoll>>
  /\ UNCHANGED ctimer_list

CStop(c) ==
  /\ IF initialized THEN Stop(c)
     ELSE owner' = [owner EXCEPT ![c] = NONE]
          /\ UNCHANGED <<clockVars, timerlist, next_expiration, needspoll>>
  /\ ctimer_list' = Without(c)

CUse ==
  /\ \E c \in Callback :
       (\E i \in Interval : CSet(c, i)) \/ CReset(c) \/ CRestart(c) \/ CStop(c)
  /\ UNCHANGED <<count, queue, alive, initialized>>

-----------------------------------------------------------------------------
\* Mutant of CBoot: timers asked for before are not set.
CBootOnly ==
  /\ ~initialized
  /\ initialized' = TRUE
  /\ UNCHANGED <<vars, ctimer_list>>

\* The first run of ctimer_process sets the timers asked for so far.
CBoot ==
  LET set == Elements(ctimer_list)
  IN  /\ ~initialized
      /\ initialized' = TRUE
      /\ start' = [t \in Timer |-> IF t \in set THEN count ELSE start[t]]
      /\ due' = [t \in Timer |-> IF t \in set THEN interval[t] ELSE due[t]]
      /\ owner' = [t \in Timer |-> IF t \in set THEN ctimer_process ELSE owner[t]]
      /\ timerlist' = Backwards(ctimer_list) \o timerlist
      /\ next_expiration' = UpdateTime(timerlist', start', interval)
      /\ needspoll' = (needspoll \/ set # {})
      /\ UNCHANGED <<count, interval, queue, alive, ctimer_list>>

\* PROCESS_EVENT_TIMER: a timer on the list leaves it and its function is called.
CTake ==
  /\ Take
  /\ ctimer_list' = Without(Head(queue).t)
  /\ UNCHANGED initialized

CTick == Tick /\ UNCHANGED ctimerVars
CPollTimers == PollTimers /\ UNCHANGED ctimerVars

\* The other processes, with event timers of their own.
Clients ==
  /\ \E p \in Client : Use(p, Timer \ Callback) \/ Exit(p) \/ Start(p)
  /\ UNCHANGED ctimerVars

CNext == CUse \/ CBoot \/ CTake \/ CTick \/ CPollTimers \/ Clients

CSpec == CInit /\ [][CNext]_allVars

CFairSpec ==
  /\ CSpec
  /\ WF_allVars(CTick) /\ WF_allVars(CTake) /\ WF_allVars(CPollTimers) /\ WF_allVars(CBoot)

-----------------------------------------------------------------------------
(* Properties *)

Called(c) == queue # << >> /\ Head(queue).t = c /\ c \in Elements(ctimer_list)

\* A callback that is asked for stays possible: its timer runs, or its event is in
\* the queue, however often it was set, stopped and set again meanwhile
\* (ctimer.c:73-86, 106-158).
CallbackAhead ==
  initialized => \A c \in Elements(ctimer_list) :
    c \in Listed \/ \E i \in DOMAIN queue : queue[i].t = c

\* ctimer.h:108-110: "This function is used to set a callback timer for a time
\* sometime in the future. When the callback timer expires, the callback function f
\* will be called with ptr as argument."  It is not called before.
CalledWhenDue ==
  [][\A c \in Callback : Called(c) /\ queue' = Tail(queue) => due[c] <= 0]_allVars

\* A callback that is due comes, unless it is stopped or put off.
CallbackComes == \A c \in Callback :
  (initialized /\ c \in Elements(ctimer_list) /\ due[c] <= 0)
    ~> ~(c \in Elements(ctimer_list) /\ due[c] <= 0)
=============================================================================
