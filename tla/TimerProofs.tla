----------------------------- MODULE TimerProofs -----------------------------
(***************************************************************************)
(* What the modules EventTimers and CallbackTimers promise of the timers,  *)
(* proved for every number of timers and processes, every size of the      *)
(* event queue and every even size of the clock.                           *)
(***************************************************************************)
EXTENDS CallbackTimers, ListFacts

Clock == 0 .. W - 1

-----------------------------------------------------------------------------
(* Arithmetic of the clock *)

\* Reduction modulo W, of what is less than a round away.
LEMMA Wrap ==
  ASSUME NEW x \in Int, -W <= x, x < 2 * W
  PROVE  /\ x % W \in Clock
         /\ x % W = IF x < 0 THEN x + W ELSE IF x < W THEN x ELSE x - W
BY ClockAssumption, SMTT(60) DEF Clock

LEMMA WrapSum ==
  ASSUME NEW x \in Clock, NEW y \in Clock
  PROVE  /\ (x + y) % W \in Clock
         /\ (x + y) % W = IF x + y < W THEN x + y ELSE x + y - W
<1> DEFINE z == x + y
<1>1. z \in Int /\ 0 <= z /\ z < 2 * W /\ -W <= z
  BY ClockAssumption DEF Clock
<1> HIDE DEF z
<1>2. z % W \in Clock /\ z % W = IF z < W THEN z ELSE z - W
  BY <1>1, Wrap
<1>3. QED BY <1>2, ClockAssumption DEF z, Clock

LEMMA HalfRound ==
  /\ W \in Nat /\ MaxLate \in Nat /\ W >= 2
  /\ \A i \in Interval : i \in Nat /\ i + MaxLate < W - 1 /\ 2 * i < W /\ i <= MAX_TICKS
BY ClockAssumption, IntervalAssumption, SMTT(60) DEF MAX_TICKS

\* A timer with start s and interval i is to expire in d ticks from c.
Timed(s, i, d, c) == i \in Interval /\ d <= i /\ s + (i - d) \in {c, c + W}

LEMMA TimedSet ==
  ASSUME NEW c \in Clock, NEW i \in Interval
  PROVE  Timed(c, i, i, c)
BY HalfRound DEF Timed, Clock

LEMMA TimedReset ==
  ASSUME NEW c \in Clock, NEW s \in Clock, NEW i, NEW d \in -MaxLate .. 0,
         Timed(s, i, d, c), NEW j \in Interval
  PROVE  (s + i) % W \in Clock /\ Timed((s + i) % W, j, d + j, c)
<1>1. i \in Nat /\ j \in Nat /\ i < W /\ s \in Int /\ d \in Int /\ c \in Int
  BY HalfRound DEF Timed, Clock
<1>2. /\ (s + i) % W \in Clock
      /\ (s + i) % W = IF s + i < W THEN s + i ELSE s + i - W
  BY <1>1, Wrap, HalfRound DEF Clock
<1>3. QED BY <1>1, <1>2, HalfRound DEF Timed, Clock

LEMMA TimedAdjust ==
  ASSUME NEW c \in Clock, NEW s \in Clock, NEW i, NEW d \in Int, NEW a \in Int,
         Timed(s, i, d, c), d >= -MaxLate, d + a \in 1 .. i
  PROVE  (s + a) % W \in Clock /\ Timed((s + a) % W, i, d + a, c)
<1>1. i \in Nat /\ i + MaxLate < W - 1 /\ s \in Int /\ c \in Int
  BY HalfRound DEF Timed, Clock
<1>2. -W <= s + a /\ s + a < 2 * W
  BY <1>1, HalfRound DEF Timed, Clock
<1>3. /\ (s + a) % W \in Clock
      /\ (s + a) % W \in {s + a + W, s + a, s + a - W}
  BY <1>1, <1>2, Wrap, HalfRound
<1>4. QED BY <1>1, <1>3, HalfRound DEF Timed, Clock

LEMMA TimedTick ==
  ASSUME NEW c \in Clock, NEW s \in Clock, NEW i, NEW d \in Int,
         Timed(s, i, d, c), d - 1 >= -MaxLate
  PROVE  Timed(s, i, d - 1, (c + 1) % W)
<1>1. i \in Nat /\ i + MaxLate < W - 1 /\ s \in Int /\ c \in Int
  BY HalfRound DEF Timed, Clock
<1>2. (c + 1) % W = IF c + 1 < W THEN c + 1 ELSE c + 1 - W
  BY WrapSum, HalfRound DEF Clock
<1>3. QED BY <1>1, <1>2, HalfRound DEF Timed, Clock

\* The comparison of timer_expired.
LEMMA TimedExpired ==
  ASSUME NEW c \in Clock, NEW s \in Clock, NEW i, NEW d \in Int,
         Timed(s, i, d, c), d >= -MaxLate
  PROVE  i < (c - s + 1) % W <=> d <= 0
<1>1. i \in Nat /\ i + MaxLate < W - 1 /\ s \in Int /\ c \in Int
  BY HalfRound DEF Timed, Clock
<1>2. i - d \in Nat /\ i - d + 1 < W /\ c - s + 1 \in {i - d + 1, i - d + 1 - W}
  BY <1>1, HalfRound DEF Timed, Clock
<1>3. (c - s + 1) % W = i - d + 1
  BY <1>1, <1>2, Wrap, HalfRound
<1>4. QED BY <1>1, <1>2, <1>3

\* A timer listed is not looked for later than it expires: next_expiration is g
\* ticks before that, g no more than its interval.
Foreseen(s, i, next) == \E g \in 0 .. i : s + i - next - g \in {0, W}

\* The test of the clock interrupt finds a timer that expires at this tick.
LEMMA TickSeen ==
  ASSUME NEW c \in Clock, NEW s \in Clock, NEW i, Timed(s, i, 1, c),
         NEW next \in Clock, Foreseen(s, i, next)
  PROVE  (next - ((c + 1) % W) - 1) % W > MAX_TICKS
<1>1. /\ i \in Nat /\ 2 * i < W /\ i <= MAX_TICKS
      /\ s \in Int /\ c \in Int /\ next \in Int
  BY HalfRound DEF Timed, Clock
<1>2. PICK g \in 0 .. i : s + i - next - g \in {0, W}
  BY DEF Foreseen
<1>3. g \in Nat /\ g <= i
  BY <1>1
<1>4. (c + 1) % W = IF c + 1 < W THEN c + 1 ELSE c + 1 - W
  BY WrapSum, HalfRound DEF Clock
<1>5. next - ((c + 1) % W) - 1 \in {-g - 1, W - g - 1}
  BY <1>1, <1>2, <1>3, <1>4, HalfRound DEF Timed, Clock
<1>6. (next - ((c + 1) % W) - 1) % W = W - g - 1
  BY <1>1, <1>3, <1>5, Wrap, HalfRound
<1>7. W - g - 1 > MAX_TICKS
  BY <1>1, <1>3, ClockAssumption, SMTT(60) DEF MAX_TICKS
<1>8. QED BY <1>6, <1>7

\* A next_expiration that is set for the nearest timer, m ticks from now, foresees the others.
LEMMA NearerForeseen ==
  ASSUME NEW c \in Clock, NEW s \in Clock, NEW i, NEW d \in Int, d > 0, Timed(s, i, d, c),
         NEW m \in Clock, m <= (s + i - c) % W
  PROVE  Foreseen(s, i, (c + m) % W)
<1>1. /\ i \in Nat /\ 2 * i < W /\ d <= i /\ s + i - c \in {d, d + W}
      /\ s \in Int /\ c \in Int /\ m \in Int
  BY HalfRound DEF Timed, Clock
<1>2. (s + i - c) % W = d
  BY <1>1, Wrap, HalfRound
<1>4. (c + m) % W = IF c + m < W THEN c + m ELSE c + m - W
  BY WrapSum
<1>5. d - m \in 0 .. i /\ m <= d
  BY <1>1, <1>2 DEF Clock
<1>6. s + i - ((c + m) % W) - (d - m) \in {0, W}
  BY <1>1, <1>4, <1>5, HalfRound DEF Clock
<1>7. QED BY <1>5, <1>6 DEF Foreseen

\* update_time: no timer is nearer than the distance it finds.
LEMMA Nearest ==
  ASSUME NEW list \in Seq(Timer), NEW s \in [Timer -> Clock],
         NEW i \in [Timer -> Interval \cup {0}], count \in Clock
  PROVE  /\ UpdateTime(list, s, i) \in Clock
         /\ list # << >> =>
              \E m \in Clock :
                /\ UpdateTime(list, s, i) = (count + m) % W
                /\ \A t \in Elements(list) : m <= (s[t] + i[t] - count) % W
<1> DEFINE distance == {(s[t] + i[t] - count) % W : t \in Elements(list)}
           tdist == CHOOSE d \in distance : \A e \in distance : d <= e
<1>1. ASSUME NEW t \in Elements(list) PROVE (s[t] + i[t] - count) % W \in Clock
  <2>1. t \in Timer
    BY ListDomain
  <2>2. s[t] \in Clock /\ i[t] \in Nat /\ i[t] < W
    BY <2>1, HalfRound
  <2>3. s[t] + i[t] - count \in Int /\ -W <= s[t] + i[t] - count /\ s[t] + i[t] - count < 2 * W
    BY <2>2, HalfRound DEF Clock
  <2>4. QED BY <2>3, Wrap
<1>2. CASE list = << >>
  BY <1>2, HalfRound DEF UpdateTime, Clock
<1>3. CASE list # << >>
  <2>1. distance \in SUBSET Nat /\ distance \subseteq Clock
    BY <1>1, HalfRound DEF Clock
  <2>2. distance # {}
    <3>1. Elements(list) # {}
      BY <1>3 DEF Elements
    <3>2. QED BY <3>1
  <2>3. \E d \in distance : \A e \in distance : d <= e
    <3> HIDE DEF distance
    <3>1. QED BY <2>1, <2>2, LeastNat
  <2>4. tdist \in distance /\ \A e \in distance : tdist <= e
    <3> HIDE DEF distance
    <3>1. QED BY <2>3
  <2>5. UpdateTime(list, s, i) = (count + tdist) % W
    BY <1>3 DEF UpdateTime
  <2> HIDE DEF tdist
  <2>6. tdist \in Clock /\ \A t \in Elements(list) : tdist <= (s[t] + i[t] - count) % W
    BY <2>1, <2>4
  <2>7. (count + tdist) % W \in Clock
    BY <2>6, Wrap, HalfRound DEF Clock
  <2>8. QED BY <1>3, <2>5, <2>6, <2>7
<1>4. QED BY <1>2, <1>3

LEMMA Foresees ==
  ASSUME NEW list \in Seq(Timer), NEW s \in [Timer -> Clock],
         NEW i \in [Timer -> Interval \cup {0}], count \in Clock,
         NEW t \in Elements(list), NEW d \in Int, d > 0, Timed(s[t], i[t], d, count)
  PROVE  Foreseen(s[t], i[t], UpdateTime(list, s, i))
<1>1. t \in Timer /\ list # << >>
  BY ListDomain DEF Elements
<1>2. PICK m \in Clock :
        /\ UpdateTime(list, s, i) = (count + m) % W
        /\ m <= (s[t] + i[t] - count) % W
  BY <1>1, Nearest
<1>3. s[t] \in Clock
  BY <1>1
<1>4. QED BY <1>2, <1>3, NearerForeseen

-----------------------------------------------------------------------------
(* The invariant of the event timers *)

\* What due says of a timer is what the clock says of its start and its interval,
\* unless the timer is off the list and too late for the clock to tell.
TimeSound == \A t \in Timer : due[t] >= -MaxLate => Timed(start[t], interval[t], due[t], count)

ListedSound == \A t \in Listed : due[t] >= -MaxLate

\* This is what makes OverduePolled inductive.  next_expiration need not be that of
\* the nearest timer, as Exit leaves it alone.
NextSound == \A t \in Listed : due[t] > 0 => Foreseen(start[t], interval[t], next_expiration)

TimersInv == TypeOK /\ NoOrphans /\ OverduePolled /\ TimeSound /\ ListedSound /\ NextSound

LEMMA TypeFacts ==
  ASSUME TimersInv
  PROVE  /\ count \in Clock /\ next_expiration \in Clock /\ needspoll \in BOOLEAN
         /\ timerlist \in Seq(Timer) /\ Distinct(timerlist) /\ Listed \subseteq Timer
         /\ owner \in [Timer -> Proc \cup {NONE}]
         /\ start \in [Timer -> Clock]
         /\ interval \in [Timer -> Interval \cup {0}]
         /\ due \in [Timer -> Int]
         /\ queue \in Seq(Event) /\ Len(queue) <= NUMEVENTS
         /\ alive \subseteq Proc
<1>1. timerlist \in Seq(Timer) /\ Distinct(timerlist)
  BY DEF TimersInv, TypeOK, Distinct
<1>2. Listed \subseteq Timer
  BY <1>1, ListDomain DEF Listed
<1>3. QED BY <1>1, <1>2 DEF TimersInv, TypeOK, Clock

\* A timer on the list has expired for timer_expired when it has for the history.
LEMMA ExpiredDue ==
  ASSUME TimersInv, NEW t \in Listed
  PROVE  Expired(t) <=> due[t] <= 0
<1>1. /\ t \in Timer /\ count \in Clock /\ start[t] \in Clock /\ due[t] \in Int
      /\ due[t] >= -MaxLate /\ Timed(start[t], interval[t], due[t], count)
  BY TypeFacts DEF TimersInv, TimeSound, ListedSound
<1>2. QED BY <1>1, TimedExpired DEF Expired

\* An update of next_expiration foresees the timers that are listed after it.
LEMMA Renewed ==
  ASSUME count \in Clock, count' = count, timerlist' \in Seq(Timer),
         start' \in [Timer -> Clock], interval' \in [Timer -> Interval \cup {0}],
         due' \in [Timer -> Int], TimeSound', ListedSound',
         next_expiration' = UpdateTime(timerlist', start', interval')
  PROVE  next_expiration' \in Clock /\ NextSound'
<1>1. next_expiration' \in Clock
  BY Nearest
<1>2. ASSUME NEW t \in Elements(timerlist'), due'[t] > 0
      PROVE  Foreseen(start'[t], interval'[t], next_expiration')
  <2>1. t \in Timer
    BY ListDomain
  <2>2. due'[t] \in Int /\ Timed(start'[t], interval'[t], due'[t], count)
    BY <1>2, <2>1 DEF TimeSound, ListedSound, Listed
  <2>3. QED BY <1>2, <2>2, Foresees
<1>3. QED BY <1>1, <1>2 DEF NextSound, Listed

\* add_timer, of a timer to expire in d ticks.
LEMMA AddStep ==
  ASSUME TimersInv, NEW p \in alive, NEW t \in Timer, NEW s \in Clock, NEW i \in Interval,
         NEW d \in Int, d >= -MaxLate, Timed(s, i, d, count),
         start' = [start EXCEPT ![t] = s], interval' = [interval EXCEPT ![t] = i],
         due' = [due EXCEPT ![t] = d], AddTimer(p, t), UNCHANGED <<count, queue, alive>>
  PROVE  /\ TimersInv'
         /\ Elements(timerlist') = Listed \cup {t}
         /\ owner' = [owner EXCEPT ![t] = p]
<1> USE TypeFacts
<1>1. owner' = [owner EXCEPT ![t] = p] /\ needspoll' = TRUE
  BY DEF AddTimer
<1>2. /\ start' \in [Timer -> Clock] /\ interval' \in [Timer -> Interval \cup {0}]
      /\ due' \in [Timer -> Int] /\ owner' \in [Timer -> Proc \cup {NONE}]
  BY <1>1
<1>3. t \in Listed => owner[t] # NONE
  BY NoneAssumption DEF TimersInv, NoOrphans
<1>4. /\ timerlist' \in Seq(Timer) /\ Distinct(timerlist')
      /\ Elements(timerlist') = Listed \cup {t}
  <2>1. CASE t \in Listed
    BY <1>3, <2>1 DEF AddTimer, Listed
  <2>2. CASE t \notin Listed
    <3>1. timerlist' = <<t>> \o timerlist
      BY <2>2 DEF AddTimer
    <3>2. QED BY <2>2, <3>1, Prepend DEF Listed
  <2>3. QED BY <2>1, <2>2
<1>5. TimeSound'
  <2>1. ASSUME NEW u \in Timer, due'[u] >= -MaxLate
        PROVE  Timed(start'[u], interval'[u], due'[u], count')
    BY <2>1 DEF TimersInv, TimeSound
  <2>2. QED BY <2>1 DEF TimeSound
<1>6. ListedSound'
  BY <1>4 DEF TimersInv, ListedSound, Listed
<1>7. next_expiration' \in Clock /\ NextSound'
  BY <1>2, <1>4, <1>5, <1>6, Renewed DEF AddTimer
<1>8. NoOrphans'
  BY <1>1, <1>4 DEF TimersInv, NoOrphans, Listed
<1>9. OverduePolled'
  BY <1>1 DEF OverduePolled
<1>10. TypeOK'
  BY <1>1, <1>2, <1>4, <1>7 DEF TypeOK, Clock, Distinct
<1>11. QED BY <1>1, <1>4, <1>5, <1>6, <1>7, <1>8, <1>9, <1>10 DEF TimersInv

LEMMA SetStep ==
  ASSUME TimersInv, NEW p \in alive, NEW t \in Timer, NEW i \in Interval, Set(p, t, i),
         UNCHANGED <<count, queue, alive>>
  PROVE  /\ TimersInv'
         /\ Elements(timerlist') = Listed \cup {t}
         /\ owner' = [owner EXCEPT ![t] = p]
         /\ interval' = [interval EXCEPT ![t] = i]
<1>1. count \in Clock /\ i \in Int /\ i >= -MaxLate /\ Timed(count, i, i, count)
  BY TypeFacts, TimedSet, HalfRound
<1>2. QED BY <1>1, AddStep DEF Set

LEMMA ResetStep ==
  ASSUME TimersInv, NEW p \in alive, NEW t \in Timer, NEW i \in Interval, Reset(p, t, i),
         UNCHANGED <<count, queue, alive>>
  PROVE  /\ TimersInv'
         /\ Elements(timerlist') = Listed \cup {t}
         /\ owner' = [owner EXCEPT ![t] = p]
<1> DEFINE s == (start[t] + interval[t]) % W
           d == due[t] + i
<1>1. /\ count \in Clock /\ start[t] \in Clock /\ due[t] \in -MaxLate .. 0
      /\ start \in [Timer -> Clock] /\ due \in [Timer -> Int]
      /\ Timed(start[t], interval[t], due[t], count)
  <2>1. due[t] \in -MaxLate .. 0 /\ due[t] >= -MaxLate
    BY HalfRound DEF Reset
  <2>2. QED BY <2>1, TypeFacts DEF TimersInv, TimeSound
<1>2. s \in Clock /\ Timed(s, i, d, count)
  BY <1>1, TimedReset
<1>3. d \in Int /\ d >= -MaxLate
  BY <1>1, HalfRound
<1>4. start' = [start EXCEPT ![t] = s] /\ due' = [due EXCEPT ![t] = d]
  BY <1>1 DEF Reset
<1> HIDE DEF s, d
<1>5. QED BY <1>2, <1>3, <1>4, AddStep DEF Reset

LEMMA StopStep ==
  ASSUME TimersInv, NEW t \in Timer, Stop(t), UNCHANGED <<count, queue, alive>>
  PROVE  /\ TimersInv'
         /\ Elements(timerlist') = Listed \ {t}
         /\ owner' = [owner EXCEPT ![t] = NONE]
<1> USE TypeFacts
<1>1. /\ owner' = [owner EXCEPT ![t] = NONE] /\ owner' \in [Timer -> Proc \cup {NONE}]
      /\ UNCHANGED <<start, interval, due, needspoll>>
  BY DEF Stop, clockVars
<1>2. /\ timerlist' \in Seq(Timer) /\ Distinct(timerlist')
      /\ Elements(timerlist') = Listed \ {t}
  <2>1. timerlist' = Keep(timerlist, Timer \ {t})
    BY DEF Stop
  <2>2. Elements(timerlist') = Elements(timerlist) \cap (Timer \ {t})
    BY <2>1, KeepFact
  <2>3. timerlist' \in Seq(Timer) /\ Distinct(timerlist')
    BY <2>1, KeepFact
  <2>4. QED BY <2>2, <2>3 DEF Listed
<1>3. TimeSound'
  BY <1>1 DEF TimersInv, TimeSound
<1>4. ListedSound'
  BY <1>1, <1>2 DEF TimersInv, ListedSound, Listed
<1>5. next_expiration' \in Clock /\ NextSound'
  <2>1. CASE t \in Listed
    <3>1. next_expiration' = UpdateTime(timerlist', start', interval')
      BY <1>1, <2>1 DEF Stop
    <3>2. QED BY <1>1, <1>2, <1>3, <1>4, <3>1, Renewed
  <2>2. CASE t \notin Listed
    <3>1. next_expiration' = next_expiration
      BY <2>2 DEF Stop
    <3>2. QED BY <1>1, <1>2, <3>1 DEF TimersInv, NextSound, Listed
  <2>3. QED BY <2>1, <2>2
<1>6. NoOrphans'
  BY <1>1, <1>2 DEF TimersInv, NoOrphans, Listed
<1>7. OverduePolled'
  BY <1>1, <1>2 DEF TimersInv, OverduePolled, Listed
<1>8. TypeOK'
  BY <1>1, <1>2, <1>5 DEF TypeOK, Clock, Distinct
<1>9. QED BY <1>1, <1>2, <1>3, <1>4, <1>5, <1>6, <1>7, <1>8 DEF TimersInv

LEMMA AdjustStep ==
  ASSUME TimersInv, NEW t \in Timer, NEW a \in Adjustment, Adjust(t, a),
         UNCHANGED <<count, queue, alive>>
  PROVE  TimersInv' /\ UNCHANGED <<timerlist, owner>>
<1> USE TypeFacts
<1> DEFINE s == (start[t] + a) % W
           d == due[t] + a
<1>1. /\ start' = [start EXCEPT ![t] = s] /\ due' = [due EXCEPT ![t] = d]
      /\ UNCHANGED <<interval, timerlist, owner, needspoll>>
      /\ next_expiration' = UpdateTime(timerlist', start', interval')
  BY DEF Adjust
<1>2. s \in Clock /\ d \in Int /\ d > 0 /\ Timed(s, interval[t], d, count)
  <2>1. /\ t \in Listed /\ due[t] + a \in 1 .. interval[t] /\ a \in Int
        /\ due[t] \in Int /\ due[t] >= -MaxLate
        /\ start[t] \in Clock /\ Timed(start[t], interval[t], due[t], count)
    BY AdjustmentAssumption DEF Adjust, TimersInv, TimeSound, ListedSound
  <2>2. interval[t] \in Int
    BY HalfRound
  <2>3. QED BY <2>1, <2>2, TimedAdjust
<1> HIDE DEF s, d
<1>3. start' \in [Timer -> Clock] /\ due' \in [Timer -> Int]
  BY <1>1, <1>2
<1>4. TimeSound'
  BY <1>1, <1>2 DEF TimersInv, TimeSound
<1>5. ListedSound'
  BY <1>1, <1>2, HalfRound DEF TimersInv, ListedSound, Listed
<1>6. next_expiration' \in Clock /\ NextSound'
  BY <1>1, <1>3, <1>4, <1>5, Renewed
<1>7. NoOrphans'
  BY <1>1 DEF TimersInv, NoOrphans, Listed
<1>8. OverduePolled'
  BY <1>1, <1>2 DEF TimersInv, OverduePolled, Listed
<1>9. TypeOK'
  BY <1>1, <1>3, <1>6 DEF TypeOK, Clock, Distinct
<1>10. QED BY <1>1, <1>4, <1>5, <1>6, <1>7, <1>8, <1>9 DEF TimersInv

\* The clock interrupt.
LEMMA TickStep ==
  ASSUME TimersInv, Tick
  PROVE  TimersInv' /\ UNCHANGED <<timerlist, owner, interval, queue, alive>>
<1> USE TypeFacts
<1>1. /\ count' = (count + 1) % W
      /\ due' = [t \in Timer |-> IF due[t] < -MaxLate THEN due[t] ELSE due[t] - 1]
      /\ needspoll' = (needspoll \/ PollDue(count'))
      /\ UNCHANGED <<start, interval, timerlist, owner, next_expiration, queue, alive>>
  BY DEF Tick, listVars
<1>2. count' \in Clock
  <2>1. count \in Clock /\ 1 \in Clock
    BY HalfRound DEF Clock
  <2>2. QED BY <1>1, <2>1, WrapSum
<1>3. due' \in [Timer -> Int]
  BY <1>1
<1>4. ASSUME NEW t \in Listed PROVE due[t] > -MaxLate /\ due'[t] = due[t] - 1
  <2>1. due[t] > -MaxLate /\ t \in Timer /\ due[t] \in Int
    BY DEF Tick
  <2>2. QED BY <1>1, <2>1, HalfRound
<1>5. TimeSound'
  <2>1. ASSUME NEW t \in Timer, due'[t] >= -MaxLate
        PROVE  Timed(start[t], interval[t], due'[t], count')
    <3>1. due[t] \in Int /\ due'[t] = due[t] - 1 /\ due[t] >= -MaxLate
      BY <1>1, <2>1, HalfRound
    <3>2. Timed(start[t], interval[t], due[t], count)
      BY <3>1 DEF TimersInv, TimeSound
    <3>3. QED BY <1>1, <2>1, <3>1, <3>2, TimedTick
  <2>2. QED BY <1>1, <2>1 DEF TimeSound
<1>6. ListedSound'
  <2>1. ASSUME NEW t \in Listed PROVE due'[t] >= -MaxLate
    BY <1>4, HalfRound
  <2>2. QED BY <1>1, <2>1 DEF ListedSound, Listed
<1>7. NextSound'
  <2>1. ASSUME NEW t \in Listed, due'[t] > 0
        PROVE  Foreseen(start[t], interval[t], next_expiration)
    <3>1. due[t] > 0
      BY <1>4, <2>1
    <3>2. QED BY <3>1 DEF TimersInv, NextSound
  <2>2. QED BY <1>1, <2>1 DEF NextSound, Listed
<1>8. OverduePolled'
  <2>1. ASSUME NEW t \in Listed, due'[t] <= 0 PROVE needspoll'
    <3>1. due[t] \in Int /\ due'[t] = due[t] - 1
      BY <1>4
    <3>2. CASE due[t] <= 0
      BY <1>1, <3>2 DEF TimersInv, OverduePolled
    <3>3. CASE due[t] = 1
      <4>1. /\ start[t] \in Clock /\ Timed(start[t], interval[t], 1, count)
            /\ Foreseen(start[t], interval[t], next_expiration)
        BY <1>4, <3>3, HalfRound DEF TimersInv, TimeSound, NextSound
      <4>2. (next_expiration - ((count + 1) % W) - 1) % W > MAX_TICKS
        BY <4>1, TickSeen
      <4>3. timerlist # << >>
        BY DEF Listed, Elements
      <4>4. QED BY <1>1, <4>2, <4>3 DEF PollDue
    <3>4. QED BY <2>1, <3>1, <3>2, <3>3
  <2>2. QED BY <1>1, <2>1 DEF OverduePolled, Listed
<1>9. NoOrphans'
  BY <1>1 DEF TimersInv, NoOrphans, Listed
<1>10. needspoll' \in BOOLEAN
  BY <1>1 DEF PollDue
<1>11. TypeOK'
  BY <1>1, <1>2, <1>3, <1>10 DEF TypeOK, Clock, Distinct
<1>12. QED BY <1>1, <1>5, <1>6, <1>7, <1>8, <1>9, <1>11 DEF TimersInv

\* The poll: the timers that leave the list have expired, and their events are in
\* the queue.
LEMMA PollStep ==
  ASSUME TimersInv, PollTimers
  PROVE  /\ TimersInv'
         /\ Elements(timerlist') \subseteq Listed
         /\ \A t \in Listed \ Elements(timerlist') : due[t] <= 0
         /\ \A t \in Listed \ Elements(timerlist') :
              \E i \in DOMAIN queue' : queue'[i].t = t
         /\ \A i \in DOMAIN queue : i \in DOMAIN queue' /\ queue'[i] = queue[i]
         /\ \A t \in Timer : owner'[t] \in {owner[t], NONE}
         /\ UNCHANGED <<count, clockVars, alive>>
<1> USE TypeFacts
<1> DEFINE expired == Keep(timerlist, {t \in Timer : Expired(t)})
           n == IF Len(expired) < Room THEN Len(expired) ELSE Room
           posted == SubSeq(expired, 1, n)
<1>1. /\ queue' = queue \o TimerEvents(posted)
      /\ timerlist' = Keep(timerlist, Timer \ Elements(posted))
      /\ owner' = [t \in Timer |-> IF t \in Listed \ Elements(timerlist') THEN NONE ELSE owner[t]]
      /\ next_expiration' = IF timerlist' = timerlist THEN next_expiration
                            ELSE UpdateTime(timerlist', start, interval)
      /\ needspoll' = (posted # expired)
      /\ UNCHANGED <<count, clockVars, alive>>
  BY DEF PollTimers
<1>2. /\ expired \in Seq(Timer)
      /\ Elements(expired) = Listed \cap {t \in Timer : Expired(t)}
  BY KeepFact DEF Listed
<1>3. Room \in Nat /\ n \in 0 .. Len(expired) /\ n <= Room
  <2>1. Len(queue) \in Nat /\ Room \in Nat
    BY QueueAssumption DEF Room
  <2> HIDE DEF expired
  <2>2. Len(expired) \in Nat
    BY <1>2
  <2>3. QED BY <2>1, <2>2
<1> HIDE DEF expired, n
<1>4. /\ posted \in Seq(Timer) /\ Len(posted) = n
      /\ Elements(posted) \subseteq Elements(expired)
  BY <1>2, <1>3, FrontFact
<1> HIDE DEF posted
<1>5. /\ timerlist' \in Seq(Timer) /\ Distinct(timerlist')
      /\ Elements(timerlist') = Listed \ Elements(posted)
  <2>1. /\ timerlist' \in Seq(Timer) /\ Distinct(timerlist')
        /\ Elements(timerlist') = Elements(timerlist) \cap (Timer \ Elements(posted))
    BY <1>1, KeepFact
  <2>2. QED BY <2>1 DEF Listed
<1>6. \A t \in Elements(posted) : t \in Listed /\ Expired(t) /\ due[t] <= 0
  BY <1>2, <1>4, ExpiredDue
<1>7. /\ TimerEvents(posted) \in Seq(Event) /\ Len(TimerEvents(posted)) = n
      /\ DOMAIN posted = 1 .. n
      /\ \A i \in 1 .. n : TimerEvents(posted)[i].t = posted[i]
  <2>1. DOMAIN posted = 1 .. n /\ n \in Nat
    BY <1>3, <1>4
  <2>2. ASSUME NEW i \in 1 .. n PROVE [p |-> owner[posted[i]], t |-> posted[i]] \in Event
    <3>1. posted[i] \in Timer /\ posted[i] \in Listed
      BY <1>4, <1>6, <2>1 DEF Elements
    <3>2. owner[posted[i]] \in Proc
      BY <3>1 DEF TimersInv, NoOrphans
    <3>3. QED BY <3>1, <3>2 DEF Event
  <2>3. TimerEvents(posted) = [i \in 1 .. n |-> [p |-> owner[posted[i]], t |-> posted[i]]]
    BY <2>1 DEF TimerEvents
  <2>4. TimerEvents(posted) \in [1 .. n -> Event]
    BY <2>2, <2>3
  <2>5. QED BY <2>1, <2>3, <2>4
<1>8. /\ queue' \in Seq(Event) /\ Len(queue') = Len(queue) + n /\ Len(queue') <= NUMEVENTS
      /\ \A i \in 1 .. Len(queue) : queue'[i] = queue[i]
      /\ \A i \in 1 .. n : queue'[Len(queue) + i] = TimerEvents(posted)[i]
  <2> DEFINE more == TimerEvents(posted)
  <2>1. queue' = queue \o more /\ more \in Seq(Event) /\ Len(more) = n
    BY <1>1, <1>7
  <2> HIDE DEF more
  <2>2. Len(queue) \in Nat /\ n \in Nat /\ Len(queue) + n <= NUMEVENTS
    BY <1>3, QueueAssumption DEF Room
  <2>3. QED BY <2>1, <2>2 DEF more
<1>9. \A t \in Elements(posted) : \E i \in DOMAIN queue' : queue'[i].t = t
  <2>1. SUFFICES ASSUME NEW t \in Elements(posted)
                 PROVE  \E i \in DOMAIN queue' : queue'[i].t = t
    OBVIOUS
  <2>2. PICK i \in 1 .. n : posted[i] = t
    BY <1>7 DEF Elements
  <2>3. Len(queue) + i \in 1 .. Len(queue) + n /\ queue'[Len(queue) + i].t = t
    BY <1>3, <1>7, <1>8, <2>2
  <2>4. QED BY <1>8, <2>3
<1>10. owner' \in [Timer -> Proc \cup {NONE}] /\ \A t \in Elements(timerlist') : owner'[t] = owner[t]
  BY <1>1, <1>5
<1>11. UNCHANGED <<start, interval, due, count, alive>>
  BY <1>1 DEF clockVars
<1>12. TimeSound' /\ ListedSound'
  BY <1>5, <1>11 DEF TimersInv, TimeSound, ListedSound, Listed
<1>13. next_expiration' \in Clock /\ NextSound'
  <2>1. CASE timerlist' = timerlist
    BY <1>1, <1>11, <2>1 DEF TimersInv, NextSound, Listed
  <2>2. CASE timerlist' # timerlist
    <3>1. next_expiration' = UpdateTime(timerlist', start', interval')
      BY <1>1, <1>11, <2>2
    <3>2. QED BY <1>5, <1>11, <1>12, <3>1, Renewed
  <2>3. QED BY <2>1, <2>2
<1>14. OverduePolled'
  <2>1. ASSUME NEW t \in Elements(timerlist'), due[t] <= 0 PROVE posted # expired
    <3>1. t \in Listed /\ t \notin Elements(posted) /\ Expired(t) /\ t \in Timer
      BY <1>5, <2>1, ExpiredDue
    <3>2. t \in Elements(expired)
      BY <1>2, <3>1
    <3>3. QED BY <3>1, <3>2
  <2>2. QED BY <1>1, <1>11, <2>1 DEF OverduePolled, Listed
<1>15. NoOrphans'
  BY <1>5, <1>10, <1>11 DEF TimersInv, NoOrphans, Listed
<1>16. TypeOK'
  BY <1>1, <1>5, <1>8, <1>10, <1>11, <1>13 DEF TypeOK, Clock, Distinct
<1>17. TimersInv'
  BY <1>12, <1>13, <1>14, <1>15, <1>16 DEF TimersInv
<1>18. \A i \in DOMAIN queue : i \in DOMAIN queue' /\ queue'[i] = queue[i]
  <2>1. DOMAIN queue = 1 .. Len(queue) /\ DOMAIN queue' = 1 .. Len(queue') /\ Len(queue) \in Nat
    BY <1>8
  <2>2. QED BY <1>3, <1>8, <2>1
<1>19. \A t \in Timer : owner'[t] \in {owner[t], NONE}
  BY <1>1
<1>20. QED BY <1>1, <1>5, <1>6, <1>9, <1>17, <1>18, <1>19

LEMMA ExitStep ==
  ASSUME TimersInv, NEW p \in Proc, Exit(p)
  PROVE  /\ TimersInv'
         /\ Elements(timerlist') = {t \in Listed : owner[t] # p}
         /\ alive' = alive \ {p}
         /\ UNCHANGED <<owner, interval, due, queue>>
<1> USE TypeFacts
<1>1. /\ timerlist' = Keep(timerlist, Timer \ Orphans(p)) /\ alive' = alive \ {p}
      /\ UNCHANGED <<count, start, interval, due, owner, next_expiration, needspoll, queue>>
  BY DEF Exit, clockVars
<1>2. /\ timerlist' \in Seq(Timer) /\ Distinct(timerlist')
      /\ Elements(timerlist') = {t \in Listed : owner[t] # p}
  <2>1. /\ timerlist' \in Seq(Timer) /\ Distinct(timerlist')
        /\ Elements(timerlist') = Elements(timerlist) \cap (Timer \ Orphans(p))
    BY <1>1, KeepFact
  <2>2. QED BY <2>1 DEF Orphans, Listed
<1>3. TimeSound' /\ ListedSound' /\ NextSound' /\ OverduePolled'
  BY <1>1, <1>2 DEF TimersInv, TimeSound, ListedSound, NextSound, OverduePolled, Listed
<1>4. NoOrphans'
  BY <1>1, <1>2 DEF TimersInv, NoOrphans, Listed
<1>5. TypeOK'
  BY <1>1, <1>2 DEF TypeOK, Clock, Distinct
<1>6. QED BY <1>1, <1>2, <1>3, <1>4, <1>5 DEF TimersInv

LEMMA StartStep ==
  ASSUME TimersInv, NEW p \in Proc, Start(p)
  PROVE  TimersInv' /\ alive' = alive \cup {p} /\ UNCHANGED <<timerlist, owner, interval, due, queue>>
<1>1. /\ alive' = alive \cup {p}
      /\ UNCHANGED <<count, start, interval, due, timerlist, owner, next_expiration, needspoll, queue>>
  BY DEF Start, clockVars, listVars
<1>2. TypeOK'
  BY <1>1 DEF TimersInv, TypeOK
<1>3. QED BY <1>1, <1>2
       DEF TimersInv, NoOrphans, OverduePolled, TimeSound, ListedSound, NextSound, Listed

LEMMA TakeStep ==
  ASSUME TimersInv, Take
  PROVE  /\ TimersInv' /\ UNCHANGED <<timerlist, owner, interval, due, alive>>
         /\ queue # << >> /\ Head(queue).t \in Timer
         /\ \A i \in DOMAIN queue : i # 1 => i - 1 \in DOMAIN queue' /\ queue'[i - 1] = queue[i]
         /\ Len(queue') < Len(queue)
<1> USE TypeFacts
<1>1. /\ queue # << >> /\ queue' = Tail(queue)
      /\ UNCHANGED <<count, start, interval, due, timerlist, owner, next_expiration, needspoll, alive>>
  BY DEF Take, clockVars, listVars
<1>2. /\ queue' \in Seq(Event) /\ Len(queue') = Len(queue) - 1 /\ Len(queue) \in Nat
      /\ Head(queue) \in Event
  BY <1>1
<1>3. \A i \in DOMAIN queue : i # 1 => i - 1 \in DOMAIN queue' /\ queue'[i - 1] = queue[i]
  <2>1. DOMAIN queue = 1 .. Len(queue) /\ DOMAIN queue' = 1 .. Len(queue')
    BY <1>2
  <2>2. SUFFICES ASSUME NEW i \in 1 .. Len(queue), i # 1
                 PROVE  i - 1 \in 1 .. Len(queue') /\ queue'[i - 1] = queue[i]
    BY <2>1
  <2>3. i - 1 \in 1 .. Len(queue') /\ (i - 1) + 1 = i
    BY <1>2, <2>2
  <2>4. \A j \in 1 .. Len(queue) - 1 : Tail(queue)[j] = queue[j + 1]
    <3>1. queue # << >> /\ queue \in Seq(Event)
      BY <1>1
    <3>2. QED BY <3>1, HeadTailProperties
  <2>5. QED BY <1>1, <1>2, <2>3, <2>4
<1>4. TypeOK'
  BY <1>1, <1>2, QueueAssumption DEF TimersInv, TypeOK
<1>5. QED BY <1>1, <1>2, <1>3, <1>4
       DEF TimersInv, NoOrphans, OverduePolled, TimeSound, ListedSound, NextSound, Listed, Event

\* A process uses one timer and leaves the others alone.
LEMMA UseStep ==
  ASSUME TimersInv, NEW p \in Proc, NEW T \in SUBSET Timer, Use(p, T)
  PROVE  /\ TimersInv' /\ UNCHANGED <<count, queue, alive>>
         /\ \E t \in T :
              /\ Listed \ {t} \subseteq Elements(timerlist')
              /\ Elements(timerlist') \subseteq Listed \cup {t}
              /\ \A u \in Timer \ {t} : /\ owner'[u] = owner[u] /\ due'[u] = due[u]
                                        /\ interval'[u] = interval[u]
<1> USE TypeFacts
<1>1. p \in alive /\ UNCHANGED <<count, queue, alive>>
  BY DEF Use
<1>2. PICK t \in T :
        \/ \E i \in Interval : Set(p, t, i) \/ Reset(p, t, i)
        \/ Restart(p, t)
        \/ Stop(t)
        \/ \E d \in Adjustment : Adjust(t, d)
  BY DEF Use
<1>3. t \in Timer
  OBVIOUS
<1>4. CASE (\E i \in Interval : Set(p, t, i)) \/ Restart(p, t)
  <2>1. PICK i \in Interval : Set(p, t, i)
    BY <1>4 DEF Restart
  <2>2. /\ TimersInv' /\ Elements(timerlist') = Listed \cup {t}
        /\ owner' = [owner EXCEPT ![t] = p]
    BY <1>1, <1>3, <2>1, SetStep
  <2>3. due' = [due EXCEPT ![t] = i] /\ interval' = [interval EXCEPT ![t] = i]
    BY <2>1 DEF Set
  <2>4. QED BY <1>1, <2>2, <2>3
<1>5. CASE \E i \in Interval : Reset(p, t, i)
  <2>1. PICK i \in Interval : Reset(p, t, i)
    BY <1>5
  <2>2. /\ TimersInv' /\ Elements(timerlist') = Listed \cup {t}
        /\ owner' = [owner EXCEPT ![t] = p]
    BY <1>1, <1>3, <2>1, ResetStep
  <2>3. due' = [due EXCEPT ![t] = @ + i] /\ interval' = [interval EXCEPT ![t] = i]
    BY <2>1 DEF Reset
  <2>4. QED BY <1>1, <2>2, <2>3
<1>6. CASE Stop(t)
  <2>1. /\ TimersInv' /\ Elements(timerlist') = Listed \ {t}
        /\ owner' = [owner EXCEPT ![t] = NONE]
    BY <1>1, <1>3, <1>6, StopStep
  <2>2. UNCHANGED <<due, interval>>
    BY <1>6 DEF Stop, clockVars
  <2>3. QED BY <1>1, <2>1, <2>2
<1>7. CASE \E d \in Adjustment : Adjust(t, d)
  <2>1. PICK d \in Adjustment : Adjust(t, d)
    BY <1>7
  <2>2. TimersInv' /\ UNCHANGED <<timerlist, owner>>
    BY <1>1, <1>3, <2>1, AdjustStep
  <2>3. due' = [due EXCEPT ![t] = @ + d] /\ UNCHANGED interval
    BY <2>1 DEF Adjust
  <2>4. QED BY <1>1, <2>2, <2>3 DEF Listed
<1>8. QED BY <1>2, <1>4, <1>5, <1>6, <1>7

-----------------------------------------------------------------------------
(* The invariant of the callback timers *)

\* Only ctimer_process owns the event timer of a callback, so that no exit takes it
\* off the list; before it runs, callbacks have no event timer but an interval.
CallbackInv ==
  /\ ctimer_process \in alive
  /\ ctimer_list \in Seq(Callback) /\ Distinct(ctimer_list)
  /\ initialized \in BOOLEAN
  /\ \A c \in Callback : owner[c] \in {NONE, ctimer_process}
  /\ ~initialized => \A c \in Callback : c \notin Listed /\ due[c] < -MaxLate
  /\ ~initialized => \A c \in Elements(ctimer_list) : interval[c] \in Interval
  /\ CallbackAhead

LEMMA WithoutFact ==
  ASSUME CallbackInv, NEW t
  PROVE  /\ Without(t) \in Seq(Callback) /\ Distinct(Without(t))
         /\ Elements(Without(t)) = Elements(ctimer_list) \ {t}
         /\ Elements(ctimer_list) \subseteq Callback
         /\ t \in Callback =>
              /\ Append(Without(t), t) \in Seq(Callback) /\ Distinct(Append(Without(t), t))
              /\ Elements(Append(Without(t), t)) = Elements(ctimer_list) \cup {t}
<1>1. /\ ctimer_list \in Seq(Callback) /\ Distinct(ctimer_list)
      /\ Elements(ctimer_list) \subseteq Callback
  BY ListDomain DEF CallbackInv
<1>2. /\ Without(t) \in Seq(Callback) /\ Distinct(Without(t))
      /\ Elements(Without(t)) = Elements(ctimer_list) \cap (Callback \ {t})
  BY <1>1, KeepFact DEF Without
<1>3. Elements(Without(t)) = Elements(ctimer_list) \ {t}
  BY <1>1, <1>2
<1>4. ASSUME t \in Callback
      PROVE  /\ Append(Without(t), t) \in Seq(Callback) /\ Distinct(Append(Without(t), t))
             /\ Elements(Append(Without(t), t)) = Elements(Without(t)) \cup {t}
  BY <1>2, <1>3, <1>4, AppendFact
<1>5. QED BY <1>1, <1>2, <1>3, <1>4

\* A call for callback c that leaves c listed, or takes it off both lists.
LEMMA CallbackCall ==
  ASSUME CallbackInv, NEW c \in Callback,
         initialized' = initialized, alive' = alive, queue' = queue,
         ctimer_list' \in Seq(Callback), Distinct(ctimer_list'),
         Elements(ctimer_list') \subseteq Elements(ctimer_list) \cup {c},
         owner'[c] \in {NONE, ctimer_process},
         \A u \in Callback \ {c} : owner'[u] = owner[u],
         initialized =>
           /\ Listed \ {c} \subseteq Elements(timerlist')
           /\ c \in Elements(ctimer_list') => c \in Elements(timerlist'),
         ~initialized =>
           /\ timerlist' = timerlist /\ due' = due
           /\ \A u \in Elements(ctimer_list') : interval'[u] \in Interval
  PROVE  CallbackInv'
<1>1. CallbackAhead'
  <2>1. SUFFICES ASSUME initialized, NEW u \in Elements(ctimer_list')
                 PROVE  u \in Elements(timerlist') \/ \E i \in DOMAIN queue : queue[i].t = u
    BY DEF CallbackAhead, Listed
  <2>2. CASE u = c
    BY <2>1, <2>2
  <2>3. CASE u # c
    BY <2>1, <2>3 DEF CallbackInv, CallbackAhead
  <2>4. QED BY <2>2, <2>3
<1>2. ~initialized' => \A u \in Callback : u \notin Listed' /\ due'[u] < -MaxLate
  BY DEF CallbackInv, Listed
<1>3. \A u \in Callback : owner'[u] \in {NONE, ctimer_process}
  BY DEF CallbackInv
<1>4. QED BY <1>1, <1>2, <1>3 DEF CallbackInv

LEMMA CUseStep ==
  ASSUME TimersInv, CallbackInv, CUse
  PROVE  TimersInv' /\ CallbackInv'
<1> USE TypeFacts, CallbackAssumption
<1>1. UNCHANGED <<count, queue, alive, initialized>>
  BY DEF CUse
<1>2. PICK c \in Callback : (\E i \in Interval : CSet(c, i)) \/ CReset(c) \/ CRestart(c) \/ CStop(c)
  BY DEF CUse
<1>3. c \in Timer /\ ctimer_process \in alive
  BY DEF CallbackInv
<1>4. ASSUME initialized, ctimer_list' = Append(Without(c), c), TimersInv',
             Elements(timerlist') = Listed \cup {c},
             owner' = [owner EXCEPT ![c] = ctimer_process]
      PROVE  TimersInv' /\ CallbackInv'
  <2>1. /\ ctimer_list' \in Seq(Callback) /\ Distinct(ctimer_list')
        /\ Elements(ctimer_list') = Elements(ctimer_list) \cup {c}
    BY <1>4, WithoutFact
  <2>2. owner'[c] = ctimer_process /\ \A u \in Callback \ {c} : owner'[u] = owner[u]
    BY <1>3, <1>4
  <2>3. CallbackInv'
    BY <1>1, <1>4, <2>1, <2>2, CallbackCall
  <2>4. QED BY <1>4, <2>3
<1>5. CASE \E i \in Interval : CSet(c, i)
  <2>1. PICK i \in Interval : CSet(c, i)
    BY <1>5
  <2>2. CASE initialized
    <3>1. Set(ctimer_process, c, i) /\ ctimer_list' = Append(Without(c), c)
      BY <2>1, <2>2 DEF CSet
    <3>2. QED BY <1>1, <1>3, <1>4, <2>2, <3>1, SetStep
  <2>3. CASE ~initialized
    <3>1. /\ interval' = [interval EXCEPT ![c] = i] /\ ctimer_list' = Append(Without(c), c)
          /\ UNCHANGED <<start, due, timerlist, owner, next_expiration, needspoll>>
      BY <2>1, <2>3 DEF CSet, listVars
    <3>2. c \notin Listed /\ due[c] < -MaxLate /\ due[c] \in Int
      BY <1>3, <2>3 DEF CallbackInv
    <3>3. interval' \in [Timer -> Interval \cup {0}]
          /\ \A u \in Timer \ {c} : interval'[u] = interval[u]
      BY <1>3, <3>1
    <3>4. TimeSound'
      <4>1. ASSUME NEW u \in Timer, due[u] >= -MaxLate
            PROVE  Timed(start[u], interval'[u], due[u], count)
        <5>1. u # c
          BY <3>2, <4>1, HalfRound
        <5>2. QED BY <3>3, <4>1, <5>1 DEF TimersInv, TimeSound
      <4>2. QED BY <1>1, <3>1, <4>1 DEF TimeSound
    <3>5. NextSound'
      BY <3>1, <3>2, <3>3 DEF TimersInv, NextSound, Listed
    <3>6. ListedSound' /\ NoOrphans' /\ OverduePolled'
      BY <1>1, <3>1 DEF TimersInv, ListedSound, NoOrphans, OverduePolled, Listed
    <3>7. TypeOK'
      BY <1>1, <3>1, <3>3 DEF TypeOK, Clock, Distinct
    <3>8. /\ ctimer_list' \in Seq(Callback) /\ Distinct(ctimer_list')
          /\ Elements(ctimer_list') = Elements(ctimer_list) \cup {c}
          /\ Elements(ctimer_list) \subseteq Callback
      BY <3>1, WithoutFact
    <3>9. \A u \in Elements(ctimer_list') : interval'[u] \in Interval
      BY <1>3, <2>3, <3>1, <3>3, <3>8 DEF CallbackInv
    <3>10. owner'[c] \in {NONE, ctimer_process} /\ owner' = owner
      BY <3>1 DEF CallbackInv
    <3>11. CallbackInv'
      BY <1>1, <2>3, <3>1, <3>8, <3>9, <3>10, CallbackCall
    <3>12. QED BY <3>4, <3>5, <3>6, <3>7, <3>11 DEF TimersInv
  <2>4. QED BY <2>2, <2>3 DEF CallbackInv
<1>6. ASSUME ~initialized, Relist(c), ctimer_list' = Append(Without(c), c)
      PROVE  TimersInv' /\ CallbackInv'
  <2>1. /\ interval[c] \in Interval
        /\ UNCHANGED <<start, interval, due, timerlist, owner, next_expiration, needspoll>>
    BY <1>6 DEF Relist, clockVars, listVars
  <2>2. TimersInv'
    BY <1>1, <2>1
       DEF TimersInv, TypeOK, NoOrphans, OverduePolled, TimeSound, ListedSound, NextSound, Listed
  <2>3. /\ ctimer_list' \in Seq(Callback) /\ Distinct(ctimer_list')
        /\ Elements(ctimer_list') = Elements(ctimer_list) \cup {c}
        /\ Elements(ctimer_list) \subseteq Callback
    BY <1>6, WithoutFact
  <2>4. \A u \in Elements(ctimer_list') : interval'[u] \in Interval
    BY <1>6, <2>1, <2>3 DEF CallbackInv
  <2>5. owner'[c] \in {NONE, ctimer_process} /\ owner' = owner
    BY <2>1 DEF CallbackInv
  <2>6. CallbackInv'
    BY <1>1, <1>6, <2>1, <2>3, <2>4, <2>5, CallbackCall
  <2>7. QED BY <2>2, <2>6
<1>7. CASE CReset(c)
  <2>1. CASE initialized
    <3>1. Reset(ctimer_process, c, interval[c]) /\ ctimer_list' = Append(Without(c), c)
      BY <1>7, <2>1 DEF CReset
    <3>2. interval[c] \in Interval
      <4>1. due[c] >= -MaxLate
        BY <3>1, HalfRound DEF Reset
      <4>2. QED BY <1>3, <4>1 DEF TimersInv, TimeSound, Timed
    <3>3. QED BY <1>1, <1>3, <1>4, <2>1, <3>1, <3>2, ResetStep
  <2>2. CASE ~initialized
    BY <1>6, <1>7, <2>2 DEF CReset
  <2>3. QED BY <2>1, <2>2
<1>8. CASE CRestart(c)
  <2>1. CASE initialized
    <3>1. /\ interval[c] \in Interval /\ Set(ctimer_process, c, interval[c])
          /\ ctimer_list' = Append(Without(c), c)
      BY <1>8, <2>1 DEF CRestart, Restart
    <3>2. QED BY <1>1, <1>3, <1>4, <2>1, <3>1, SetStep
  <2>2. CASE ~initialized
    BY <1>6, <1>8, <2>2 DEF CRestart
  <2>3. QED BY <2>1, <2>2
<1>9. CASE CStop(c)
  <2>1. ctimer_list' = Without(c)
    BY <1>9 DEF CStop
  <2>2. /\ ctimer_list' \in Seq(Callback) /\ Distinct(ctimer_list')
        /\ Elements(ctimer_list') = Elements(ctimer_list) \ {c}
        /\ Elements(ctimer_list) \subseteq Callback
    BY <2>1, WithoutFact
  <2>3. CASE initialized
    <3>1. Stop(c)
      BY <1>9, <2>3 DEF CStop
    <3>2. /\ TimersInv' /\ Elements(timerlist') = Listed \ {c}
          /\ owner' = [owner EXCEPT ![c] = NONE]
      BY <1>1, <1>3, <3>1, StopStep
    <3>3. owner'[c] = NONE /\ \A u \in Callback \ {c} : owner'[u] = owner[u]
      BY <1>3, <3>2
    <3>4. CallbackInv'
      BY <1>1, <2>2, <2>3, <3>2, <3>3, CallbackCall
    <3>5. QED BY <3>2, <3>4
  <2>4. CASE ~initialized
    <3>1. /\ owner' = [owner EXCEPT ![c] = NONE]
          /\ UNCHANGED <<start, interval, due, timerlist, next_expiration, needspoll>>
      BY <1>9, <2>4 DEF CStop, clockVars
    <3>2. c \notin Listed
      BY <2>4 DEF CallbackInv
    <3>3. /\ owner' \in [Timer -> Proc \cup {NONE}] /\ owner'[c] = NONE
          /\ \A u \in Timer \ {c} : owner'[u] = owner[u]
      BY <1>3, <3>1
    <3>4. NoOrphans'
      BY <1>1, <3>1, <3>2, <3>3 DEF TimersInv, NoOrphans, Listed
    <3>5. TimeSound' /\ ListedSound' /\ NextSound' /\ OverduePolled'
      BY <1>1, <3>1 DEF TimersInv, TimeSound, ListedSound, NextSound, OverduePolled, Listed
    <3>6. TypeOK'
      BY <1>1, <3>1, <3>3 DEF TypeOK, Clock, Distinct
    <3>7. \A u \in Elements(ctimer_list') : interval'[u] \in Interval
      BY <2>2, <2>4, <3>1 DEF CallbackInv
    <3>8. CallbackInv'
      BY <1>1, <2>2, <2>4, <3>1, <3>3, <3>7, CallbackCall
    <3>9. QED BY <3>4, <3>5, <3>6, <3>8 DEF TimersInv
  <2>5. QED BY <2>3, <2>4 DEF CallbackInv
<1>10. QED BY <1>2, <1>5, <1>7, <1>8, <1>9

LEMMA CBootStep ==
  ASSUME TimersInv, CallbackInv, CBoot
  PROVE  TimersInv' /\ CallbackInv'
<1> USE TypeFacts
<1> DEFINE set == Elements(ctimer_list)
<1>1. /\ ~initialized /\ initialized' = TRUE
      /\ start' = [t \in Timer |-> IF t \in set THEN count ELSE start[t]]
      /\ due' = [t \in Timer |-> IF t \in set THEN interval[t] ELSE due[t]]
      /\ owner' = [t \in Timer |-> IF t \in set THEN ctimer_process ELSE owner[t]]
      /\ timerlist' = Backwards(ctimer_list) \o timerlist
      /\ next_expiration' = UpdateTime(timerlist', start', interval)
      /\ needspoll' = (needspoll \/ set # {})
      /\ UNCHANGED <<count, interval, queue, alive, ctimer_list>>
  BY DEF CBoot
<1>2. /\ ctimer_list \in Seq(Callback) /\ Distinct(ctimer_list) /\ set \subseteq Callback
      /\ ctimer_process \in alive
  BY ListDomain DEF CallbackInv
<1>3. /\ \A t \in set : t \in Timer /\ interval[t] \in Interval /\ t \notin Listed
      /\ \A t \in Timer \ set : start'[t] = start[t] /\ due'[t] = due[t] /\ owner'[t] = owner[t]
      /\ \A t \in set : start'[t] = count /\ due'[t] = interval[t] /\ owner'[t] = ctimer_process
  BY <1>1, <1>2, CallbackAssumption DEF CallbackInv
<1> HIDE DEF set
<1>4. /\ timerlist' \in Seq(Timer) /\ Distinct(timerlist')
      /\ Elements(timerlist') = Listed \cup set
  <2>1. /\ Backwards(ctimer_list) \in Seq(Callback) /\ Distinct(Backwards(ctimer_list))
        /\ Elements(Backwards(ctimer_list)) = set
    BY <1>2, BackwardsFact DEF set
  <2>2. Backwards(ctimer_list) \in Seq(Timer)
    BY <2>1, CallbackAssumption
  <2>3. set \cap Elements(timerlist) = {}
    BY <1>3 DEF Listed
  <2>4. QED BY <1>1, <2>1, <2>2, <2>3, ConcatFact DEF Listed
<1>5. /\ start' \in [Timer -> Clock] /\ due' \in [Timer -> Int]
      /\ owner' \in [Timer -> Proc \cup {NONE}] /\ interval' \in [Timer -> Interval \cup {0}]
  <2>1. \A t \in set : interval[t] \in Int
    BY <1>3, HalfRound
  <2>2. QED BY <1>1, <1>2, <2>1
<1>6. TimeSound'
  <2>1. ASSUME NEW t \in Timer, due'[t] >= -MaxLate
        PROVE  Timed(start'[t], interval[t], due'[t], count)
    <3>1. CASE t \in set
      BY <1>3, <3>1, TimedSet
    <3>2. CASE t \notin set
      BY <1>3, <2>1, <3>2 DEF TimersInv, TimeSound
    <3>3. QED BY <3>1, <3>2
  <2>2. QED BY <1>1, <2>1 DEF TimeSound
<1>7. ListedSound'
  <2>1. ASSUME NEW t \in Listed \cup set PROVE due'[t] >= -MaxLate
    <3>1. CASE t \in set
      BY <1>3, <3>1, HalfRound
    <3>2. CASE t \notin set
      BY <1>3, <3>2 DEF TimersInv, ListedSound
    <3>3. QED BY <3>1, <3>2
  <2>2. QED BY <1>4, <2>1 DEF ListedSound, Listed
<1>8. next_expiration' \in Clock /\ NextSound'
  <2>1. next_expiration' = UpdateTime(timerlist', start', interval') /\ count' = count
    BY <1>1
  <2>2. QED BY <1>4, <1>5, <1>6, <1>7, <2>1, Renewed
<1>9. OverduePolled'
  <2>1. ASSUME NEW t \in Listed \cup set, due'[t] <= 0 PROVE needspoll'
    <3>1. CASE t \in set
      BY <1>1, <3>1
    <3>2. CASE t \notin set
      BY <1>1, <1>3, <2>1, <3>2 DEF TimersInv, OverduePolled
    <3>3. QED BY <3>1, <3>2
  <2>2. QED BY <1>4, <2>1 DEF OverduePolled, Listed
<1>10. NoOrphans'
  BY <1>1, <1>2, <1>3, <1>4 DEF TimersInv, NoOrphans, Listed
<1>11. needspoll' \in BOOLEAN
  BY <1>1
<1>12. TypeOK'
  BY <1>1, <1>4, <1>5, <1>8, <1>11 DEF TypeOK, Clock, Distinct
<1>13. CallbackAhead'
  BY <1>1, <1>4 DEF CallbackAhead, Listed, set
<1>14. \A c \in Callback : owner'[c] \in {NONE, ctimer_process}
  BY <1>3, CallbackAssumption DEF CallbackInv
<1>15. CallbackInv'
  BY <1>1, <1>2, <1>13, <1>14 DEF CallbackInv
<1>16. QED BY <1>6, <1>7, <1>8, <1>9, <1>10, <1>12, <1>15 DEF TimersInv

LEMMA CTakeStep ==
  ASSUME TimersInv, CallbackInv, CTake
  PROVE  TimersInv' /\ CallbackInv'
<1> DEFINE h == Head(queue).t
<1>1. Take /\ ctimer_list' = Without(h) /\ UNCHANGED initialized
  BY DEF CTake
<1>2. /\ TimersInv' /\ UNCHANGED <<timerlist, owner, interval, due, alive>>
      /\ \A i \in DOMAIN queue : i # 1 => i - 1 \in DOMAIN queue' /\ queue'[i - 1] = queue[i]
  BY <1>1, TakeStep
<1>3. queue # << >> /\ queue \in Seq(Event) /\ h = queue[1].t
  BY <1>1, TypeFacts DEF Take
<1> HIDE DEF h
<1>4. /\ ctimer_list' \in Seq(Callback) /\ Distinct(ctimer_list')
      /\ Elements(ctimer_list') = Elements(ctimer_list) \ {h}
  BY <1>1, WithoutFact
<1>5. CallbackAhead'
  <2>1. SUFFICES ASSUME initialized, NEW c \in Elements(ctimer_list), c # h
                 PROVE  c \in Listed \/ \E i \in DOMAIN queue' : queue'[i].t = c
    BY <1>1, <1>2, <1>4 DEF CallbackAhead, Listed
  <2>2. CASE c \in Listed
    BY <2>2
  <2>3. CASE \E i \in DOMAIN queue : queue[i].t = c
    <3>1. PICK i \in DOMAIN queue : queue[i].t = c
      BY <2>3
    <3>2. i # 1
      BY <1>3, <2>1, <3>1
    <3>3. i - 1 \in DOMAIN queue' /\ queue'[i - 1].t = c
      BY <1>2, <3>1, <3>2
    <3>4. QED BY <3>3
  <2>4. QED BY <2>1, <2>2, <2>3 DEF CallbackInv, CallbackAhead
<1>6. CallbackInv'
  BY <1>1, <1>2, <1>4, <1>5 DEF CallbackInv, Listed
<1>7. QED BY <1>2, <1>6

LEMMA CTickStep ==
  ASSUME TimersInv, CallbackInv, CTick
  PROVE  TimersInv' /\ CallbackInv'
<1>1. Tick /\ UNCHANGED <<ctimer_list, initialized>>
  BY DEF CTick, ctimerVars
<1>2. TimersInv' /\ UNCHANGED <<timerlist, owner, interval, queue, alive>>
  BY <1>1, TickStep
<1>3. \A c \in Callback : due[c] < -MaxLate => due'[c] = due[c]
  BY <1>1, CallbackAssumption DEF Tick
<1>4. CallbackAhead'
  BY <1>1, <1>2 DEF CallbackInv, CallbackAhead, Listed
<1>5. QED BY <1>1, <1>2, <1>3, <1>4 DEF CallbackInv, Listed

LEMMA CPollStep ==
  ASSUME TimersInv, CallbackInv, CPollTimers
  PROVE  TimersInv' /\ CallbackInv'
<1>1. PollTimers /\ UNCHANGED <<ctimer_list, initialized>>
  BY DEF CPollTimers, ctimerVars
<1>2. /\ TimersInv' /\ Elements(timerlist') \subseteq Listed
      /\ \A t \in Listed \ Elements(timerlist') : \E i \in DOMAIN queue' : queue'[i].t = t
      /\ \A i \in DOMAIN queue : i \in DOMAIN queue' /\ queue'[i] = queue[i]
      /\ \A t \in Timer : owner'[t] \in {owner[t], NONE}
      /\ UNCHANGED <<interval, due, alive>>
  BY <1>1, PollStep DEF clockVars
<1>3. CallbackAhead'
  <2>1. SUFFICES ASSUME initialized, NEW c \in Elements(ctimer_list), c \notin Elements(timerlist')
                 PROVE  \E i \in DOMAIN queue' : queue'[i].t = c
    BY <1>1 DEF CallbackAhead, Listed
  <2>2. CASE c \in Listed
    BY <1>2, <2>1, <2>2
  <2>3. CASE \E i \in DOMAIN queue : queue[i].t = c
    BY <1>2, <2>3
  <2>4. QED BY <2>1, <2>2, <2>3 DEF CallbackInv, CallbackAhead
<1>4. \A c \in Callback : owner'[c] \in {NONE, ctimer_process}
  BY <1>2, CallbackAssumption DEF CallbackInv
<1>5. QED BY <1>1, <1>2, <1>3, <1>4 DEF CallbackInv, Listed

LEMMA ClientsStep ==
  ASSUME TimersInv, CallbackInv, Clients
  PROVE  TimersInv' /\ CallbackInv'
<1> USE CallbackAssumption
<1>1. UNCHANGED <<ctimer_list, initialized>>
  BY DEF Clients, ctimerVars
<1>2. PICK p \in Client : Use(p, Timer \ Callback) \/ Exit(p) \/ Start(p)
  BY DEF Clients
<1>3. p \in Proc /\ p # ctimer_process
  BY DEF Client
<1>4. ctimer_process # NONE
  BY NoneAssumption
<1>5. ASSUME TimersInv', queue' = queue, ctimer_process \in alive',
             \A c \in Callback : /\ owner'[c] = owner[c] /\ due'[c] = due[c]
                                 /\ interval'[c] = interval[c]
                                 /\ c \in Listed <=> c \in Elements(timerlist')
      PROVE  TimersInv' /\ CallbackInv'
  <2>1. Elements(ctimer_list) \subseteq Callback
    BY ListDomain DEF CallbackInv
  <2>2. CallbackAhead'
    BY <1>1, <1>5, <2>1 DEF CallbackInv, CallbackAhead, Listed
  <2>3. CallbackInv'
    BY <1>1, <1>5, <2>1, <2>2 DEF CallbackInv, Listed
  <2>4. QED BY <1>5, <2>3
<1>6. CASE Use(p, Timer \ Callback)
  <2>1. /\ TimersInv' /\ UNCHANGED <<count, queue, alive>>
        /\ \E t \in Timer \ Callback :
             /\ Listed \ {t} \subseteq Elements(timerlist')
             /\ Elements(timerlist') \subseteq Listed \cup {t}
             /\ \A u \in Timer \ {t} : /\ owner'[u] = owner[u] /\ due'[u] = due[u]
                                       /\ interval'[u] = interval[u]
    BY <1>3, <1>6, UseStep
  <2>2. ctimer_process \in alive'
    BY <2>1 DEF CallbackInv
  <2>3. QED BY <1>5, <2>1, <2>2
<1>7. CASE Exit(p)
  <2>1. /\ TimersInv' /\ Elements(timerlist') = {t \in Listed : owner[t] # p}
        /\ alive' = alive \ {p} /\ UNCHANGED <<owner, interval, due, queue>>
    BY <1>3, <1>7, ExitStep
  <2>2. \A c \in Callback : c \in Listed <=> c \in Elements(timerlist')
    <3>1. \A c \in Callback : c \in Listed => owner[c] = ctimer_process
      BY NoneAssumption DEF CallbackInv, TimersInv, TypeOK, NoOrphans
    <3>2. QED BY <1>3, <2>1, <3>1
  <2>3. ctimer_process \in alive'
    BY <1>3, <2>1 DEF CallbackInv
  <2>4. QED BY <1>5, <2>1, <2>2, <2>3
<1>8. CASE Start(p)
  <2>1. /\ TimersInv' /\ alive' = alive \cup {p}
        /\ UNCHANGED <<timerlist, owner, interval, due, queue>>
    BY <1>3, <1>8, StartStep
  <2>2. QED BY <1>5, <2>1 DEF CallbackInv, Listed
<1>9. QED BY <1>2, <1>6, <1>7, <1>8

-----------------------------------------------------------------------------
(* Theorems *)

LEMMA InvInit ==
  CInit => TimersInv /\ CallbackInv
<1> SUFFICES ASSUME CInit PROVE TimersInv /\ CallbackInv
  OBVIOUS
<1> USE CallbackAssumption, QueueAssumption, HalfRound
<1>1. Init /\ ctimer_list = << >> /\ initialized = FALSE
  BY DEF CInit
<1>2. /\ timerlist = << >> /\ Listed = {} /\ queue = << >> /\ alive = Proc
      /\ count = 0 /\ next_expiration = 0 /\ needspoll = FALSE
      /\ owner = [t \in Timer |-> NONE] /\ start = [t \in Timer |-> 0]
      /\ interval = [t \in Timer |-> 0] /\ due = [t \in Timer |-> -MaxLate - 1]
  BY <1>1 DEF Init, Listed, Elements
<1>3. TypeOK
  <2>1. count \in 0 .. W - 1 /\ next_expiration \in 0 .. W - 1 /\ start \in [Timer -> 0 .. W - 1]
    BY <1>2
  <2>2. /\ owner \in [Timer -> Proc \cup {NONE}] /\ interval \in [Timer -> Interval \cup {0}]
        /\ due \in [Timer -> Int]
    BY <1>2
  <2>3. needspoll \in BOOLEAN /\ alive \subseteq Proc
    BY <1>2
  <2>4. /\ timerlist \in Seq(Timer) /\ queue \in Seq(Event) /\ Len(queue) = 0
        /\ DOMAIN timerlist = {}
    BY <1>2
  <2>5. QED BY <2>1, <2>2, <2>3, <2>4 DEF TypeOK
<1>4. \A t \in Timer : due[t] < -MaxLate /\ ~ due[t] >= -MaxLate
  BY <1>2
<1>5. TimersInv
  BY <1>2, <1>3, <1>4 DEF TimersInv, NoOrphans, OverduePolled, TimeSound, ListedSound, NextSound
<1>6. Elements(ctimer_list) = {} /\ ctimer_list \in Seq(Callback) /\ Distinct(ctimer_list)
  BY <1>1 DEF Elements, Distinct
<1>7. \A c \in Callback : owner[c] = NONE /\ c \notin Listed /\ due[c] < -MaxLate
  BY <1>2, <1>4
<1>8. CallbackInv
  BY <1>1, <1>2, <1>6, <1>7 DEF CallbackInv, CallbackAhead
<1>9. QED BY <1>5, <1>8

LEMMA InvStep ==
  TimersInv /\ CallbackInv /\ [CNext]_allVars => TimersInv' /\ CallbackInv'
<1> SUFFICES ASSUME TimersInv, CallbackInv, [CNext]_allVars PROVE TimersInv' /\ CallbackInv'
  OBVIOUS
<1>1. CASE CUse        BY <1>1, CUseStep
<1>2. CASE CBoot       BY <1>2, CBootStep
<1>3. CASE CTake       BY <1>3, CTakeStep
<1>4. CASE CTick       BY <1>4, CTickStep
<1>5. CASE CPollTimers BY <1>5, CPollStep
<1>6. CASE Clients     BY <1>6, ClientsStep
<1>7. CASE UNCHANGED allVars
  <2>1. UNCHANGED <<count, start, interval, due, timerlist, owner, next_expiration, needspoll,
                    queue, alive, ctimer_list, initialized>>
    BY <1>7 DEF allVars, vars, clockVars, listVars, ctimerVars
  <2>2. TimersInv'
    BY <2>1 DEF TimersInv, TypeOK, NoOrphans, OverduePolled, TimeSound, ListedSound, NextSound, Listed
  <2>3. CallbackInv'
    BY <2>1 DEF CallbackInv, CallbackAhead, Listed
  <2>4. QED BY <2>2, <2>3
<1>8. QED BY <1>1, <1>2, <1>3, <1>4, <1>5, <1>6, <1>7 DEF CNext

LEMMA Invariance == CSpec => [](TimersInv /\ CallbackInv)
BY InvInit, InvStep, PTL DEF CSpec

\* The variables of the timers keep their types: no timer is on the list twice, and
\* the events of timers never overflow the queue.
THEOREM TimersTypeCorrect == CSpec => []TypeOK
<1>1. TimersInv => TypeOK
  BY DEF TimersInv
<1>2. QED BY <1>1, Invariance, PTL

\* While a timer on the list is overdue, a poll of etimer_process is pending: the
\* comparison of the clock interrupt, modulo the size of the clock, misses none
\* (clock.c:97-99), whatever the interval, the clock and the calls in between.
THEOREM TimersOverduePolled == CSpec => []OverduePolled
<1>1. TimersInv => OverduePolled
  BY DEF TimersInv
<1>2. QED BY <1>1, Invariance, PTL

\* No timer stays on the list when its process has exited (etimer.c:91-107).
THEOREM TimersNoOrphans == CSpec => []NoOrphans
<1>1. TimersInv => NoOrphans
  BY DEF TimersInv
<1>2. QED BY <1>1, Invariance, PTL

\* A callback asked for has its event timer on the list or its event in the queue
\* (ctimer.c:73-86, 106-158).
THEOREM CallbackStaysAhead == CSpec => []CallbackAhead
<1>1. CallbackInv => CallbackAhead
  BY DEF CallbackInv
<1>2. QED BY <1>1, Invariance, PTL

\* The event of a timer is not posted before the timer expires (etimer.h:92-95).
THEOREM TimersFireWhenDue == CSpec => FiresWhenDue
<1> DEFINE Fires == \A t \in Listed : t \notin Elements(timerlist') /\ Len(queue') > Len(queue)
                                        => due[t] <= 0
<1>1. TimersInv /\ CallbackInv /\ [CNext]_allVars => [Fires]_vars
  <2> SUFFICES ASSUME TimersInv, CallbackInv, [CNext]_allVars, Len(queue') > Len(queue)
               PROVE  Fires
    OBVIOUS
  <2>1. queue' # queue
    BY TypeFacts
  <2>2. CASE CPollTimers
    BY <2>2, PollStep DEF CPollTimers
  <2>3. CASE CTake
    <3>1. Len(queue') < Len(queue)
      BY <2>3, TakeStep DEF CTake
    <3>2. Len(queue) \in Nat /\ Len(queue') \in Nat
      BY <2>3, TypeFacts, TakeStep DEF CTake, TimersInv, TypeOK
    <3>3. QED BY <3>1, <3>2
  <2>4. CASE CUse \/ CBoot \/ CTick \/ Clients \/ UNCHANGED allVars
    <3>1. queue' = queue
      BY <2>4 DEF CUse, CBoot, CTick, Tick, Clients, Use, Exit, Start, allVars, vars
    <3>2. QED BY <2>1, <3>1
  <2>5. QED BY <2>2, <2>3, <2>4 DEF CNext
<1>2. QED BY <1>1, Invariance, PTL DEF CSpec, FiresWhenDue
=============================================================================
