------------------------- MODULE ProcessKernelProofs -------------------------
(***************************************************************************)
(* Proofs about ProcessKernel, for every number of processes, every size   *)
(* of the event queue and every order of interrupts.                       *)
(***************************************************************************)
EXTENDS ProcessKernel, ListFacts

USE NullAssumption, BootAssumption, QueueAssumption

-----------------------------------------------------------------------------
(* The process list *)

LEMMA FirstFact ==
  ASSUME NEW list \in Seq(Proc), Distinct(list)
  PROVE  /\ First(list) \in Elements(list) \cup {NULL}
         /\ \A p \in Elements(list) : /\ First(list) \in Elements(list)
                                      /\ First(list) # p => After(list, p, First(list))
<1>1. CASE list = << >>
  BY <1>1 DEF First, Elements
<1>2. CASE list # << >>
  <2>1. First(list) = list[1] /\ 1 \in 1 .. Len(list)
    BY <1>2 DEF First
  <2>2. First(list) \in Elements(list) /\ Place(list, First(list)) = 1
    BY <2>1, PlaceIs
  <2>3. ASSUME NEW p \in Elements(list), First(list) # p
        PROVE  After(list, p, First(list))
    <3>1. Place(list, p) \in 1 .. Len(list) /\ list[Place(list, p)] = p
      BY PlaceFact
    <3>2. Place(list, p) # 1
      BY <2>1, <2>3, <3>1
    <3>3. QED BY <2>2, <3>1, <3>2 DEF After
  <2>4. QED BY <2>2, <2>3
<1>3. QED BY <1>1, <1>2

LEMMA SuccessorFact ==
  ASSUME NEW list \in Seq(Proc), Distinct(list), NEW x \in Elements(list)
  PROVE  /\ Successor(list, x) \in Elements(list) \cup {NULL}
         /\ Successor(list, x) # NULL => After(list, Successor(list, x), x)
         /\ \A p \in Elements(list) : After(list, p, x) =>
              /\ Successor(list, x) \in Elements(list)
              /\ Successor(list, x) = p \/ After(list, p, Successor(list, x))
<1>1. Place(list, x) \in 1 .. Len(list) /\ list[Place(list, x)] = x
  BY PlaceFact
<1>2. Len(list) \in Nat /\ Elements(list) \subseteq Proc
  BY ListDomain
<1>3. CASE Place(list, x) = Len(list)
  <2>1. \A p \in Elements(list) : ~After(list, p, x)
    BY <1>2, <1>3, PlaceFact DEF After
  <2>2. Successor(list, x) = NULL
    BY <1>3 DEF Successor
  <2>3. QED BY <2>1, <2>2
<1>4. CASE Place(list, x) # Len(list)
  <2>1. /\ Place(list, x) + 1 \in 1 .. Len(list)
        /\ Successor(list, x) = list[Place(list, x) + 1]
    BY <1>1, <1>2, <1>4 DEF Successor
  <2>2. /\ Successor(list, x) \in Elements(list)
        /\ Place(list, Successor(list, x)) = Place(list, x) + 1
    BY <2>1, PlaceIs
  <2>3. ASSUME NEW p \in Elements(list), After(list, p, x)
        PROVE  Successor(list, x) = p \/ After(list, p, Successor(list, x))
    <3>1. Place(list, p) \in 1 .. Len(list) /\ list[Place(list, p)] = p
      BY PlaceFact
    <3>2. Place(list, p) > Place(list, x)
      BY <2>3 DEF After
    <3>3. CASE Place(list, p) = Place(list, x) + 1
      BY <2>1, <3>1, <3>3
    <3>4. CASE Place(list, p) > Place(list, x) + 1
      BY <2>2, <3>4 DEF After
    <3>5. QED BY <1>1, <1>2, <3>1, <3>2, <3>3, <3>4
  <2>4. After(list, Successor(list, x), x)
    BY <1>1, <1>2, <2>2 DEF After
  <2>5. QED BY <2>2, <2>3, <2>4
<1>5. QED BY <1>3, <1>4

-----------------------------------------------------------------------------
(* What a run of a process does *)

QueueType ==
  /\ events \in [0 .. NUMEVENTS - 1 -> Events \cup {NoEvent}]
  /\ nevents \in 0 .. NUMEVENTS
  /\ fevent \in 0 .. NUMEVENTS - 1
  /\ given \in Events \cup {NoEvent}

ListType ==
  /\ process_list \in Seq(Proc)
  /\ stale_next \in [Proc -> Proc \cup {NULL}]
  /\ running \in [Proc -> BOOLEAN]
  /\ ListSound

PollType ==
  /\ needspoll \in [Proc -> BOOLEAN]
  /\ poll_requested \in BOOLEAN

\* Where the loops stand.  A process can only be unlinked by the run of the process
\* that do_poll has come to, so that do_poll never stands at an unlinked process
\* except right after the run in which it ended itself.
LoopType ==
  /\ pc \in {"run", "poll", "called", "handled", "event", "dispatch", "broadcast", "deliver",
             "return", "idle", "sleep"}
  /\ poll_p \in Proc \cup {NULL}
  /\ event_p \in Proc \cup {NULL}
  /\ pc = "poll" => poll_p \in Listed \cup {NULL}
  /\ pc = "called" => poll_p \in Listed
  /\ pc = "handled" => poll_p \in Proc /\ NextOf(poll_p) \in Listed \cup {NULL}
  /\ pc \in {"dispatch", "deliver"} => event_p # NULL

CastType ==
  /\ work \subseteq Listed
  /\ audience \subseteq Proc
  /\ reached \subseteq Proc
  /\ joined \in BOOLEAN

KernelInv == QueueType /\ ListType /\ PollType /\ LoopType /\ CastType

LEMMA KernelTypes == KernelInv => TypeOK /\ ListSound
<1> SUFFICES ASSUME KernelInv PROVE TypeOK /\ ListSound
  OBVIOUS
<1>1. Listed \subseteq Proc
  BY ListDomain DEF KernelInv, ListType, Listed
<1>2. work \subseteq Proc /\ audience \subseteq Proc /\ reached \subseteq Proc /\ joined \in BOOLEAN
  BY <1>1 DEF KernelInv, CastType
<1>3. QED BY <1>2 DEF KernelInv, QueueType, ListType, PollType, LoopType, TypeOK

LEMMA SoundDistinct == ListSound <=> Distinct(process_list) /\ \A p \in Listed : running[p]
BY DEF ListSound, Distinct

LEMMA NextOfType ==
  ASSUME ListType, NEW p \in Proc
  PROVE  NextOf(p) \in Proc \cup {NULL}
<1>1. process_list \in Seq(Proc) /\ Distinct(process_list) /\ Listed \subseteq Proc
  BY SoundDistinct, ListDomain DEF ListType, Listed
<1>2. CASE p \in Listed
  BY <1>1, <1>2, SuccessorFact DEF NextOf, NextIn, Listed
<1>3. CASE p \notin Listed
  BY <1>3 DEF NextOf, NextIn, Listed, ListType
<1>4. QED BY <1>2, <1>3

LEMMA NextsType == ListType => \A y \in Proc : NextOf(y) \in Proc \cup {NULL}
BY NextOfType

\* A change of the process list keeps the order of those who stay, and where do_poll
\* goes on from the process x that is called.
ListChange(x) ==
  /\ \A p, y : After(process_list, p, y) /\ p \in Listed' /\ y \in Listed'
               => After(process_list', p, y)
  /\ x \in Listed /\ x \notin Listed' =>
       /\ Listed' = Listed \ {x}
       /\ NextOf(x)' = NextOf(x)

LEMMA SameList ==
  ASSUME ListType, UNCHANGED listVars, NEW x
  PROVE  ListType' /\ ListChange(x)
BY DEF listVars, ListType, ListSound, Listed, ListChange

LEMMA StartChange ==
  ASSUME ListType, NEW q \in Proc, StartProcess(q), NEW x
  PROVE  ListType' /\ ListChange(x)
<1>1. CASE q \in Listed
  BY <1>1, SameList DEF StartProcess
<1>2. CASE q \notin Listed
  <2>1. /\ process_list' = <<q>> \o process_list
        /\ running' = [running EXCEPT ![q] = TRUE]
        /\ stale_next' = stale_next
    BY <1>2 DEF StartProcess
  <2>2. process_list \in Seq(Proc) /\ Distinct(process_list) /\ q \notin Elements(process_list)
    BY <1>2, SoundDistinct DEF ListType, Listed
  <2>3. /\ process_list' \in Seq(Proc) /\ Distinct(process_list')
        /\ Elements(process_list') = Elements(process_list) \cup {q}
        /\ \A p, y : After(process_list, p, y) => After(process_list', p, y)
    BY <2>1, <2>2, Prepend
  <2>4. Listed' = Listed \cup {q}
    BY <2>3 DEF Listed
  <2>5. \A p \in Listed' : running'[p]
    <3>1. \A p \in Listed : running[p] /\ p \in Proc
      BY <2>2, SoundDistinct, ListDomain DEF ListType, Listed
    <3>2. QED BY <2>1, <2>4, <3>1 DEF ListType
  <2>6. ListSound'
    BY <2>3, <2>5 DEF ListSound, Distinct
  <2>7. running' \in [Proc -> BOOLEAN]
    BY <2>1 DEF ListType
  <2>8. ListType'
    BY <2>1, <2>3, <2>6, <2>7 DEF ListType
  <2>9. ListChange(x)
    BY <2>3, <2>4 DEF ListChange
  <2>10. QED BY <2>8, <2>9
<1>3. QED BY <1>1, <1>2

\* exit_process, by the process itself or another.
LEMMA ExitChange ==
  ASSUME ListType, NEW q \in Proc, ExitProcess(q) \/ ExitSelf(q), NEW x
  PROVE  ListType' /\ ListChange(x)
<1>1. CASE q \notin Listed
  BY <1>1, SameList DEF ExitProcess, ExitSelf
<1>2. CASE q \in Listed
  <2>1. /\ process_list' = Unlink(process_list, q)
        /\ stale_next' = [stale_next EXCEPT ![q] = NextOf(q)]
        /\ running' = running \/ running' = [running EXCEPT ![q] = FALSE]
    BY <1>2 DEF ExitProcess, ExitSelf
  <2>2. process_list \in Seq(Proc) /\ Distinct(process_list) /\ q \in Elements(process_list)
    BY <1>2, SoundDistinct DEF ListType, Listed
  <2>3. /\ process_list' \in Seq(Proc) /\ Distinct(process_list')
        /\ Elements(process_list') = Elements(process_list) \ {q}
        /\ \A p, y : After(process_list, p, y) /\ p # q /\ y # q => After(process_list', p, y)
    BY <2>1, <2>2, UnlinkFact
  <2>4. Listed' = Listed \ {q}
    BY <2>3 DEF Listed
  <2>5. \A p \in Listed' : running'[p]
    <3>1. \A p \in Listed : running[p] /\ p \in Proc
      BY <2>2, SoundDistinct, ListDomain DEF ListType, Listed
    <3>2. QED BY <2>1, <2>4, <3>1 DEF ListType
  <2>6. ListSound'
    BY <2>3, <2>5 DEF ListSound, Distinct
  <2>7. running' \in [Proc -> BOOLEAN] /\ stale_next' \in [Proc -> Proc \cup {NULL}]
    BY <2>1, NextOfType DEF ListType
  <2>8. ListType'
    BY <2>3, <2>6, <2>7 DEF ListType
  <2>9. NextOf(q)' = NextOf(q)
    <3>1. stale_next'[q] = NextOf(q)
      BY <2>1 DEF ListType
    <3>2. QED BY <2>3, <3>1 DEF NextOf, NextIn
  <2>10. ListChange(x)
    BY <2>3, <2>4, <2>9 DEF ListChange
  <2>11. QED BY <2>8, <2>10
<1>3. QED BY <1>1, <1>2

LEMMA PostType ==
  ASSUME QueueType, NEW e \in Events, Post(e)
  PROVE  QueueType'
<1>1. CASE nevents = NUMEVENTS
  BY <1>1 DEF Post, queueVars, QueueType
<1>2. CASE nevents # NUMEVENTS
  <2>1. /\ events' = [events EXCEPT ![PostSlot] = e]
        /\ nevents' = nevents + 1 /\ given' = e /\ fevent' = fevent
    BY <1>2 DEF Post
  <2>2. events' \in [0 .. NUMEVENTS - 1 -> Events \cup {NoEvent}]
    BY <2>1 DEF QueueType
  <2>3. nevents' \in 0 .. NUMEVENTS
    BY <1>2, <2>1 DEF QueueType
  <2>4. QED BY <2>1, <2>2, <2>3 DEF QueueType
<1>3. QED BY <1>1, <1>2

\* A run keeps the types, takes no poll back and changes the list as it may.
LEMMA CallEffect ==
  ASSUME KernelInv, NEW p \in Proc, NEW taken, CallProcess(p, taken)
  PROVE  /\ QueueType' /\ ListType' /\ PollType'
         /\ ListChange(p)
         /\ \A q \in Proc : needspoll[q] => needspoll'[q]
         /\ poll_requested => poll_requested'
         /\ work' \subseteq work \ taken /\ work' \subseteq Listed'
         /\ audience' \subseteq Proc /\ joined' \in BOOLEAN
<1>1. QueueType /\ ListType /\ PollType /\ CastType
  BY DEF KernelInv
<1>2. /\ work' \subseteq work \ taken /\ work' \subseteq Listed'
      /\ audience' \subseteq Proc
  BY <1>1 DEF CallProcess, CastType, Listed
<1>3. joined' \in BOOLEAN
  BY <1>1 DEF CallProcess, CastType
<1>4. CASE UNCHANGED <<queueVars, pollVars, listVars>>
  <2>1. QueueType' /\ PollType' /\ needspoll' = needspoll /\ poll_requested' = poll_requested
    BY <1>1, <1>4 DEF queueVars, pollVars, QueueType, PollType
  <2>2. ListType' /\ ListChange(p)
    BY <1>1, <1>4, SameList
  <2>3. QED BY <1>2, <1>3, <2>1, <2>2
<1>5. ASSUME NEW q \in Proc \cup {NULL}, NEW e \in Msg, Post([ev |-> e, p |-> q]),
             UNCHANGED <<pollVars, listVars>>
      PROVE  /\ QueueType' /\ ListType' /\ PollType' /\ ListChange(p)
             /\ needspoll' = needspoll /\ poll_requested' = poll_requested
  <2>1. [ev |-> e, p |-> q] \in Events
    BY DEF Events
  <2>2. QueueType'
    BY <1>1, <1>5, <2>1, PostType
  <2>3. PollType' /\ needspoll' = needspoll /\ poll_requested' = poll_requested
    BY <1>1, <1>5 DEF pollVars, PollType
  <2>4. QED BY <1>1, <1>5, <2>2, <2>3, SameList
<1>6. ASSUME NEW q \in Proc, RequestPoll(q), UNCHANGED <<queueVars, listVars>>
      PROVE  /\ QueueType' /\ ListType' /\ PollType' /\ ListChange(p)
             /\ \A r \in Proc : needspoll[r] => needspoll'[r]
             /\ poll_requested => poll_requested'
  <2>1. QueueType'
    BY <1>1, <1>6 DEF queueVars, QueueType
  <2>2. ListType' /\ ListChange(p)
    BY <1>1, <1>6, SameList
  <2>3. /\ PollType'
        /\ \A r \in Proc : needspoll[r] => needspoll'[r]
        /\ poll_requested => poll_requested'
    BY <1>1, <1>6 DEF RequestPoll, pollVars, PollType
  <2>4. QED BY <2>1, <2>2, <2>3
<1>7. ASSUME (\E q \in Proc : StartProcess(q) \/ ExitProcess(q)) \/ ExitSelf(p),
             UNCHANGED <<queueVars, pollVars>>
      PROVE  /\ QueueType' /\ ListType' /\ PollType' /\ ListChange(p)
             /\ needspoll' = needspoll /\ poll_requested' = poll_requested
  <2>1. QueueType' /\ PollType' /\ needspoll' = needspoll /\ poll_requested' = poll_requested
    BY <1>1, <1>7 DEF queueVars, pollVars, QueueType, PollType
  <2>2. ListType' /\ ListChange(p)
    BY <1>1, <1>7, StartChange, ExitChange
  <2>3. QED BY <2>1, <2>2
<1>8. CASE \E q \in Proc \cup {NULL}, e \in Msg :
             Post([ev |-> e, p |-> q]) /\ UNCHANGED <<pollVars, listVars>>
  BY <1>2, <1>3, <1>5, <1>8
<1>9. CASE \E q \in Proc : RequestPoll(q) /\ UNCHANGED <<queueVars, listVars>>
  BY <1>2, <1>3, <1>6, <1>9
<1>10. CASE /\ (\E q \in Proc : StartProcess(q) \/ ExitProcess(q)) \/ ExitSelf(p)
            /\ UNCHANGED <<queueVars, pollVars>>
  BY <1>2, <1>3, <1>7, <1>10
<1>11. QED BY <1>4, <1>8, <1>9, <1>10 DEF CallProcess, Operate

-----------------------------------------------------------------------------
(* The invariant of the kernel *)

LEMMA InitKernel == Init => KernelInv
<1> SUFFICES ASSUME Init PROVE KernelInv
  OBVIOUS
<1>1. 0 \in 0 .. NUMEVENTS - 1 /\ 0 \in 0 .. NUMEVENTS
  OBVIOUS
<1>2. QueueType
  BY <1>1 DEF Init, QueueType
<1>3. Elements(AtBoot) \subseteq Proc
  BY ListDomain
<1>4. ListType
  <2>1. process_list \in Seq(Proc) /\ Listed = Elements(AtBoot)
    BY DEF Init, Listed
  <2>2. stale_next \in [Proc -> Proc \cup {NULL}] /\ running \in [Proc -> BOOLEAN]
    BY DEF Init
  <2>3. \A p \in Listed : running[p]
    BY <1>3, <2>1 DEF Init
  <2>4. ListSound
    BY <2>3 DEF Init, ListSound
  <2>5. QED BY <2>1, <2>2, <2>4 DEF ListType
<1>5. PollType /\ LoopType /\ CastType
  BY DEF Init, PollType, LoopType, CastType
<1>6. QED BY <1>2, <1>4, <1>5 DEF KernelInv

\* Where a loop goes from a process of the list.
LEMMA ListedNext ==
  ASSUME ListType, NEW x \in Listed
  PROVE  /\ NextOf(x) \in Listed \cup {NULL}
         /\ \A p \in Listed : After(process_list, p, x) =>
              /\ NextOf(x) \in Listed
              /\ NextOf(x) = p \/ After(process_list, p, NextOf(x))
<1>1. process_list \in Seq(Proc) /\ Distinct(process_list)
  BY SoundDistinct DEF ListType
<1>2. NextOf(x) = Successor(process_list, x)
  BY DEF NextOf, NextIn, Listed
<1>3. QED BY <1>1, <1>2, SuccessorFact DEF Listed

\* The same after the run of x itself, when it may no longer be in the list.
LEMMA CalledNext ==
  ASSUME ListType, ListType', NEW x \in Listed, ListChange(x)
  PROVE  /\ NextOf(x)' \in Listed' \cup {NULL}
         /\ \A p \in Listed \cap Listed' : After(process_list, p, x) =>
              /\ NextOf(x)' \in Listed'
              /\ NextOf(x)' = p \/ After(process_list', p, NextOf(x)')
<1>1. /\ process_list' \in Seq(Proc) /\ Distinct(process_list')
      /\ Listed' = Elements(process_list')
  <2>1. process_list' \in Seq(Proc) /\ ListSound'
    BY DEF ListType
  <2>2. QED BY <2>1 DEF ListSound, Distinct, Listed
<1>2. CASE x \in Listed'
  <2>1. NextOf(x)' = Successor(process_list', x)
    BY <1>1, <1>2 DEF NextOf, NextIn
  <2>2. /\ NextOf(x)' \in Listed' \cup {NULL}
        /\ \A p \in Listed' : After(process_list', p, x) =>
             /\ NextOf(x)' \in Listed'
             /\ NextOf(x)' = p \/ After(process_list', p, NextOf(x)')
    BY <1>1, <1>2, <2>1, SuccessorFact
  <2>3. \A p \in Listed \cap Listed' : After(process_list, p, x) => After(process_list', p, x)
    BY <1>2 DEF ListChange
  <2>4. QED BY <2>2, <2>3
<1>3. CASE x \notin Listed'
  <2>1. Listed' = Listed \ {x} /\ NextOf(x)' = NextOf(x)
    BY <1>3 DEF ListChange
  <2>2. process_list \in Seq(Proc) /\ Distinct(process_list) /\ x \in Elements(process_list)
    BY SoundDistinct DEF ListType, Listed
  <2>3. NextOf(x) = Successor(process_list, x)
    BY <2>2 DEF NextOf, NextIn
  <2>4. /\ NextOf(x) \in Listed \cup {NULL}
        /\ NextOf(x) # NULL => After(process_list, NextOf(x), x)
    BY <2>2, <2>3, SuccessorFact DEF Listed
  <2>5. Place(process_list, x) \in 1 .. Len(process_list)
    BY <2>2, PlaceFact
  <2>6. ~After(process_list, x, x)
    BY <2>5 DEF After
  <2>7. NextOf(x)' \in Listed' \cup {NULL}
    BY <2>1, <2>4, <2>6, NullAssumption
  <2>8. ASSUME NEW p \in Listed \cap Listed', After(process_list, p, x)
        PROVE  /\ NextOf(x)' \in Listed'
               /\ NextOf(x)' = p \/ After(process_list', p, NextOf(x)')
    <3>1. /\ NextOf(x) \in Listed
          /\ NextOf(x) = p \/ After(process_list, p, NextOf(x))
      BY <2>8, ListedNext
    <3>2. NULL \notin Listed
      BY <2>2, ListDomain DEF Listed
    <3>3. NextOf(x) \in Listed'
      BY <2>1, <2>4, <2>6, <3>1, <3>2
    <3>4. QED BY <2>1, <2>8, <3>1, <3>3 DEF ListChange
  <2>9. QED BY <2>7, <2>8
<1>4. QED BY <1>2, <1>3

LEMMA TakeType ==
  ASSUME QueueType, nevents > 0, TakeEvent
  PROVE  QueueType' /\ events[fevent].p \in Proc \cup {NULL}
<1>1. (fevent + 1) % NUMEVENTS \in 0 .. NUMEVENTS - 1
  BY DEF QueueType
<1>2. events[fevent] \in Events \cup {NoEvent}
  BY DEF QueueType
<1>3. events[fevent].p \in Proc \cup {NULL}
  BY <1>2 DEF Events, NoEvent
<1>4. nevents' \in 0 .. NUMEVENTS
  BY DEF QueueType, TakeEvent
<1>5. QED BY <1>1, <1>3, <1>4 DEF QueueType, TakeEvent

LEMMA SameParts ==
  /\ QueueType /\ UNCHANGED queueVars => QueueType'
  /\ ListType /\ UNCHANGED listVars => ListType' /\ Listed' = Listed /\ \A x : NextOf(x)' = NextOf(x)
  /\ PollType /\ UNCHANGED pollVars => PollType'
  /\ CastType /\ UNCHANGED <<listVars, work, castVars>> => CastType'
<1>1. QueueType /\ UNCHANGED queueVars => QueueType'
  BY DEF QueueType, queueVars
<1>2. ListType /\ UNCHANGED listVars => ListType' /\ Listed' = Listed /\ \A x : NextOf(x)' = NextOf(x)
  BY DEF ListType, listVars, ListSound, Listed, NextOf
<1>3. PollType /\ UNCHANGED pollVars => PollType'
  BY DEF PollType, pollVars
<1>4. CastType /\ UNCHANGED <<listVars, work, castVars>> => CastType'
  BY DEF CastType, listVars, castVars, Listed
<1>5. QED BY <1>1, <1>2, <1>3, <1>4

\* The steps that only move the loops on.
Moves ==
  \/ RunPoll \/ RunEvent \/ PollSkip \/ PollReturn \/ PollEnd \/ NoEventWaits
  \/ BroadcastPoll \/ BroadcastNext \/ Return \/ TryToSleep

LEMMA MovesKernel ==
  ASSUME KernelInv, Moves
  PROVE  KernelInv'
<1>1. /\ UNCHANGED <<queueVars, listVars, needspoll, event_p, work, castVars>>
      /\ poll_requested' \in {poll_requested, FALSE}
  BY DEF Moves, RunPoll, RunEvent, PollSkip, PollReturn, PollEnd, NoEventWaits, BroadcastPoll,
         BroadcastNext, Return, TryToSleep, BeginPoll, pollVars
<1>2. /\ QueueType' /\ ListType' /\ CastType'
      /\ Listed' = Listed /\ \A x : NextOf(x)' = NextOf(x)
  BY <1>1, SameParts DEF KernelInv
<1>3. PollType'
  BY <1>1 DEF KernelInv, PollType
<1>4. LoopType /\ event_p' = event_p
  BY <1>1 DEF KernelInv
<1>5. Listed \subseteq Proc /\ First(process_list) \in Listed \cup {NULL}
  BY SoundDistinct, ListDomain, FirstFact DEF KernelInv, ListType, Listed
<1>6. LoopType'
  <2>1. CASE RunPoll \/ BroadcastPoll
    BY <1>2, <1>4, <1>5, <2>1 DEF RunPoll, BroadcastPoll, BeginPoll, LoopType
  <2>2. CASE PollSkip
    <3>1. poll_p \in Listed /\ pc = "poll" /\ pc' = pc /\ poll_p' = NextOf(poll_p)
      BY <1>4, <2>2 DEF PollSkip, LoopType
    <3>2. poll_p' \in Listed \cup {NULL}
      BY <3>1, ListedNext DEF KernelInv
    <3>3. QED BY <1>2, <1>4, <1>5, <3>1, <3>2 DEF LoopType
  <2>3. CASE PollReturn
    <3>1. poll_p' \in Listed \cup {NULL} /\ pc' = "poll"
      BY <1>4, <2>3 DEF PollReturn, LoopType
    <3>2. QED BY <1>2, <1>4, <1>5, <3>1 DEF LoopType
  <2>4. CASE RunEvent \/ PollEnd \/ NoEventWaits \/ BroadcastNext \/ Return \/ TryToSleep
    <3>1. /\ poll_p' = poll_p
          /\ pc' \in {"event", "deliver", "return", "idle", "run", "sleep"}
          /\ pc' = "deliver" => event_p # NULL
      BY <2>4 DEF RunEvent, PollEnd, NoEventWaits, BroadcastNext, Return, TryToSleep
    <3>2. QED BY <1>4, <3>1 DEF LoopType
  <2>5. QED BY <2>1, <2>2, <2>3, <2>4 DEF Moves
<1>7. QED BY <1>2, <1>3, <1>6 DEF KernelInv

LEMMA CallKernel ==
  ASSUME KernelInv, PollCall \/ Dispatch \/ Deliver
  PROVE  KernelInv'
<1>1. LoopType /\ ListType /\ CastType
  BY DEF KernelInv
<1>2. Listed \subseteq Proc
  BY ListDomain DEF KernelInv, ListType, Listed
<1>3. CASE PollCall
  <2>1. /\ pc' = "handled" /\ poll_p' = poll_p /\ event_p' = event_p /\ reached' = reached
        /\ CallProcess(poll_p, {poll_p})
    BY <1>3 DEF PollCall
  <2>2. poll_p \in Listed /\ poll_p \in Proc
    BY <1>1, <1>2, <1>3 DEF PollCall, LoopType
  <2>3. PICK x \in Listed : x = poll_p
    BY <2>2
  <2>4. /\ QueueType' /\ ListType' /\ PollType' /\ ListChange(x)
        /\ work' \subseteq Listed' /\ audience' \subseteq Proc /\ joined' \in BOOLEAN
    BY <1>2, <2>1, <2>3, CallEffect
  <2>5. NextOf(x)' \in Listed' \cup {NULL}
    BY <1>1, <2>4, CalledNext
  <2>6. NextOf(poll_p)' = NextOf(x)'
    BY <2>1, <2>3 DEF NextOf
  <2>7. CastType'
    BY <1>1, <2>1, <2>4 DEF CastType
  <2>8. LoopType'
    BY <1>1, <2>1, <2>2, <2>5, <2>6 DEF LoopType
  <2>9. QED BY <2>4, <2>7, <2>8 DEF KernelInv
<1>4. CASE Dispatch \/ Deliver
  <2>1. /\ event_p \in Proc /\ CallProcess(event_p, {})
        /\ poll_p' = poll_p /\ pc' \in {"return", "broadcast"}
    BY <1>1, <1>4 DEF Dispatch, Deliver, LoopType
  <2>2. /\ QueueType' /\ ListType' /\ PollType'
        /\ work' \subseteq Listed' /\ audience' \subseteq Proc /\ joined' \in BOOLEAN
    BY <2>1, CallEffect
  <2>3. reached' \subseteq Proc
    BY <1>1, <1>4, <2>1 DEF Dispatch, Deliver, CastType
  <2>4. CastType'
    BY <2>2, <2>3 DEF CastType
  <2>5. event_p' \in Proc \cup {NULL}
    <3>1. CASE Dispatch
      BY <3>1 DEF Dispatch
    <3>2. CASE Deliver
      <4>1. PICK x \in Proc : x = event_p
        BY <2>1
      <4>2. (ListType => \A y \in Proc : NextOf(y) \in Proc \cup {NULL})'
        BY NextsType, PTL
      <4>3. event_p' = NextOf(x)'
        BY <3>2, <4>1 DEF Deliver, NextOf
      <4>4. QED BY <2>2, <4>2, <4>3
    <3>3. QED BY <1>4, <3>1, <3>2
  <2>6. LoopType'
    BY <1>1, <2>1, <2>5 DEF LoopType
  <2>7. QED BY <2>2, <2>4, <2>6 DEF KernelInv
<1>5. QED BY <1>3, <1>4

LEMMA PollFoundKernel ==
  ASSUME KernelInv, PollFound
  PROVE  KernelInv'
<1>1. QueueType /\ ListType /\ PollType /\ LoopType /\ CastType
  BY DEF KernelInv
<1>2. /\ running' = [running EXCEPT ![poll_p] = TRUE]
      /\ needspoll' = [needspoll EXCEPT ![poll_p] = FALSE]
      /\ pc' = "called" /\ poll_p' = poll_p /\ event_p' = event_p
      /\ poll_p \in Listed
      /\ UNCHANGED <<queueVars, process_list, stale_next, poll_requested, work, castVars>>
  BY <1>1 DEF PollFound, LoopType
<1>3. Listed' = Listed
  BY <1>2 DEF Listed
<1>4. ListType'
  <2>1. running' \in [Proc -> BOOLEAN] /\ \A p \in Listed : running[p] => running'[p]
    <3>1. Listed \subseteq Proc
      BY <1>1, ListDomain DEF ListType, Listed
    <3>2. QED BY <1>1, <1>2, <3>1 DEF ListType
  <2>2. ListSound'
    BY <1>1, <1>2, <1>3, <2>1 DEF ListType, ListSound
  <2>3. QED BY <1>1, <1>2, <2>1, <2>2 DEF ListType
<1>5. QueueType' /\ PollType'
  BY <1>1, <1>2, SameParts DEF PollType
<1>6. LoopType' /\ CastType'
  BY <1>1, <1>2, <1>3 DEF LoopType, CastType, castVars
<1>7. QED BY <1>4, <1>5, <1>6 DEF KernelInv

LEMMA TakeKernel ==
  ASSUME KernelInv, TakeForOne \/ TakeForAll \/ BroadcastEnd
  PROVE  KernelInv'
<1>1. QueueType /\ ListType /\ PollType /\ LoopType /\ CastType
  BY DEF KernelInv
<1>2. Listed \subseteq Proc /\ First(process_list) \in Listed \cup {NULL}
  BY SoundDistinct, ListDomain, FirstFact DEF KernelInv, ListType, Listed
<1>3. UNCHANGED <<listVars, pollVars, poll_p, work>>
  BY DEF TakeForOne, TakeForAll, BroadcastEnd
<1>4. ListType' /\ PollType' /\ Listed' = Listed /\ \A x : NextOf(x)' = NextOf(x)
  BY <1>1, <1>3, SameParts
<1>5. QueueType'
  BY <1>1, SameParts, TakeType DEF TakeForOne, TakeForAll, BroadcastEnd
<1>6. CastType'
  BY <1>1, <1>2, <1>3, <1>4 DEF TakeForOne, TakeForAll, BroadcastEnd, CastType, castVars
<1>7. LoopType'
  <2>1. CASE TakeForOne
    BY <1>1, <1>3, <2>1, TakeType DEF TakeForOne, LoopType
  <2>2. CASE TakeForAll
    BY <1>1, <1>2, <1>3, <2>2 DEF TakeForAll, LoopType
  <2>3. CASE BroadcastEnd
    BY <1>1, <1>3, <2>3 DEF BroadcastEnd, LoopType
  <2>4. QED BY <2>1, <2>2, <2>3
<1>8. QED BY <1>4, <1>5, <1>6, <1>7 DEF KernelInv

LEMMA InterruptKernel ==
  ASSUME KernelInv, NEW p \in Proc, Interrupt(p)
  PROVE  KernelInv'
<1>1. QueueType /\ ListType /\ PollType /\ LoopType /\ CastType
  BY DEF KernelInv
<1>2. UNCHANGED <<queueVars, listVars, poll_p, event_p, castVars>>
  BY DEF Interrupt
<1>3. QueueType' /\ ListType' /\ Listed' = Listed /\ \A x : NextOf(x)' = NextOf(x)
  BY <1>1, <1>2, SameParts
<1>4. PollType'
  BY <1>1 DEF Interrupt, RequestPoll, PollType, pollVars
<1>5. CastType'
  BY <1>1, <1>2, <1>3 DEF Interrupt, CastType, castVars
<1>6. LoopType'
  BY <1>1, <1>2, <1>3 DEF Interrupt, LoopType
<1>7. QED BY <1>3, <1>4, <1>5, <1>6 DEF KernelInv

LEMMA StepKernel == KernelInv /\ [Next]_vars => KernelInv'
<1> SUFFICES ASSUME KernelInv, [Next]_vars PROVE KernelInv'
  OBVIOUS
<1>1. CASE MainLoop
  BY <1>1, MovesKernel, CallKernel, PollFoundKernel, TakeKernel
     DEF MainLoop, DoPoll, DoEvent, Moves
<1>2. CASE \E p \in Proc : Interrupt(p)
  BY <1>2, InterruptKernel
<1>3. CASE UNCHANGED vars
  <2>1. UNCHANGED <<queueVars, listVars, pollVars, work, castVars, pc, poll_p, event_p>>
    BY <1>3 DEF vars, loopVars
  <2>2. /\ QueueType' /\ ListType' /\ PollType' /\ CastType'
        /\ Listed' = Listed /\ \A x : NextOf(x)' = NextOf(x)
    BY <2>1, SameParts DEF KernelInv
  <2>3. LoopType'
    BY <2>1, <2>2 DEF KernelInv, LoopType
  <2>4. QED BY <2>2, <2>3 DEF KernelInv
<1>4. QED BY <1>1, <1>2, <1>3 DEF Next

\* The variables of the kernel keep their types.
THEOREM KernelTypeCorrect == Spec => []TypeOK
<1>1. Spec => []KernelInv
  BY InitKernel, StepKernel, PTL DEF Spec
<1>2. QED BY <1>1, KernelTypes, PTL

\* However processes start and end each other, themselves and processes at which a loop
\* stands, none is in the list twice and all in it can be called.
THEOREM ListStaysSound == Spec => []ListSound
<1>1. Spec => []KernelInv
  BY InitKernel, StepKernel, PTL DEF Spec
<1>2. QED BY <1>1, KernelTypes, PTL

-----------------------------------------------------------------------------
(* Polls *)

\* The process that do_poll looks at next, and whether it will come to p from there.
Target == IF pc = "poll" THEN poll_p ELSE NextOf(poll_p)

Ahead(p) ==
  /\ pc \in {"poll", "called", "handled"}
  /\ p \in Listed /\ Target \in Listed
  /\ p = Target \/ After(process_list, p, Target)

LEMMA AheadIs ==
  ASSUME ListType, NEW p
  PROVE  PollAhead(p) <=> Ahead(p)
<1>1. process_list \in Seq(Proc)
  BY DEF ListType
<1>2. ASSUME NEW x \in Listed, p \in Listed
      PROVE  Place(process_list, p) >= Place(process_list, x) <=>
               p = x \/ After(process_list, p, x)
  <2>1. /\ Place(process_list, p) \in 1 .. Len(process_list)
        /\ process_list[Place(process_list, p)] = p
        /\ Place(process_list, x) \in 1 .. Len(process_list)
        /\ process_list[Place(process_list, x)] = x
        /\ Len(process_list) \in Nat
    BY <1>1, <1>2, PlaceFact, ListDomain DEF Listed
  <2>2. QED BY <1>2, <2>1 DEF After, Listed
<1>3. QED BY <1>2 DEF PollAhead, Ahead, Target

LEMMA AfterTransitive ==
  ASSUME NEW list \in Seq(Proc), NEW p, NEW x, NEW y, After(list, p, x), After(list, x, y)
  PROVE  After(list, p, y)
<1>1. /\ Place(list, p) \in 1 .. Len(list) /\ Place(list, x) \in 1 .. Len(list)
      /\ Place(list, y) \in 1 .. Len(list) /\ Len(list) \in Nat
  BY PlaceFact, ListDomain DEF After
<1>2. QED BY <1>1 DEF After

Noticed(p) ==
  \/ needspoll[p] /\ (poll_requested \/ Ahead(p))
  \/ pc = "called" /\ poll_p = p

PollInv == \A p \in work : Noticed(p)

LEMMA PollInvIs == ListType => (PollInv <=> NoLostPoll)
BY AheadIs DEF PollInv, Noticed, NoLostPoll

\* A step that leaves the list alone and moves do_poll on.
LEMMA MovesPolls ==
  ASSUME KernelInv, PollInv, Moves
  PROVE  PollInv'
<1>1. /\ UNCHANGED <<queueVars, listVars, needspoll, event_p, work, castVars>>
      /\ pc # "called"
  BY DEF Moves, RunPoll, RunEvent, PollSkip, PollReturn, PollEnd, NoEventWaits, BroadcastPoll,
         BroadcastNext, Return, TryToSleep, BeginPoll, pollVars
<1>2. /\ process_list' = process_list /\ Listed' = Listed /\ needspoll' = needspoll
      /\ \A x : NextOf(x)' = NextOf(x)
  BY <1>1, SameParts DEF KernelInv, listVars
<1>3. /\ process_list \in Seq(Proc) /\ Distinct(process_list)
      /\ Listed \subseteq Proc /\ ListType /\ LoopType
  BY SoundDistinct, ListDomain DEF KernelInv, ListType, Listed
<1>4. SUFFICES ASSUME NEW p \in work
               PROVE  Noticed(p)'
  BY <1>1 DEF PollInv
<1>5. p \in Listed /\ needspoll[p] /\ (poll_requested \/ Ahead(p))
  BY <1>1 DEF PollInv, Noticed, KernelInv, CastType
<1>6. CASE RunPoll \/ BroadcastPoll
  <2>1. pc' = "poll" /\ poll_p' = First(process_list)
    BY <1>6 DEF RunPoll, BroadcastPoll, BeginPoll
  <2>2. /\ First(process_list) \in Listed
        /\ First(process_list) # p => After(process_list, p, First(process_list))
    BY <1>3, <1>5, FirstFact DEF Listed
  <2>3. Ahead(p)'
    BY <1>2, <1>5, <2>1, <2>2 DEF Ahead, Target
  <2>4. QED BY <1>2, <1>5, <2>3 DEF Noticed
<1>7. CASE PollSkip
  <2>1. /\ pc = "poll" /\ pc' = "poll" /\ poll_p \in Listed /\ ~needspoll[poll_p]
        /\ poll_p' = NextOf(poll_p) /\ poll_requested' = poll_requested
    BY <1>3, <1>7 DEF PollSkip, LoopType, pollVars
  <2>2. CASE poll_requested
    BY <1>2, <1>5, <2>1, <2>2 DEF Noticed
  <2>3. CASE Ahead(p)
    <3>1. After(process_list, p, poll_p)
      BY <1>5, <2>1, <2>3 DEF Ahead, Target
    <3>2. /\ NextOf(poll_p) \in Listed
          /\ NextOf(poll_p) = p \/ After(process_list, p, NextOf(poll_p))
      BY <1>3, <1>5, <2>1, <3>1, ListedNext
    <3>3. Ahead(p)'
      BY <1>2, <1>5, <2>1, <3>2 DEF Ahead, Target
    <3>4. QED BY <1>2, <1>5, <3>3 DEF Noticed
  <2>4. QED BY <1>5, <2>2, <2>3
<1>8. CASE PollReturn
  <2>1. /\ pc = "handled" /\ pc' = "poll" /\ poll_p' = NextOf(poll_p)
        /\ poll_requested' = poll_requested
    BY <1>8 DEF PollReturn, pollVars
  <2>2. Ahead(p) => Ahead(p)'
    BY <1>2, <2>1 DEF Ahead, Target
  <2>3. QED BY <1>2, <1>5, <2>1, <2>2 DEF Noticed
<1>9. CASE RunEvent \/ PollEnd \/ NoEventWaits \/ BroadcastNext \/ Return \/ TryToSleep
  <2>1. /\ poll_requested' = poll_requested
        /\ pc \in {"poll", "called", "handled"} => pc = "poll" /\ poll_p = NULL
    BY <1>9 DEF RunEvent, PollEnd, NoEventWaits, BroadcastNext, Return, TryToSleep, pollVars
  <2>2. NULL \notin Listed
    BY <1>3
  <2>3. ~Ahead(p)
    BY <2>1, <2>2 DEF Ahead, Target
  <2>4. QED BY <1>2, <1>5, <2>1, <2>3 DEF Noticed
<1>10. QED BY <1>6, <1>7, <1>8, <1>9 DEF Moves

LEMMA FoundPolls ==
  ASSUME KernelInv, PollInv, PollFound
  PROVE  PollInv'
<1>1. /\ ListType /\ LoopType /\ PollType /\ CastType /\ Listed \subseteq Proc
  BY ListDomain DEF KernelInv, ListType, Listed
<1>2. /\ needspoll' = [needspoll EXCEPT ![poll_p] = FALSE]
      /\ pc = "poll" /\ pc' = "called" /\ poll_p' = poll_p /\ poll_p \in Listed
      /\ UNCHANGED <<process_list, stale_next, poll_requested, work>>
  BY <1>1 DEF PollFound, LoopType
<1>3. Listed' = Listed /\ NextOf(poll_p)' = NextOf(poll_p)
  BY <1>2 DEF Listed, NextOf
<1>4. SUFFICES ASSUME NEW p \in work, p # poll_p
               PROVE  Noticed(p)'
  BY <1>2 DEF PollInv, Noticed
<1>5. /\ p \in Listed /\ p \in Proc /\ needspoll[p] /\ (poll_requested \/ Ahead(p))
  BY <1>1, <1>2 DEF PollInv, Noticed, CastType
<1>6. needspoll'[p]
  BY <1>1, <1>2, <1>4, <1>5 DEF PollType
<1>7. Ahead(p) => Ahead(p)'
  <2>1. SUFFICES ASSUME Ahead(p) PROVE Ahead(p)'
    OBVIOUS
  <2>2. After(process_list, p, poll_p)
    BY <1>2, <1>4, <2>1 DEF Ahead, Target
  <2>3. /\ NextOf(poll_p) \in Listed
        /\ NextOf(poll_p) = p \/ After(process_list, p, NextOf(poll_p))
    BY <1>1, <1>2, <1>5, <2>2, ListedNext
  <2>4. QED BY <1>2, <1>3, <1>5, <2>3 DEF Ahead, Target
<1>8. QED BY <1>2, <1>5, <1>6, <1>7 DEF Noticed

LEMMA CalledPolls ==
  ASSUME KernelInv, PollInv, PollCall
  PROVE  PollInv'
<1>1. /\ ListType /\ LoopType /\ CastType /\ Listed \subseteq Proc
      /\ process_list \in Seq(Proc) /\ Distinct(process_list)
  BY SoundDistinct, ListDomain DEF KernelInv, ListType, Listed
<1>2. /\ pc = "called" /\ pc' = "handled" /\ poll_p' = poll_p /\ poll_p \in Listed
      /\ CallProcess(poll_p, {poll_p})
  BY <1>1 DEF PollCall, LoopType
<1>3. PICK x \in Listed : x = poll_p
  BY <1>2
<1>4. /\ ListType' /\ ListChange(x)
      /\ \A q \in Proc : needspoll[q] => needspoll'[q]
      /\ poll_requested => poll_requested'
      /\ work' \subseteq work \ {x} /\ work' \subseteq Listed'
  BY <1>1, <1>2, <1>3, CallEffect
<1>5. SUFFICES ASSUME NEW p \in work'
               PROVE  Noticed(p)'
  BY DEF PollInv
<1>6. /\ p \in work /\ p # x /\ p \in Listed /\ p \in Listed' /\ p \in Proc
      /\ needspoll[p] /\ (poll_requested \/ Ahead(p))
  BY <1>1, <1>3, <1>4, <1>5 DEF PollInv, Noticed, CastType
<1>7. Ahead(p) => Ahead(p)'
  <2>1. SUFFICES ASSUME Ahead(p) PROVE Ahead(p)'
    OBVIOUS
  <2>2. /\ NextOf(x) \in Listed
        /\ p = NextOf(x) \/ After(process_list, p, NextOf(x))
    BY <1>2, <1>3, <2>1 DEF Ahead, Target
  <2>3. NextOf(x) = Successor(process_list, x)
    BY DEF NextOf, NextIn, Listed
  <2>4. After(process_list, NextOf(x), x)
    <3>1. NextOf(x) # NULL
      BY <1>1, <2>2
    <3>2. QED BY <1>1, <2>3, <3>1, SuccessorFact DEF Listed
  <2>5. After(process_list, p, x)
    BY <1>1, <2>2, <2>4, AfterTransitive
  <2>6. /\ NextOf(x)' \in Listed'
        /\ NextOf(x)' = p \/ After(process_list', p, NextOf(x)')
    BY <1>1, <1>4, <1>6, <2>5, CalledNext
  <2>7. Target' = NextOf(x)'
    BY <1>2, <1>3 DEF Target, NextOf
  <2>8. QED BY <1>2, <1>6, <2>6, <2>7 DEF Ahead
<1>8. QED BY <1>4, <1>6, <1>7 DEF Noticed

LEMMA EventPolls ==
  ASSUME KernelInv, PollInv, Dispatch \/ Deliver \/ TakeForOne \/ TakeForAll \/ BroadcastEnd
  PROVE  PollInv'
<1>1. CastType /\ LoopType /\ Listed \subseteq Proc
  BY ListDomain DEF KernelInv, ListType, Listed
<1>2. pc \in {"dispatch", "deliver", "event", "broadcast"}
  BY DEF Dispatch, Deliver, TakeForOne, TakeForAll, BroadcastEnd
<1>3. \A p \in work : p \in Proc /\ needspoll[p] /\ poll_requested
  BY <1>1, <1>2 DEF PollInv, Noticed, Ahead, CastType
<1>4. CASE Dispatch \/ Deliver
  <2>1. event_p \in Proc /\ CallProcess(event_p, {})
    BY <1>1, <1>4 DEF Dispatch, Deliver, LoopType
  <2>2. /\ \A q \in Proc : needspoll[q] => needspoll'[q]
        /\ poll_requested => poll_requested'
        /\ work' \subseteq work
    BY <2>1, CallEffect
  <2>3. QED BY <1>3, <2>2 DEF PollInv, Noticed
<1>5. CASE TakeForOne \/ TakeForAll \/ BroadcastEnd
  <2>1. UNCHANGED <<needspoll, poll_requested, work>>
    BY <1>5 DEF TakeForOne, TakeForAll, BroadcastEnd, pollVars
  <2>2. QED BY <1>3, <2>1 DEF PollInv, Noticed
<1>6. QED BY <1>4, <1>5

LEMMA InterruptPolls ==
  ASSUME KernelInv, PollInv, NEW q \in Proc, Interrupt(q)
  PROVE  PollInv'
<1>1. /\ PollType /\ CastType /\ Listed \subseteq Proc
      /\ \A p \in Listed : running[p]
  BY SoundDistinct, ListDomain DEF KernelInv, ListType, Listed
<1>2. /\ RequestPoll(q)
      /\ work' = IF q \in Listed THEN work \cup {q} ELSE work
      /\ pc' = IF pc = "sleep" THEN "run" ELSE pc
      /\ poll_p' = poll_p
      /\ process_list' = process_list /\ Listed' = Listed
      /\ NextOf(poll_p)' = NextOf(poll_p)
  BY DEF Interrupt, listVars, Listed, NextOf
<1>3. ASSUME NEW p \in work
      PROVE  Noticed(p)'
  <2>1. Noticed(p) /\ p \in Proc
    BY <1>1 DEF PollInv, CastType
  <2>2. (needspoll[p] => needspoll'[p]) /\ (poll_requested => poll_requested')
    BY <1>1, <1>2, <2>1 DEF RequestPoll, PollType, pollVars
  <2>3. Ahead(p) => Ahead(p)'
    BY <1>2 DEF Ahead, Target
  <2>4. QED BY <1>2, <2>1, <2>2, <2>3 DEF Noticed
<1>4. CASE q \in Listed
  <2>1. needspoll'[q] /\ poll_requested'
    BY <1>1, <1>2, <1>4 DEF RequestPoll, PollType
  <2>2. QED BY <1>2, <1>3, <1>4, <2>1 DEF PollInv, Noticed
<1>5. CASE q \notin Listed
  BY <1>2, <1>3, <1>5 DEF PollInv
<1>6. QED BY <1>4, <1>5

LEMMA StepPolls == KernelInv /\ PollInv /\ [Next]_vars => PollInv'
<1> SUFFICES ASSUME KernelInv, PollInv, [Next]_vars PROVE PollInv'
  OBVIOUS
<1>1. CASE MainLoop
  BY <1>1, MovesPolls, FoundPolls, CalledPolls, EventPolls DEF MainLoop, DoPoll, DoEvent, Moves
<1>2. CASE \E p \in Proc : Interrupt(p)
  BY <1>2, InterruptPolls
<1>3. CASE UNCHANGED vars
  <2>1. UNCHANGED <<process_list, stale_next, needspoll, poll_requested, work, pc, poll_p>>
    BY <1>3 DEF vars, listVars, pollVars, loopVars
  <2>2. Listed' = Listed /\ NextOf(poll_p)' = NextOf(poll_p)
    BY <2>1 DEF Listed, NextOf
  <2>3. QED BY <2>1, <2>2 DEF PollInv, Noticed, Ahead, Target
<1>4. QED BY <1>1, <1>2, <1>3 DEF Next

\* A poll that an interrupt requests is never lost, whatever the kernel and the processes
\* are doing when it comes, and whatever becomes of the process list.
THEOREM PollsKept == Spec => []NoLostPoll
<1>1. Init => PollInv
  BY DEF Init, PollInv
<1>2. Spec => []KernelInv
  BY InitKernel, StepKernel, PTL DEF Spec
<1>3. KernelInv => ListType
  BY DEF KernelInv
<1>4. Spec => [](KernelInv /\ PollInv)
  BY <1>1, <1>2, StepPolls, PTL DEF Spec
<1>5. KernelInv /\ PollInv => NoLostPoll
  BY PollInvIs DEF KernelInv
<1>6. QED BY <1>4, <1>5, PTL

-----------------------------------------------------------------------------
(* Sleep *)

SleepInv == pc = "sleep" => Idle

LEMMA StepSleep == KernelInv /\ SleepInv /\ [Next]_vars => SleepInv'
<1> SUFFICES ASSUME KernelInv, SleepInv, [Next]_vars PROVE SleepInv'
  OBVIOUS
<1>1. CASE MainLoop
  <2>1. CASE TryToSleep
    <3>1. UNCHANGED <<nevents, poll_requested>> /\ (pc' = "sleep" => Idle)
      BY <2>1 DEF TryToSleep, queueVars, pollVars
    <3>2. QED BY <3>1 DEF SleepInv, Idle
  <2>2. CASE ~TryToSleep
    <3>1. pc' # "sleep"
      BY <1>1, <2>2 DEF MainLoop, DoPoll, DoEvent, RunPoll, RunEvent, PollSkip, PollFound,
           PollCall, PollReturn, PollEnd, NoEventWaits, TakeForOne, Dispatch, TakeForAll,
           BroadcastPoll, BroadcastNext, Deliver, BroadcastEnd, Return, BeginPoll
    <3>2. QED BY <3>1 DEF SleepInv
  <2>3. QED BY <2>1, <2>2
<1>2. CASE \E p \in Proc : Interrupt(p)
  <2>1. pc' # "sleep"
    BY <1>2 DEF Interrupt
  <2>2. QED BY <2>1 DEF SleepInv
<1>3. CASE UNCHANGED vars
  BY <1>3 DEF vars, loopVars, queueVars, pollVars, SleepInv, Idle
<1>4. QED BY <1>1, <1>2, <1>3 DEF Next

\* The processor never sleeps on an event or on work of a driver, whatever instruction
\* the last interrupt hit.
THEOREM SleepsOnlyIdle == Spec => []SleepsIdle
<1>1. Init => SleepInv
  BY DEF Init, SleepInv
<1>2. Spec => []KernelInv
  BY InitKernel, StepKernel, PTL DEF Spec
<1>3. Init => PollInv
  BY DEF Init, PollInv
<1>4. Spec => [](PollInv /\ SleepInv)
  BY <1>1, <1>2, <1>3, StepPolls, StepSleep, PTL DEF Spec
<1>5. PollInv /\ SleepInv => SleepsIdle
  BY DEF PollInv, Noticed, Ahead, SleepInv, SleepsIdle, Idle
<1>6. QED BY <1>4, <1>5, PTL

-----------------------------------------------------------------------------
(* The ring is a queue *)

LEMMA Remainder ==
  ASSUME NEW x \in 0 .. 2 * NUMEVENTS - 1
  PROVE  /\ x % NUMEVENTS = IF x < NUMEVENTS THEN x ELSE x - NUMEVENTS
         /\ x % NUMEVENTS \in 0 .. NUMEVENTS - 1
BY SMTT(60)

\* The cut to an unsigned char never changes the sum.
LEMMA Byte ==
  ASSUME NEW x \in 0 .. 255
  PROVE  x % 256 = x
OBVIOUS

LEMMA QueueIs ==
  ASSUME QueueType
  PROVE  /\ Queue \in Seq(Events \cup {NoEvent}) /\ Len(Queue) = nevents
         /\ \A i \in 1 .. nevents : Queue[i] = events[(fevent + i - 1) % NUMEVENTS]
<1>1. \A i \in 1 .. nevents : (fevent + i - 1) % NUMEVENTS \in 0 .. NUMEVENTS - 1
  <2>1. ASSUME NEW i \in 1 .. nevents
        PROVE  (fevent + i - 1) % NUMEVENTS \in 0 .. NUMEVENTS - 1
    <3>1. fevent + i - 1 \in 0 .. 2 * NUMEVENTS - 1
      BY <2>1 DEF QueueType
    <3>2. QED BY <3>1, Remainder
  <2>2. QED BY <2>1
<1>2. Queue \in [1 .. nevents -> Events \cup {NoEvent}]
  BY <1>1 DEF Queue, QueueType
<1>3. nevents \in Nat
  BY DEF QueueType
<1>4. QED BY <1>2, <1>3 DEF Queue

LEMMA QueueTyped ==
  QueueType => Queue \in Seq(Events \cup {NoEvent}) /\ Len(Queue) = nevents
BY QueueIs

LEMMA PostRefines ==
  ASSUME QueueType, QueueType', NEW e \in Events, Post(e)
  PROVE  EQ!Post \/ UNCHANGED <<Queue, given>>
<1>1. CASE nevents = NUMEVENTS
  <2>1. UNCHANGED <<events, nevents, fevent, given>>
    BY <1>1 DEF Post, queueVars
  <2>2. QED BY <2>1 DEF Queue
<1>2. CASE nevents # NUMEVENTS
  <2>1. /\ events' = [events EXCEPT ![PostSlot] = e]
        /\ nevents' = nevents + 1 /\ given' = e /\ fevent' = fevent
    BY <1>2 DEF Post
  <2>2. PostSlot = (fevent + nevents) % NUMEVENTS
    <3>1. fevent + nevents \in 0 .. 255
      BY DEF QueueType
    <3>2. PICK y \in 0 .. 255 : y = fevent + nevents
      BY <3>1
    <3>3. y % 256 = y
      BY Byte
    <3>4. QED BY <3>2, <3>3 DEF PostSlot
  <2>3. /\ fevent + nevents \in 0 .. 2 * NUMEVENTS - 1
        /\ fevent \in Nat /\ nevents \in Nat /\ nevents < NUMEVENTS
    BY <1>2 DEF QueueType
  <2>4. /\ PostSlot \in 0 .. NUMEVENTS - 1
        /\ PostSlot = IF fevent + nevents < NUMEVENTS
                        THEN fevent + nevents ELSE fevent + nevents - NUMEVENTS
    <3>1. PICK y \in 0 .. 2 * NUMEVENTS - 1 : y = fevent + nevents
      BY <2>3
    <3>2. y % NUMEVENTS = IF y < NUMEVENTS THEN y ELSE y - NUMEVENTS
      BY Remainder
    <3>3. PostSlot = y % NUMEVENTS
      BY <2>2, <3>1
    <3>4. /\ PostSlot \in 0 .. NUMEVENTS - 1
          /\ PostSlot = IF y < NUMEVENTS THEN y ELSE y - NUMEVENTS
      BY <3>2, <3>3
    <3>5. QED BY <2>3, <3>1, <3>4
  <2>5. ASSUME NEW i \in 1 .. nevents
        PROVE  Queue'[i] = Queue[i]
    <3> DEFINE slot == (fevent + i - 1) % NUMEVENTS
    <3>1. fevent + i - 1 \in 0 .. 2 * NUMEVENTS - 1 /\ fevent \in 0 .. NUMEVENTS - 1
      BY <2>3, <2>5 DEF QueueType
    <3>2. slot \in 0 .. NUMEVENTS - 1 /\ slot # PostSlot
      <4>1. PICK y \in 0 .. 2 * NUMEVENTS - 1 : y = fevent + i - 1
        BY <3>1
      <4>2. y % NUMEVENTS = IF y < NUMEVENTS THEN y ELSE y - NUMEVENTS
        BY Remainder
      <4>3. slot = y % NUMEVENTS
        BY <4>1
      <4> HIDE DEF slot
      <4>4. QED BY <2>3, <2>4, <2>5, <3>1, <4>1, <4>2, <4>3
    <3>3. i \in 1 .. nevents'
      BY <2>1, <2>3, <2>5
    <3>4. Queue[i] = events[slot] /\ Queue'[i] = events'[slot]
      BY <2>1, <2>5, <3>3 DEF Queue
    <3> HIDE DEF slot
    <3>5. QED BY <2>1, <3>2, <3>4 DEF QueueType
  <2>6. Queue'[nevents + 1] = e
    <3>1. nevents + 1 \in 1 .. nevents' /\ fevent + (nevents + 1) - 1 = fevent + nevents
      BY <2>1, <2>3 DEF QueueType
    <3>2. Queue'[nevents + 1] = events'[PostSlot]
      BY <2>1, <2>2, <3>1 DEF Queue
    <3>3. QED BY <2>1, <2>4, <3>2 DEF QueueType
  <2>7. /\ Queue \in Seq(Events \cup {NoEvent}) /\ Len(Queue) = nevents
        /\ Queue' \in Seq(Events \cup {NoEvent}) /\ Len(Queue') = nevents + 1
    <3>1. (QueueType => Queue \in Seq(Events \cup {NoEvent}) /\ Len(Queue) = nevents)'
      BY QueueTyped, PTL
    <3>2. QED BY <2>1, <3>1, QueueIs
  <2>8. Queue' = Append(Queue, e)
    <3>1. Append(Queue, e) \in Seq(Events \cup {NoEvent}) /\ Len(Append(Queue, e)) = nevents + 1
      BY <2>7
    <3>2. ASSUME NEW i \in 1 .. nevents + 1
          PROVE  Queue'[i] = Append(Queue, e)[i]
      BY <2>3, <2>5, <2>6, <2>7
    <3>3. QED BY <2>7, <3>1, <3>2
  <2>9. QED BY <2>1, <2>3, <2>7, <2>8 DEF EQ!Post
<1>3. QED BY <1>1, <1>2

LEMMA TakeRefines ==
  ASSUME QueueType, QueueType', nevents > 0, TakeEvent
  PROVE  EQ!Take
<1>1. /\ fevent' = (fevent + 1) % NUMEVENTS /\ nevents' = nevents - 1
      /\ events' = events /\ given' = given
  BY DEF TakeEvent
<1>2. fevent \in 0 .. NUMEVENTS - 1 /\ nevents \in 1 .. NUMEVENTS
  BY DEF QueueType
<1>3. /\ Queue \in Seq(Events \cup {NoEvent}) /\ Len(Queue) = nevents
      /\ Queue' \in Seq(Events \cup {NoEvent}) /\ Len(Queue') = nevents - 1
  <2>1. (QueueType => Queue \in Seq(Events \cup {NoEvent}) /\ Len(Queue) = nevents)'
    BY QueueTyped, PTL
  <2>2. QED BY <1>1, <2>1, QueueIs
<1>4. ASSUME NEW i \in 1 .. nevents - 1
      PROVE  Queue'[i] = Queue[i + 1]
  <2>1. PICK f \in 0 .. NUMEVENTS - 1 : f = fevent
    BY <1>2
  <2>2. PICK g \in 0 .. NUMEVENTS - 1 : g = fevent' /\ g = (f + 1) % NUMEVENTS
    <3>1. (f + 1) % NUMEVENTS \in 0 .. NUMEVENTS - 1
      BY <2>1
    <3>2. QED BY <1>1, <2>1, <3>1
  <2>3. i \in 1 .. NUMEVENTS - 1
    BY <1>2
  <2>4. (g + i - 1) % NUMEVENTS = (f + i) % NUMEVENTS
    <3>1. g = IF f + 1 < NUMEVENTS THEN f + 1 ELSE f + 1 - NUMEVENTS
      <4>1. PICK z \in 0 .. 2 * NUMEVENTS - 1 : z = f + 1
        BY <2>1
      <4>2. z % NUMEVENTS = IF z < NUMEVENTS THEN z ELSE z - NUMEVENTS
        BY Remainder
      <4>3. g = z % NUMEVENTS
        BY <2>2, <4>1
      <4>4. QED BY <4>1, <4>2, <4>3
    <3>2. PICK x \in 0 .. 2 * NUMEVENTS - 1 : x = f + i
      BY <2>1, <2>3
    <3>3. PICK y \in 0 .. 2 * NUMEVENTS - 1 : y = g + i - 1
      BY <2>2, <2>3
    <3>4. /\ x % NUMEVENTS = IF x < NUMEVENTS THEN x ELSE x - NUMEVENTS
          /\ y % NUMEVENTS = IF y < NUMEVENTS THEN y ELSE y - NUMEVENTS
      BY Remainder
    <3>5. x % NUMEVENTS = y % NUMEVENTS
      BY <2>1, <2>3, <3>1, <3>2, <3>3, <3>4
    <3>6. QED BY <3>2, <3>3, <3>5
  <2>5. i + 1 \in 1 .. nevents /\ i \in 1 .. nevents' /\ f + (i + 1) - 1 = f + i
    BY <1>1, <1>2, <2>1
  <2>6. Queue[i + 1] = events[(f + i) % NUMEVENTS]
    BY <2>1, <2>5 DEF Queue
  <2>7. Queue'[i] = events[(g + i - 1) % NUMEVENTS]
    BY <1>1, <2>2, <2>5 DEF Queue
  <2>8. QED BY <2>4, <2>6, <2>7
<1>5. Queue # << >>
  BY <1>2, <1>3
<1>6. Queue' = Tail(Queue)
  <2>1. /\ Tail(Queue) \in Seq(Events \cup {NoEvent}) /\ Len(Tail(Queue)) = nevents - 1
        /\ \A i \in 1 .. nevents - 1 : Tail(Queue)[i] = Queue[i + 1]
    BY <1>2, <1>3, <1>5
  <2>2. QED BY <1>3, <1>4, <2>1
<1>7. QED BY <1>1, <1>5, <1>6 DEF EQ!Take

\* A run of a process posts at most one event.
LEMMA CallRefines ==
  ASSUME QueueType, QueueType', NEW p, NEW taken, CallProcess(p, taken)
  PROVE  EQ!Post \/ UNCHANGED <<Queue, given>>
<1>1. CASE UNCHANGED queueVars
  BY <1>1 DEF queueVars, Queue
<1>2. CASE \E q \in Proc \cup {NULL}, e \in Msg : Post([ev |-> e, p |-> q])
  <2>1. PICK e \in Events : Post(e)
    BY <1>2 DEF Events
  <2>2. QED BY <2>1, PostRefines
<1>3. QED BY <1>1, <1>2 DEF CallProcess, Operate

LEMMA StepQueue ==
  KernelInv /\ KernelInv' /\ [Next]_vars => [EQ!Next]_<<Queue, given>>
<1> SUFFICES ASSUME KernelInv, KernelInv', [Next]_vars
             PROVE  EQ!Next \/ UNCHANGED <<Queue, given>>
  BY DEF EQ!Next
<1>1. QueueType /\ QueueType'
  BY DEF KernelInv
<1>2. CASE UNCHANGED queueVars
  BY <1>2 DEF queueVars, Queue
<1>3. CASE PollCall \/ Dispatch \/ Deliver
  <2>1. PICK p, taken : CallProcess(p, taken)
    BY <1>3 DEF PollCall, Dispatch, Deliver
  <2>2. QED BY <1>1, <2>1, CallRefines DEF EQ!Next
<1>4. CASE TakeForOne \/ TakeForAll
  <2>1. nevents > 0 /\ TakeEvent
    BY <1>4 DEF TakeForOne, TakeForAll
  <2>2. QED BY <1>1, <2>1, TakeRefines DEF EQ!Next
<1>5. CASE \E p \in Proc : Interrupt(p)
  BY <1>2, <1>5 DEF Interrupt
<1>6. CASE RunPoll \/ RunEvent \/ PollSkip \/ PollFound \/ PollReturn \/ PollEnd
  BY <1>2, <1>6 DEF RunPoll, RunEvent, PollSkip, PollFound, PollReturn, PollEnd
<1>7. CASE NoEventWaits \/ BroadcastPoll \/ BroadcastNext \/ BroadcastEnd
  BY <1>2, <1>7 DEF NoEventWaits, BroadcastPoll, BroadcastNext, BroadcastEnd
<1>8. CASE Return \/ TryToSleep
  BY <1>2, <1>8 DEF Return, TryToSleep
<1>9. CASE UNCHANGED vars
  BY <1>2, <1>9 DEF vars
<1>10. QED BY <1>3, <1>4, <1>5, <1>6, <1>7, <1>8, <1>9 DEF Next, MainLoop, DoPoll, DoEvent

\* The ring implements the queue (process.c:261-272, 335-350): events leave in the
\* order in which they were posted, none lost or repeated, for every size up to 128.
THEOREM QueueKept == Spec => KeepsQueue
<1>1. Init => EQ!Init
  <2>1. Init => Queue \in [{} -> Events] /\ given = NoEvent
    BY DEF Init, Queue
  <2>2. QED BY <2>1 DEF EQ!Init
<1>2. QED BY <1>1, InitKernel, StepKernel, StepQueue, PTL DEF Spec, KeepsQueue, EQ!Spec
-----------------------------------------------------------------------------
(* Broadcasts *)

\* A process put in front of the list.
LEMMA PrependSuccessor ==
  ASSUME NEW list \in Seq(Proc), Distinct(list), NEW q \in Proc, q \notin Elements(list)
  PROVE  /\ Successor(<<q>> \o list, q) = First(list)
         /\ \A y \in Elements(list) : Successor(<<q>> \o list, y) = Successor(list, y)
<1> DEFINE new == <<q>> \o list
<1>1. /\ new \in Seq(Proc) /\ Len(new) = Len(list) + 1 /\ new[1] = q
      /\ \A i \in 1 .. Len(list) : new[i + 1] = list[i]
  OBVIOUS
<1>2. Distinct(new)
  BY Prepend
<1>3. Len(list) \in Nat
  OBVIOUS
<1> HIDE DEF new
<1>4. Place(new, q) = 1
  <2>1. 1 \in 1 .. Len(new)
    BY <1>1, <1>3
  <2>2. QED BY <1>1, <1>2, <2>1, PlaceIs
<1>5. Successor(new, q) = First(list)
  <2>1. CASE list = << >>
    BY <1>1, <1>4, <2>1 DEF Successor, First
  <2>2. CASE list # << >>
    <3>1. 1 \in 1 .. Len(list) /\ 1 # Len(new)
      BY <1>1, <1>3, <2>2
    <3>2. new[1 + 1] = list[1]
      BY <1>1, <3>1
    <3>3. QED BY <1>4, <2>2, <3>1, <3>2 DEF Successor, First
  <2>3. QED BY <2>1, <2>2
<1>6. ASSUME NEW y \in Elements(list)
      PROVE  Successor(new, y) = Successor(list, y)
  <2>1. PICK i \in 1 .. Len(list) : i = Place(list, y) /\ list[i] = y
    BY PlaceFact
  <2>2. i + 1 \in 1 .. Len(new) /\ new[i + 1] = y
    BY <1>1, <1>3, <2>1
  <2>3. Place(new, y) = i + 1
    BY <1>1, <1>2, <2>2, PlaceIs
  <2>4. CASE i = Len(list)
    BY <1>1, <2>1, <2>3, <2>4 DEF Successor
  <2>5. CASE i # Len(list)
    <3>1. i + 1 \in 1 .. Len(list) /\ i + 1 # Len(new)
      BY <1>1, <1>3, <2>1, <2>5
    <3>2. new[(i + 1) + 1] = list[i + 1]
      BY <1>1, <3>1
    <3>3. QED BY <2>1, <2>3, <2>5, <3>1, <3>2 DEF Successor
  <2>6. QED BY <2>4, <2>5
<1>7. QED BY <1>5, <1>6 DEF new

\* A process taken out of the list: the one before it goes on behind it.
LEMMA UnlinkSuccessor ==
  ASSUME NEW list \in Seq(Proc), Distinct(list), NEW q \in Elements(list),
         NEW y \in Elements(list), y # q
  PROVE  Successor(Unlink(list, q), y) =
           IF Successor(list, y) = q THEN Successor(list, q) ELSE Successor(list, y)
<1> DEFINE new == Unlink(list, q)
<1>1. PICK k \in 1 .. Len(list) : k = Place(list, q) /\ list[k] = q
  BY PlaceFact
<1>2. PICK i \in 1 .. Len(list) : i = Place(list, y) /\ list[i] = y
  BY PlaceFact
<1>3. Len(list) \in Nat /\ i # k
  BY <1>1, <1>2
<1>4. /\ new = [j \in 1 .. Len(list) - 1 |-> IF j < k THEN list[j] ELSE list[j + 1]]
      /\ new \in Seq(Proc) /\ Distinct(new) /\ NULL \notin Elements(list)
  BY <1>1, UnlinkFact, ListDomain DEF Unlink
<1>5. Len(new) = Len(list) - 1
  <2>1. Len(new) \in Nat /\ DOMAIN new = 1 .. Len(new)
    BY <1>4
  <2>2. DOMAIN new = 1 .. Len(list) - 1 /\ Len(list) - 1 \in Nat
    BY <1>1, <1>3, <1>4
  <2>3. QED BY <2>1, <2>2
<1>6. \A j \in 1 .. Len(list) - 1 : new[j] = IF j < k THEN list[j] ELSE list[j + 1]
  BY <1>4
<1> HIDE DEF new
<1>7. \A m \in 1 .. Len(list) : list[m] = q => m = k
  BY <1>1 DEF Distinct
<1>8. Successor(list, q) = IF k = Len(list) THEN NULL ELSE list[k + 1]
  BY <1>1 DEF Successor
<1>9. Successor(list, y) = IF i = Len(list) THEN NULL ELSE list[i + 1]
  BY <1>2 DEF Successor
<1>10. ASSUME i < k
       PROVE  Successor(new, y) =
                IF Successor(list, y) = q THEN Successor(list, q) ELSE Successor(list, y)
  <2>1. i \in 1 .. Len(new) /\ new[i] = y
    BY <1>2, <1>3, <1>5, <1>6, <1>10
  <2>2. Place(new, y) = i
    BY <1>4, <2>1, PlaceIs
  <2>3. Successor(new, y) = IF i = Len(list) - 1 THEN NULL ELSE new[i + 1]
    BY <1>5, <2>2 DEF Successor
  <2>4. CASE i + 1 = k
    <3>1. Successor(list, y) = q
      BY <1>1, <1>3, <1>9, <2>4
    <3>2. i # Len(list) - 1 => new[i + 1] = list[k + 1]
      BY <1>3, <1>6, <2>4
    <3>3. QED BY <1>3, <1>8, <2>3, <2>4, <3>1, <3>2
  <2>5. CASE i + 1 < k
    <3>1. i + 1 \in 1 .. Len(list) - 1 /\ i # Len(list) - 1 /\ i # Len(list) /\ i + 1 # k
      BY <1>3, <2>5
    <3>2. new[i + 1] = list[i + 1] /\ list[i + 1] # q
      BY <1>3, <1>6, <1>7, <2>5, <3>1
    <3>3. QED BY <1>9, <2>3, <3>1, <3>2
  <2>6. QED BY <1>3, <1>10, <2>4, <2>5
<1>11. ASSUME i > k
       PROVE  Successor(new, y) =
                IF Successor(list, y) = q THEN Successor(list, q) ELSE Successor(list, y)
  <2>1. i - 1 \in 1 .. Len(list) - 1 /\ ~ (i - 1 < k) /\ (i - 1) + 1 = i
    BY <1>1, <1>3, <1>11
  <2>2. i - 1 \in 1 .. Len(new) /\ new[i - 1] = y
    BY <1>2, <1>5, <1>6, <2>1
  <2>3. Place(new, y) = i - 1
    BY <1>4, <2>2, PlaceIs
  <2>4. Successor(new, y) = IF i - 1 = Len(list) - 1 THEN NULL ELSE new[(i - 1) + 1]
    BY <1>5, <2>3 DEF Successor
  <2>5. CASE i = Len(list)
    <3>1. Successor(new, y) = NULL /\ Successor(list, y) = NULL
      BY <1>3, <1>9, <2>4, <2>5
    <3>2. q # NULL
      BY <1>4
    <3>3. QED BY <3>1, <3>2
  <2>6. CASE i # Len(list)
    <3>1. i \in 1 .. Len(list) - 1 /\ ~ (i < k) /\ i + 1 \in 1 .. Len(list) /\ i + 1 # k
          /\ i - 1 # Len(list) - 1
      BY <1>1, <1>3, <1>11, <2>6
    <3>2. new[i] = list[i + 1] /\ list[i + 1] # q
      BY <1>6, <1>7, <3>1
    <3>3. QED BY <1>9, <2>1, <2>4, <2>6, <3>1, <3>2
  <2>7. QED BY <2>5, <2>6
<1>12. QED BY <1>3, <1>10, <1>11 DEF new

\* Going on from the first process, one comes to all of them.
LEMMA AllFollow ==
  ASSUME NEW list \in Seq(Proc), Distinct(list), NEW S,
         First(list) \in S \cup {NULL},
         \A y \in Elements(list) \cap S : Successor(list, y) \in S \cup {NULL}
  PROVE  Elements(list) \subseteq S
<1>1. /\ Len(list) \in Nat /\ DOMAIN list = 1 .. Len(list)
      /\ \A i \in 1 .. Len(list) : list[i] # NULL
  BY ListDomain
<1> DEFINE T == {i \in 1 .. Len(list) : list[i] \notin S}
<1>2. SUFFICES ASSUME T # {} PROVE FALSE
  BY <1>1 DEF Elements
<1>3. T \subseteq Nat
  BY <1>1
<1>4. PICK i \in T : \A j \in T : i <= j
  BY <1>2, <1>3, LeastNat
<1>5. i \in 1 .. Len(list) /\ list[i] \notin S
  OBVIOUS
<1>6. CASE i = 1
  <2>1. First(list) = list[1]
    BY <1>1, <1>5, <1>6 DEF First
  <2>2. QED BY <1>1, <1>5, <1>6, <2>1
<1>7. CASE i # 1
  <2>1. i - 1 \in 1 .. Len(list) /\ ~ (i <= i - 1) /\ (i - 1) + 1 = i /\ i - 1 # Len(list)
    BY <1>1, <1>5, <1>7
  <2>2. list[i - 1] \in S
    BY <1>4, <2>1
  <2>3. list[i - 1] \in Elements(list) /\ Place(list, list[i - 1]) = i - 1
    BY <2>1, PlaceIs
  <2>4. Successor(list, list[i - 1]) = list[i]
    BY <2>1, <2>3 DEF Successor
  <2>5. QED BY <1>1, <1>5, <2>2, <2>3, <2>4
<1>8. QED BY <1>6, <1>7

\* A set from which the next pointers do not lead out.
Closed(S) == \A y \in S : NextOf(y) \in S \cup {NULL}

\* Where a run of a process leaves the next pointers.
SameNexts == Listed' = Listed /\ \A y \in Proc : NextOf(y)' = NextOf(y)
Joins(q) ==
  /\ Listed' = Listed \cup {q}
  /\ NextOf(q)' = First(process_list)
  /\ \A y \in Proc \ {q} : NextOf(y)' = NextOf(y)
Leaves(q) ==
  /\ Listed' = Listed \ {q}
  /\ NextOf(q)' = NextOf(q)
  /\ \A y \in Proc \ {q} :
       NextOf(y)' = NextOf(y) \/ (NextOf(y) = q /\ NextOf(y)' = NextOf(q))

LEMMA JoinNexts ==
  ASSUME ListType, NEW q \in Proc, StartProcess(q)
  PROVE  SameNexts \/ (q \notin Listed /\ Joins(q))
<1>1. CASE q \in Listed
  BY <1>1 DEF StartProcess, listVars, SameNexts, Listed, NextOf
<1>2. CASE q \notin Listed
  <2>1. process_list' = <<q>> \o process_list /\ stale_next' = stale_next
    BY <1>2 DEF StartProcess
  <2>2. process_list \in Seq(Proc) /\ Distinct(process_list) /\ q \notin Elements(process_list)
    BY <1>2, SoundDistinct DEF ListType, Listed
  <2>3. /\ Elements(process_list') = Elements(process_list) \cup {q}
        /\ Successor(process_list', q) = First(process_list)
        /\ \A y \in Elements(process_list) : Successor(process_list', y) = Successor(process_list, y)
    BY <2>1, <2>2, Prepend, PrependSuccessor
  <2>4. QED BY <1>2, <2>1, <2>3 DEF Joins, Listed, NextOf, NextIn
<1>3. QED BY <1>1, <1>2

LEMMA LeaveNexts ==
  ASSUME ListType, NEW q \in Proc, ExitProcess(q) \/ ExitSelf(q)
  PROVE  SameNexts \/ (q \in Listed /\ Leaves(q))
<1>1. CASE q \notin Listed
  BY <1>1 DEF ExitProcess, ExitSelf, listVars, SameNexts, Listed, NextOf
<1>2. CASE q \in Listed
  <2>1. /\ process_list' = Unlink(process_list, q)
        /\ stale_next' = [stale_next EXCEPT ![q] = NextOf(q)]
    BY <1>2 DEF ExitProcess, ExitSelf
  <2>2. process_list \in Seq(Proc) /\ Distinct(process_list) /\ q \in Elements(process_list)
    BY <1>2, SoundDistinct DEF ListType, Listed
  <2>3. Elements(process_list') = Elements(process_list) \ {q}
    BY <2>1, <2>2, UnlinkFact
  <2>4. \A y \in Elements(process_list) : y # q =>
          Successor(process_list', y) =
            IF Successor(process_list, y) = q THEN Successor(process_list, q)
            ELSE Successor(process_list, y)
    BY <2>1, <2>2, UnlinkSuccessor
  <2>5. NextOf(q)' = NextOf(q)
    <3>1. stale_next'[q] = NextOf(q)
      BY <2>1 DEF ListType
    <3>2. QED BY <2>3, <3>1 DEF NextOf, NextIn
  <2>6. ASSUME NEW y \in Proc \ {q}
        PROVE  NextOf(y)' = NextOf(y) \/ (NextOf(y) = q /\ NextOf(y)' = NextOf(q))
    <3>1. CASE y \in Elements(process_list)
      BY <2>2, <2>3, <2>4, <2>6, <3>1 DEF NextOf, NextIn
    <3>2. CASE y \notin Elements(process_list)
      <4>1. stale_next'[y] = stale_next[y]
        BY <2>1, <2>6 DEF ListType
      <4>2. QED BY <2>3, <3>2, <4>1 DEF NextOf, NextIn
    <3>3. QED BY <3>1, <3>2
  <2>7. QED BY <1>2, <2>3, <2>5, <2>6 DEF Leaves, Listed
<1>3. QED BY <1>1, <1>2

LEMMA CallNexts ==
  ASSUME KernelInv, NEW p \in Proc, NEW taken, CallProcess(p, taken)
  PROVE  \/ SameNexts
         \/ \E q \in Proc : q \notin Listed /\ Joins(q)
         \/ \E q \in Listed : Leaves(q)
<1>1. ListType
  BY DEF KernelInv
<1>2. CASE UNCHANGED listVars
  BY <1>2 DEF listVars, SameNexts, Listed, NextOf
<1>3. CASE (\E q \in Proc : StartProcess(q) \/ ExitProcess(q)) \/ ExitSelf(p)
  BY <1>1, <1>3, JoinNexts, LeaveNexts
<1>4. QED BY <1>2, <1>3 DEF CallProcess, Operate

\* From process x the loop comes to z: it is in all closed sets around x.
Leads(x, z) == \A S \in SUBSET Proc : x \in S /\ Closed(S) => z \in S

LEMMA AllLed ==
  ASSUME ListType, NEW S \in SUBSET Proc, First(process_list) \in S \cup {NULL},
         \A y \in Listed \cap S : NextOf(y) \in S \cup {NULL}
  PROVE  Listed \subseteq S
<1>1. process_list \in Seq(Proc) /\ Distinct(process_list)
  BY SoundDistinct DEF ListType
<1>2. \A y \in Elements(process_list) \cap S : Successor(process_list, y) \in S \cup {NULL}
  BY DEF Listed, NextOf, NextIn
<1>3. QED BY <1>1, <1>2, AllFollow DEF Listed

\* Whatever a process does to the list, the loop still comes to those who stay.
LEMMA LeadsStays ==
  ASSUME KernelInv, NEW p \in Proc, NEW taken, CallProcess(p, taken),
         NEW x \in Proc, NEW z \in Listed, z \in Listed', Leads(x, z)
  PROVE  Leads(x, z)'
<1>1. SUFFICES ASSUME NEW S \in SUBSET Proc, x \in S, Closed(S)'
               PROVE  z \in S
  BY DEF Leads
<1>2. ListType /\ Listed \subseteq Proc
  BY ListDomain DEF KernelInv, ListType, Listed
<1>3. \A y \in S : NextOf(y)' \in S \cup {NULL}
  BY <1>1 DEF Closed
<1>4. CASE SameNexts
  <2>1. Closed(S)
    BY <1>3, <1>4 DEF SameNexts, Closed
  <2>2. QED BY <1>1, <2>1 DEF Leads
<1>5. ASSUME NEW q \in Proc, q \notin Listed, Joins(q)
      PROVE  z \in S
  <2>1. CASE q \notin S
    <3>1. Closed(S)
      BY <1>3, <1>5, <2>1 DEF Joins, Closed
    <3>2. QED BY <1>1, <3>1 DEF Leads
  <2>2. CASE q \in S
    <3>1. First(process_list) \in S \cup {NULL}
      BY <1>3, <1>5, <2>2 DEF Joins
    <3>2. \A y \in Listed \cap S : NextOf(y) \in S \cup {NULL}
      BY <1>3, <1>5 DEF Joins
    <3>3. QED BY <1>2, <3>1, <3>2, AllLed
  <2>3. QED BY <2>1, <2>2
<1>6. ASSUME NEW q \in Listed, Leaves(q)
      PROVE  z \in S
  <2>1. CASE NextOf(q) \in S \cup {NULL}
    <3>1. Closed(S \cup {q})
      BY <1>2, <1>3, <1>6, <2>1 DEF Leaves, Closed
    <3>2. z \in S \cup {q}
      BY <1>1, <1>2, <3>1 DEF Leads
    <3>3. QED BY <1>6, <3>2 DEF Leaves
  <2>2. CASE NextOf(q) \notin S \cup {NULL}
    <3>1. Closed(S)
      BY <1>3, <1>6, <2>2 DEF Leaves, Closed
    <3>2. QED BY <1>1, <3>1 DEF Leads
  <2>3. QED BY <2>1, <2>2
<1>7. QED BY <1>4, <1>5, <1>6, CallNexts

\* The loop goes on in the order of some ranks of the processes.
Ordered(S, rank) ==
  \A y \in S : NextOf(y) # NULL => NextOf(y) \in S /\ rank[NextOf(y)] > rank[y]

\* While no process joins, the order stays.
LEMMA OrderStays ==
  ASSUME KernelInv, NEW p \in Proc, NEW taken, CallProcess(p, taken), Listed' \subseteq Listed,
         NEW S \in SUBSET Proc, NEW rank \in [Proc -> Nat], Ordered(S, rank)
  PROVE  Ordered(S, rank)'
<1>1. SUFFICES ASSUME NEW y \in S, NextOf(y)' # NULL
               PROVE  NextOf(y)' \in S /\ rank[NextOf(y)'] > rank[y]
  <2>1. (\A y \in S : NextOf(y) # NULL => NextOf(y) \in S /\ rank[NextOf(y)] > rank[y])'
    BY <1>1
  <2>2. QED BY <2>1 DEF Ordered
<1>2. CASE NextOf(y)' = NextOf(y)
  BY <1>1, <1>2 DEF Ordered
<1>3. ASSUME NEW q \in Listed, NextOf(y) = q, NextOf(y)' = NextOf(q)
      PROVE  NextOf(y)' \in S /\ rank[NextOf(y)'] > rank[y]
  <2>1. q # NULL
    BY ListDomain DEF KernelInv, ListType, Listed
  <2>2. q \in S /\ rank[q] > rank[y]
    BY <1>3, <2>1 DEF Ordered
  <2>3. NextOf(q) \in S /\ rank[NextOf(q)] > rank[q]
    BY <1>1, <1>3, <2>2 DEF Ordered
  <2>4. rank[y] \in Nat /\ rank[q] \in Nat /\ rank[NextOf(q)] \in Nat
    BY <2>2, <2>3
  <2>5. QED BY <1>3, <2>2, <2>3, <2>4
<1>4. CASE SameNexts
  BY <1>2, <1>4 DEF SameNexts
<1>5. ASSUME NEW q \in Listed, Leaves(q)
      PROVE  NextOf(y)' \in S /\ rank[NextOf(y)'] > rank[y]
  BY <1>2, <1>3, <1>5 DEF Leaves
<1>6. \A q \in Proc : q \notin Listed => ~ Joins(q)
  BY DEF Joins
<1>7. QED BY <1>4, <1>5, <1>6, CallNexts

\* No process that has the event already is on the way of the loop.
NoneTwice ==
  \E S \in SUBSET Proc, rank \in [Proc -> Nat] :
    event_p \in S /\ S \cap reached = {} /\ Ordered(S, rank)

CastInv ==
  /\ pc \in {"run", "event", "return", "idle", "sleep"} => event_p = NULL
  /\ event_p = NULL \/ pc = "dispatch" => audience \subseteq reached
  /\ audience \subseteq Listed
  /\ Casting => /\ \A z \in audience \ reached : Leads(event_p, z)
                /\ ~joined => NoneTwice

LEMMA CastInvInit == Init => CastInv
BY DEF Init, CastInv, Casting

\* Steps that leave the broadcast where it is.
LEMMA QuietCast ==
  ASSUME CastInv, UNCHANGED <<process_list, stale_next, event_p, castVars>>,
         pc' \in {"run", "event", "return", "idle", "sleep"} => event_p = NULL,
         pc' = "dispatch" <=> pc = "dispatch"
  PROVE  CastInv'
<1>1. Listed' = Listed /\ Casting' = Casting /\ \A y : NextOf(y)' = NextOf(y)
  BY DEF Listed, Casting, NextOf
<1>2. \A z : Leads(event_p, z) => Leads(event_p, z)'
  BY <1>1 DEF Leads, Closed
<1>3. NoneTwice => NoneTwice'
  BY <1>1 DEF NoneTwice, Ordered, castVars
<1>4. QED BY <1>1, <1>2, <1>3 DEF CastInv, castVars

LEMMA MovesCast ==
  ASSUME KernelInv, CastInv, Moves \/ PollFound \/ (\E p \in Proc : Interrupt(p))
  PROVE  CastInv'
<1>1. CASE Moves
  <2>1. /\ UNCHANGED <<process_list, stale_next, event_p, castVars>>
        /\ pc # "dispatch" /\ pc' # "dispatch"
    BY <1>1 DEF Moves, RunPoll, RunEvent, PollSkip, PollReturn, PollEnd, NoEventWaits,
       BroadcastPoll, BroadcastNext, Return, TryToSleep, BeginPoll, listVars
  <2>2. pc' \in {"run", "event", "return", "idle", "sleep"} => event_p = NULL
    BY <1>1 DEF Moves, RunPoll, RunEvent, PollSkip, PollReturn, PollEnd, NoEventWaits,
       BroadcastPoll, BroadcastNext, Return, TryToSleep, BeginPoll, CastInv
  <2>3. QED BY <2>1, <2>2, QuietCast
<1>2. CASE PollFound
  BY <1>2, QuietCast DEF PollFound
<1>3. CASE \E p \in Proc : Interrupt(p)
  BY <1>3, QuietCast DEF Interrupt, listVars, CastInv
<1>4. QED BY <1>1, <1>2, <1>3

LEMMA PollCallCast ==
  ASSUME KernelInv, CastInv, PollCall
  PROVE  CastInv'
<1>1. /\ pc = "called" /\ pc' = "handled" /\ poll_p \in Proc
      /\ CallProcess(poll_p, {poll_p}) /\ UNCHANGED <<event_p, reached>>
      /\ event_p \in Proc \cup {NULL} /\ Listed \subseteq Proc
  BY ListDomain DEF PollCall, KernelInv, LoopType, ListType, Listed
<1>2. audience' = audience \cap Listed'
      /\ joined' = (joined \/ (Casting /\ ~ (Listed' \subseteq Listed)))
  BY <1>1 DEF CallProcess, Listed
<1>3. Casting' => Casting /\ event_p \in Proc
  BY <1>1 DEF Casting
<1>4. ASSUME Casting', NEW z \in audience' \ reached' PROVE Leads(event_p, z)'
  <2>1. z \in Listed /\ z \in Listed' /\ Leads(event_p, z) /\ event_p \in Proc
    BY <1>1, <1>2, <1>3, <1>4 DEF CastInv
  <2>2. PICK x \in Proc : x = event_p
    BY <2>1
  <2>3. Leads(x, z)'
    BY <1>1, <2>1, <2>2, LeadsStays
  <2>4. QED BY <1>1, <2>2, <2>3 DEF Leads
<1>5. ASSUME Casting', ~joined' PROVE NoneTwice'
  <2>1. Listed' \subseteq Listed /\ NoneTwice
    BY <1>2, <1>3, <1>5 DEF CastInv, KernelInv, CastType
  <2>2. PICK S \in SUBSET Proc, rank \in [Proc -> Nat] :
               event_p \in S /\ S \cap reached = {} /\ Ordered(S, rank)
    BY <2>1 DEF NoneTwice
  <2>3. Ordered(S, rank)'
    BY <1>1, <2>1, <2>2, OrderStays
  <2>4. QED BY <1>1, <2>2, <2>3 DEF NoneTwice
<1>6. QED BY <1>1, <1>2, <1>4, <1>5 DEF CastInv

LEMMA DispatchCast ==
  ASSUME KernelInv, CastInv, Dispatch
  PROVE  CastInv'
BY DEF Dispatch, CallProcess, CastInv, Casting, Listed

\* The loop gives the event to a process and goes on behind it.
LEMMA DeliverCast ==
  ASSUME KernelInv, KernelInv', CastInv, Deliver
  PROVE  CastInv'
<1>1. PICK x \in Proc : x = event_p
  BY DEF Deliver, KernelInv, LoopType
<1>2. /\ pc = "deliver" /\ pc' = "broadcast" /\ CallProcess(x, {})
      /\ reached' = IF running[x] THEN reached \cup {x} ELSE reached
      /\ event_p' = NextOf(x)'
  BY <1>1 DEF Deliver, NextOf
<1>3. /\ audience' = audience \cap Listed'
      /\ joined' = (joined \/ ~ (Listed' \subseteq Listed))
      /\ joined \in BOOLEAN /\ Casting
  BY <1>1, <1>2 DEF CallProcess, Listed, Casting, KernelInv, CastType
<1>4. event_p' \in Proc \cup {NULL}
  BY DEF KernelInv, LoopType
<1>5. \A p \in Listed : running[p]
  BY DEF KernelInv, ListType, ListSound
<1>6. ASSUME NEW z \in audience' \ reached'
      PROVE  Leads(x, z)' /\ z # x
  <2>1. z \in Listed /\ z \in Listed' /\ z \in audience \ reached
    BY <1>2, <1>3, <1>6 DEF CastInv
  <2>2. Leads(x, z)
    BY <1>1, <1>3, <2>1 DEF CastInv
  <2>3. Leads(x, z)'
    BY <1>2, <2>1, <2>2, LeadsStays
  <2>4. z # x
    BY <1>2, <1>5, <1>6, <2>1
  <2>5. QED BY <2>3, <2>4
<1>7. ASSUME event_p' = NULL, NEW z \in audience' PROVE z \in reached'
  <2>1. SUFFICES ASSUME z \notin reached' PROVE FALSE
    OBVIOUS
  <2>2. Leads(x, z)' /\ z # x
    BY <1>6, <1>7, <2>1
  <2>3. Closed({x})'
    BY <1>2, <1>7 DEF Closed
  <2>4. QED BY <2>2, <2>3 DEF Leads
<1>8. ASSUME event_p' # NULL, NEW z \in audience' \ reached' PROVE Leads(event_p, z)'
  <2>1. PICK y \in Proc : y = event_p' /\ y = NextOf(x)'
    BY <1>2, <1>4, <1>8
  <2>2. ASSUME NEW S \in SUBSET Proc, y \in S, Closed(S)' PROVE z \in S
    <3>1. Closed(S \cup {x})'
      BY <2>1, <2>2 DEF Closed
    <3>2. z \in S \cup {x} /\ z # x
      BY <1>6, <1>8, <3>1 DEF Leads
    <3>3. QED BY <3>2
  <2>3. QED BY <2>1, <2>2 DEF Leads
<1>9. ASSUME event_p' # NULL, ~joined' PROVE NoneTwice'
  <2>1. Listed' \subseteq Listed /\ NoneTwice
    BY <1>3, <1>9 DEF CastInv
  <2>2. PICK S \in SUBSET Proc, rank \in [Proc -> Nat] :
               x \in S /\ S \cap reached = {} /\ Ordered(S, rank)
    BY <1>1, <2>1 DEF NoneTwice
  <2>3. Ordered(S, rank)'
    BY <1>2, <2>1, <2>2, OrderStays
  <2> DEFINE R == {y \in S : rank[y] > rank[x]}
  <2>4. event_p' \in R
    BY <1>2, <1>9, <2>2, <2>3 DEF Ordered
  <2>5. R \cap reached' = {}
    BY <1>2, <2>2
  <2>6. Ordered(R, rank)'
    <3>1. SUFFICES ASSUME NEW y \in R, NextOf(y)' # NULL
                   PROVE  NextOf(y)' \in R /\ rank[NextOf(y)'] > rank[y]
      <4>1. (\A y \in R : NextOf(y) # NULL => NextOf(y) \in R /\ rank[NextOf(y)] > rank[y])'
        BY <3>1
      <4>2. QED BY <4>1 DEF Ordered
    <3>2. NextOf(y)' \in S /\ rank[NextOf(y)'] > rank[y]
      BY <2>3, <3>1 DEF Ordered
    <3>3. rank[y] \in Nat /\ rank[x] \in Nat /\ rank[NextOf(y)'] \in Nat /\ rank[y] > rank[x]
      BY <2>2, <3>1, <3>2
    <3>4. QED BY <3>2, <3>3
  <2>7. R \in SUBSET Proc
    OBVIOUS
  <2> HIDE DEF R
  <2>8. QED BY <2>4, <2>5, <2>6, <2>7 DEF NoneTwice
<1>10. QED BY <1>2, <1>3, <1>7, <1>8, <1>9 DEF CastInv, Casting

\* A broadcast begins: all processes of the list are ahead, in its order.
LEMMA TakeForAllCast ==
  ASSUME KernelInv, TakeForAll
  PROVE  CastInv'
<1>1. /\ pc' = "broadcast" /\ event_p' = First(process_list) /\ audience' = Listed /\ reached' = {}
      /\ UNCHANGED <<process_list, stale_next>>
  BY DEF TakeForAll, listVars
<1>2. /\ process_list \in Seq(Proc) /\ Distinct(process_list) /\ Listed \subseteq Proc
      /\ Listed = Elements(process_list) /\ ListType
  BY SoundDistinct, ListDomain DEF KernelInv, ListType, Listed
<1>3. Listed' = Listed /\ \A y : NextOf(y)' = NextOf(y)
  BY <1>1 DEF Listed, NextOf
<1>4. \A z \in Listed : First(process_list) \in Listed
  BY <1>2, FirstFact
<1>5. NULL \notin Listed
  BY <1>2
<1>6. ASSUME First(process_list) # NULL, NEW z \in Listed PROVE Leads(event_p, z)'
  <2>1. SUFFICES ASSUME NEW S \in SUBSET Proc, First(process_list) \in S, Closed(S)
                 PROVE  z \in S
    BY <1>1, <1>3 DEF Leads, Closed
  <2>2. QED BY <1>2, <2>1, AllLed DEF Closed
<1>7. ASSUME First(process_list) # NULL PROVE NoneTwice'
  <2> DEFINE rank == [y \in Proc |-> IF y \in Listed THEN Place(process_list, y) ELSE 0]
  <2>1. rank \in [Proc -> Nat]
    <3>1. \A y \in Listed : Place(process_list, y) \in Nat
      BY <1>2, PlaceFact
    <3>2. QED BY <3>1
  <2>2. First(process_list) \in Listed
    BY <1>2, <1>7, FirstFact
  <2>3. ASSUME NEW y \in Listed, NextOf(y) # NULL
        PROVE  NextOf(y) \in Listed /\ rank[NextOf(y)] > rank[y]
    <3>1. NextOf(y) = Successor(process_list, y)
      BY <2>3 DEF NextOf, NextIn, Listed
    <3>2. NextOf(y) \in Listed /\ After(process_list, NextOf(y), y)
      BY <1>2, <2>3, <3>1, SuccessorFact
    <3>3. QED BY <1>2, <2>3, <3>2 DEF After
  <2> HIDE DEF rank
  <2>4. PICK f \in [Proc -> Nat] : f = rank
    BY <2>1
  <2>5. PICK L \in SUBSET Proc : L = Listed
    BY <1>2
  <2>6. Ordered(L, f)'
    BY <1>3, <2>3, <2>4, <2>5 DEF Ordered
  <2>7. QED BY <1>1, <2>2, <2>5, <2>6 DEF NoneTwice
<1>8. QED BY <1>1, <1>3, <1>4, <1>5, <1>6, <1>7 DEF CastInv, Casting

LEMMA StepCast == KernelInv /\ KernelInv' /\ CastInv /\ [Next]_vars => CastInv'
<1> SUFFICES ASSUME KernelInv, KernelInv', CastInv, [Next]_vars PROVE CastInv'
  OBVIOUS
<1>1. CASE Moves \/ PollFound \/ (\E p \in Proc : Interrupt(p))
  BY <1>1, MovesCast
<1>2. CASE PollCall \/ Dispatch \/ Deliver \/ TakeForAll
  BY <1>2, PollCallCast, DispatchCast, DeliverCast, TakeForAllCast
<1>3. CASE TakeForOne
  BY <1>3 DEF TakeForOne, CastInv, Casting, Listed, listVars, castVars
<1>4. CASE BroadcastEnd
  BY <1>4 DEF BroadcastEnd, CastInv, Casting
<1>5. CASE UNCHANGED vars
  BY <1>5, QuietCast DEF vars, listVars, loopVars, CastInv
<1>6. QED BY <1>1, <1>2, <1>3, <1>4, <1>5 DEF Next, MainLoop, DoPoll, DoEvent, Moves

\* An event posted to all reaches every process that keeps running while it is delivered,
\* though handlers unlink the process the loop stands at, or its neighbours, or start
\* others (process.c:277-285), and polls run in between.
THEOREM BroadcastReachesAll == Spec => []BroadcastComplete
<1>1. CastInv => BroadcastComplete
  BY DEF CastInv, BroadcastComplete
<1>2. QED BY <1>1, InitKernel, StepKernel, CastInvInit, StepCast, PTL DEF Spec

\* No process is given the same broadcast event twice, unless a process was started
\* meanwhile.
THEOREM BroadcastReachesOnce == Spec => []BroadcastOnce
<1>1. KernelInv /\ CastInv => BroadcastOnce
  BY DEF KernelInv, LoopType, CastInv, NoneTwice, Casting, BroadcastOnce
<1>2. QED BY <1>1, InitKernel, StepKernel, CastInvInit, StepCast, PTL DEF Spec
=============================================================================
