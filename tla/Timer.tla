------------------------------- MODULE Timer -------------------------------
(***************************************************************************)
(* net/timer.cc and net/time_event.cc: the ordered map of time events of   *)
(* one event loop, the timerfd armed for its head, and onTimer().          *)
(*                                                                         *)
(* Time is relative: due[e] is the number of ticks until e's arrive time,  *)
(* 0 once that has come, and armed the number of ticks until the timerfd   *)
(* expires, 0 while it is disarmed.  One tick stands for the 100 ms after  *)
(* which an overdue head is tried again.  m_pending_events is the sequence *)
(* of its events in key order: an event's arrive time changes only while   *)
(* the event is outside the map.                                           *)
(*                                                                         *)
(* An event is added once by its user.  The loop's thread may be asked to  *)
(* add, cancel and delete from any handler and any timer callback, and     *)
(* other threads too, as test_eventloop.cc:69 does; the mutex is there for *)
(* them.  It does not always exclude (see ScopeLocker): once two threads   *)
(* have been in the map at once (raced), what the map holds is undefined   *)
(* (Damaged), and every property is about the time before.                 *)
(***************************************************************************)
EXTENDS Naturals, Sequences, FiniteSets

CONSTANTS
    TimeEvents,   \* the TimeEvent objects
    None,
    Adders,       \* threads other than the loop's own
    LoopThread,
    Interval,     \* m_interval of each event, in ticks
    Repeated      \* the events with m_is_repeated

ASSUME TimerAssumption ==
    /\ None \notin TimeEvents
    /\ LoopThread \notin Adders
    /\ Interval \in [TimeEvents -> Nat \ {0}]
    /\ Repeated \subseteq TimeEvents

VARIABLES
    mutex,       \* the word of m_mutex
    pending,     \* m_pending_events
    due,         \* m_arrive_time of each event, relative to now
    cancelled,   \* m_is_cancel of each event
    added,       \* the events given to addTimeEvent by their user
    armed,       \* ticks until the timerfd expires
    readable,    \* the timerfd has expired and was neither read nor set since
    queued,      \* onTimer is in the loop's task queue
    pc,          \* where each thread is
    ret,         \* where addTimeEvent and deleteTimeEvent return to
    arg,         \* the argument of addTimeEvent or deleteTimeEvent, or None
    snapshot,    \* the head of resetArriveTime's copy, or None
    dueAtNow,    \* the events that `now' of onTimer is past
    readd,       \* tmp_events still to be re-added
    tasks,       \* tmp_tasks still to be run
    asked,       \* the events that setCancel was called for (once each)
    raced,       \* two threads have accessed the map at once: it is damaged
    \* history, read by the properties only:
    erased,      \* the events that deleteTimeEvent took out of the map
    last,        \* the event whose callback ran in the last step, or None
    overtaken    \* the timerfd was last set for an event that was not the head

timerVars == <<armed, readable>>
batchVars == <<dueAtNow, readd, tasks>>
callVars  == <<pc, ret, arg>>
history   == <<asked, erased, last, overtaken>>
vars == <<mutex, pending, due, cancelled, added, timerVars, queued, callVars,
          snapshot, batchVars, history, raced>>

Lock == INSTANCE ScopeLocker WITH word <- mutex
-----------------------------------------------------------------------------
Threads   == Adders \cup {LoopThread}
Accessing == {t \in Threads : pc[t] \in {"insert", "copy", "delete", "select"}}

Goto(t, where) == pc' = [pc EXCEPT ![t] = where]

Enter(t, where) ==
    /\ Lock!Construct
    /\ Goto(t, where)
    /\ raced' = (raced \/ Accessing # {})

InMap(e) == \E i \in DOMAIN pending : pending[i] = e

\* The places a walk may meet, each once, of n nodes.
Walks(n) == UNION {{w \in [1..k -> 1..n] : \A i, j \in 1..k : w[i] = w[j] => i = j} : k \in 0..n}

\* What a thread finds in the map, or has inserted into it, that should be s: s
\* itself, but once two threads have been in the tree at once, events may be
\* lost or out of order, now or whenever the tree is used again.  (A crash or an
\* endless walk, its other outcomes, end the behaviour.)
Damaged(s) == IF raced THEN {[i \in DOMAIN w |-> s[w[i]]] : w \in Walks(Len(s))} ELSE {s}

\* Mutants of Emplaced: the map is a list in order of insertion; the pointer was
\* moved from.
AppendedLast(e) == {Append(pending, e)}
EmplacedNull(e) == {Append(pending, None)}

\* multimap::emplace(arrive time, e): behind the events that are due no later.
\* Events that are all overdue are told apart by how long, which due forgets.
Emplaced(e) ==
    {SubSeq(pending, 1, i) \o <<e>> \o SubSeq(pending, i + 1, Len(pending)) :
        i \in {i \in 0..Len(pending) :
            /\ \A j \in 1..i : due[pending[j]] <= due[e]
            /\ \A j \in (i + 1)..Len(pending) :
                  due[pending[j]] > due[e] \/ due[pending[j]] + due[e] = 0}}

\* Mutants of MayReset: the empty map is forgotten; the comparison is reversed.
ResetUnlessEmpty(e) ==
    IF pending = <<>> THEN {FALSE} ELSE {due[Head(pending)] > due[e]}
ResetIfLater(e) ==
    IF pending = <<>> THEN {TRUE} ELSE {due[Head(pending)] < due[e]}

\* is_reset_timerfd, before the insertion.
MayReset(e) ==
    IF raced THEN BOOLEAN
    ELSE IF pending = <<>> THEN {TRUE}
    ELSE IF due[Head(pending)] + due[e] = 0 THEN BOOLEAN
    ELSE {due[Head(pending)] > due[e]}

\* Mutant of ArmFor: no special case, and a zero it_value disarms a timerfd.
ArmForDue(e) == due[e]

\* The interval resetArriveTime arms for the event at the head of its copy.
ArmFor(e) == IF due[e] > 0 THEN due[e] ELSE 1
-----------------------------------------------------------------------------
(* Calls.  A handler or callback in the loop's thread, or another thread,   *)
(* is at one of the Callers places when it calls.                           *)

Callers(t) == IF t = LoopThread THEN {"idle", "tasks"} ELSE {"idle"}

Call(t, e, where) ==
    /\ pc[t] \in Callers(t)
    /\ ret' = [ret EXCEPT ![t] = pc[t]]
    /\ arg' = [arg EXCEPT ![t] = e]
    /\ Goto(t, where)
    /\ UNCHANGED <<mutex, pending, timerVars, queued, snapshot, batchVars, erased, overtaken, raced>>

\* A TimeEvent is constructed and given to addTimeEvent: its arrive time is
\* set, its m_is_cancel is whatever the memory held (see Init).
AddTimeEvent(t) ==
    \E e \in TimeEvents \ added :
        /\ Call(t, e, "add")
        /\ added' = added \cup {e}
        /\ due' = [due EXCEPT ![e] = Interval[e]]
        /\ last' = None
        /\ UNCHANGED <<cancelled, asked>>

\* deleteTimeEvent first cancels.
DeleteTimeEvent(t) ==
    \E e \in added \ asked :
        /\ Call(t, e, "dellock")
        /\ cancelled' = [cancelled EXCEPT ![e] = TRUE]
        /\ asked' = asked \cup {e}
        /\ last' = None
        /\ UNCHANGED <<added, due>>

\* setCancel(true).
SetCancel(t) ==
    \E e \in added \ asked :
        /\ pc[t] \in Callers(t)
        /\ cancelled' = [cancelled EXCEPT ![e] = TRUE]
        /\ asked' = asked \cup {e}
        /\ last' = None
        /\ UNCHANGED <<mutex, pending, due, added, timerVars, queued, callVars,
                       snapshot, batchVars, erased, overtaken, raced>>
-----------------------------------------------------------------------------
(* addTimeEvent, deleteTimeEvent and resetArriveTime                        *)

\* The constructors of the guards.
TakeGuard(t) ==
    /\ \E step \in {<<"add", "insert">>, <<"dellock", "delete">>,
                    <<"reset", "copy">>, <<"timerlock", "select">>} :
          pc[t] = step[1] /\ Enter(t, step[2])
    /\ last' = None
    /\ UNCHANGED <<pending, due, cancelled, added, timerVars, queued, ret, arg,
                   snapshot, batchVars, asked, erased, overtaken>>

\* The head is compared, the event inserted and the guard unlocked.
Insert(t) ==
    /\ pc[t] = "insert"
    /\ pending' \in IF raced THEN Damaged(Append(pending, arg[t])) ELSE Emplaced(arg[t])
    /\ \E reset \in MayReset(arg[t]) : Goto(t, IF reset THEN "reset" ELSE "return")
    /\ Lock!Unlock
    /\ last' = None
    /\ UNCHANGED <<due, cancelled, added, timerVars, queued, ret, arg, snapshot,
                   batchVars, asked, erased, overtaken, raced>>

\* The search writes `it->second = event' where it means to compare: it stops
\* at the first event with the same arrive time and erases it, whichever it is.
Delete(t) ==
    /\ pc[t] = "delete"
    /\ \E map \in Damaged(pending) :
          LET same == {i \in DOMAIN map : due[map[i]] = due[arg[t]]}
          IN  IF same = {} THEN pending' = map /\ UNCHANGED erased
              ELSE \E i \in same :
                     /\ due[arg[t]] > 0 => \A j \in same : i <= j
                     /\ pending' = SubSeq(map, 1, i - 1) \o SubSeq(map, i + 1, Len(map))
                     /\ erased' = erased \cup {map[i]}
    /\ Lock!Unlock
    /\ Goto(t, "return")
    /\ last' = None
    /\ UNCHANGED <<due, cancelled, added, timerVars, queued, ret, arg, snapshot,
                   batchVars, asked, overtaken, raced>>

\* resetArriveTime copies the map and unlocks; an empty copy returns.
CopyMap(t) ==
    /\ pc[t] = "copy"
    /\ \E map \in Damaged(pending) :
          /\ snapshot' = [snapshot EXCEPT ![t] = IF map = <<>> THEN None ELSE Head(map)]
          /\ Goto(t, IF map = <<>> THEN "resetexit" ELSE "settime")
    /\ Lock!Unlock
    /\ last' = None
    /\ UNCHANGED <<pending, due, cancelled, added, timerVars, queued, ret, arg,
                   batchVars, asked, erased, overtaken, raced>>

\* timerfd_settime, which also clears an expiration that was not read.
SetTime(t) ==
    /\ pc[t] = "settime"
    /\ armed' = ArmFor(snapshot[t])
    /\ readable' = FALSE
    /\ overtaken' = (~raced /\ pending # <<>> /\ snapshot[t] # Head(pending))
    /\ Goto(t, "resetexit")
    /\ last' = None
    /\ UNCHANGED <<mutex, pending, due, cancelled, added, queued, ret, arg, snapshot,
                   batchVars, asked, erased, raced>>

\* resetArriveTime's guard is destroyed; it was called by addTimeEvent, or by
\* onTimer itself.
ResetExit(t) ==
    /\ pc[t] = "resetexit"
    /\ Lock!Destruct
    /\ Goto(t, IF arg[t] # None THEN "return" ELSE "tasks")
    /\ snapshot' = [snapshot EXCEPT ![t] = None]
    /\ last' = None
    /\ UNCHANGED <<pending, due, cancelled, added, timerVars, queued, ret, arg,
                   batchVars, asked, erased, overtaken, raced>>

\* The guard of addTimeEvent or deleteTimeEvent is destroyed.
Return(t) ==
    /\ pc[t] = "return"
    /\ Lock!Destruct
    /\ Goto(t, ret[t])
    /\ arg' = [arg EXCEPT ![t] = None]
    /\ last' = None
    /\ UNCHANGED <<pending, due, cancelled, added, timerVars, queued, ret, snapshot,
                   batchVars, asked, erased, overtaken, raced>>
-----------------------------------------------------------------------------
(* onTimer, in the loop's thread                                            *)

\* epoll reports the timerfd and the loop queues its handler.
Dispatch ==
    /\ pc[LoopThread] = "idle" /\ readable /\ ~queued
    /\ queued' = TRUE
    /\ last' = None
    /\ UNCHANGED <<mutex, pending, due, cancelled, added, timerVars, callVars,
                   snapshot, batchVars, asked, erased, overtaken, raced>>

\* The timerfd is read until EAGAIN, then the clock.
OnTimer ==
    /\ pc[LoopThread] = "idle" /\ queued
    /\ queued' = FALSE
    /\ readable' = FALSE
    /\ dueAtNow' = {e \in added : due[e] = 0}
    /\ Goto(LoopThread, "timerlock")
    /\ last' = None
    /\ UNCHANGED <<mutex, pending, due, cancelled, added, armed, ret, arg, snapshot,
                   readd, tasks, asked, erased, overtaken, raced>>

\* The events up to now leave the map; those not cancelled are kept, in order.
SelectDue ==
    /\ pc[LoopThread] = "select"
    /\ \E map \in Damaged(pending) : \E n \in 0..Len(map) :
          /\ \A i \in 1..n : map[i] \in dueAtNow
          /\ n < Len(map) => map[n + 1] \notin dueAtNow
          /\ LET kept == {i \in 1..n : ~cancelled[map[i]]} IN
             \E place \in [1..Cardinality(kept) -> kept] :
                /\ \A i, j \in DOMAIN place : i < j => place[i] < place[j]
                /\ readd' = [i \in DOMAIN place |-> map[place[i]]]
          /\ tasks' = readd'
          /\ pending' = SubSeq(map, n + 1, Len(map))
    /\ dueAtNow' = {}
    /\ Lock!Unlock
    /\ Goto(LoopThread, "readd")
    /\ last' = None
    /\ UNCHANGED <<due, cancelled, added, timerVars, queued, ret, arg, snapshot,
                   asked, erased, overtaken, raced>>

\* Each repeated event gets its next arrive time and is added again.
Readd ==
    /\ pc[LoopThread] = "readd" /\ readd # <<>>
    /\ LET e == Head(readd) IN
       IF e \in Repeated
       THEN /\ due' = [due EXCEPT ![e] = Interval[e]]
            /\ arg' = [arg EXCEPT ![LoopThread] = e]
            /\ ret' = [ret EXCEPT ![LoopThread] = "readd"]
            /\ Goto(LoopThread, "add")
       ELSE UNCHANGED <<due, callVars>>
    /\ readd' = Tail(readd)
    /\ last' = None
    /\ UNCHANGED <<mutex, pending, cancelled, added, timerVars, queued, snapshot,
                   dueAtNow, tasks, asked, erased, overtaken, raced>>

ReaddDone ==
    /\ pc[LoopThread] = "readd" /\ readd = <<>>
    /\ Goto(LoopThread, "reset")
    /\ last' = None
    /\ UNCHANGED <<mutex, pending, due, cancelled, added, timerVars, queued, ret, arg,
                   snapshot, batchVars, asked, erased, overtaken, raced>>

\* The callbacks run; what one of them calls are the actions above.
RunCallback ==
    /\ pc[LoopThread] = "tasks" /\ tasks # <<>>
    /\ last' = Head(tasks)
    /\ tasks' = Tail(tasks)
    /\ UNCHANGED <<mutex, pending, due, cancelled, added, timerVars, queued, callVars,
                   snapshot, dueAtNow, readd, asked, erased, overtaken, raced>>

TimerExit ==
    /\ pc[LoopThread] = "tasks" /\ tasks = <<>>
    /\ Lock!Destruct
    /\ Goto(LoopThread, "idle")
    /\ last' = None
    /\ UNCHANGED <<pending, due, cancelled, added, timerVars, queued, ret, arg,
                   snapshot, batchVars, asked, erased, overtaken, raced>>

\* Time passes: every arrive time comes closer, and the timerfd may expire.
Tick ==
    /\ armed > 0 \/ \E e \in TimeEvents : due[e] > 0
    /\ due' = [e \in TimeEvents |-> IF due[e] > 0 THEN due[e] - 1 ELSE 0]
    /\ armed' = IF armed > 0 THEN armed - 1 ELSE 0
    /\ readable' = (readable \/ armed = 1)
    /\ last' = None
    /\ UNCHANGED <<mutex, pending, cancelled, added, queued, callVars, snapshot,
                   batchVars, asked, erased, overtaken, raced>>
-----------------------------------------------------------------------------
Init ==
    /\ mutex = FALSE /\ pending = <<>> /\ added = {}
    /\ due = [e \in TimeEvents |-> 0]
    /\ cancelled \in [TimeEvents -> BOOLEAN]   \* m_is_cancel is not initialised
    /\ armed = 0 /\ readable = FALSE /\ queued = FALSE
    /\ pc = [t \in Threads |-> "idle"] /\ ret = [t \in Threads |-> "idle"]
    /\ arg = [t \in Threads |-> None] /\ snapshot = [t \in Threads |-> None]
    /\ dueAtNow = {} /\ readd = <<>> /\ tasks = <<>>
    /\ asked = {} /\ erased = {} /\ last = None /\ overtaken = FALSE /\ raced = FALSE

\* What a thread does without being asked to.
Step(t) ==
    \/ TakeGuard(t) \/ Insert(t) \/ Delete(t) \/ CopyMap(t)
    \/ SetTime(t) \/ ResetExit(t) \/ Return(t)

LoopStep ==
    \/ Dispatch \/ OnTimer \/ SelectDue \/ Readd \/ ReaddDone
    \/ RunCallback \/ TimerExit \/ Step(LoopThread)

Next ==
    \/ LoopStep \/ Tick
    \/ \E t \in Adders : Step(t)
    \/ \E t \in Threads : AddTimeEvent(t) \/ DeleteTimeEvent(t) \/ SetCancel(t)

Spec == Init /\ [][Next]_vars

\* The threads are scheduled and time passes.
Fairness == WF_vars(LoopStep) /\ WF_vars(Tick) /\ \A t \in Adders : WF_vars(Step(t))

FairSpec == Spec /\ Fairness
-----------------------------------------------------------------------------
(* Properties *)

Places == {"idle", "add", "insert", "dellock", "delete", "reset", "copy", "settime",
           "resetexit", "return", "timerlock", "select", "readd", "tasks"}

\* Every variable has its type.
TypeOK ==
    /\ mutex \in BOOLEAN /\ raced \in BOOLEAN /\ overtaken \in BOOLEAN
    /\ pending \in Seq(TimeEvents) /\ due \in [TimeEvents -> Nat]
    /\ cancelled \in [TimeEvents -> BOOLEAN] /\ added \in SUBSET TimeEvents
    /\ armed \in Nat /\ readable \in BOOLEAN /\ queued \in BOOLEAN
    /\ pc \in [Threads -> Places] /\ ret \in [Threads -> {"idle", "readd", "tasks"}]
    /\ arg \in [Threads -> TimeEvents \cup {None}]
    /\ snapshot \in [Threads -> TimeEvents \cup {None}]
    /\ dueAtNow \in SUBSET TimeEvents /\ readd \in Seq(TimeEvents) /\ tasks \in Seq(TimeEvents)
    /\ asked \in SUBSET TimeEvents /\ erased \in SUBSET TimeEvents
    /\ last \in TimeEvents \cup {None}

\* As long as no two threads have been in the map at once, it lists every event
\* at most once, in the order of arrive times, and no event that is in it is
\* being added or re-added.
MapInOrder ==
  ~raced =>
    /\ \A i, j \in DOMAIN pending :
          i < j => pending[i] # pending[j] /\ due[pending[i]] <= due[pending[j]]
    /\ \A t \in Threads : pc[t] \in {"add", "insert"} => ~InMap(arg[t])
    /\ \A i \in DOMAIN readd : ~InMap(readd[i])

\* A thread is on its way to timerfd_settime.
Resetting(t) == pc[t] \in {"reset", "copy", "settime"}
\* onTimer is queued or has not come to its resetArriveTime yet.
OnTimerAhead ==
    queued \/ pc[LoopThread] \in {"timerlock", "select", "readd"}
           \/ (arg[LoopThread] # None /\ ret[LoopThread] = "readd"
                /\ pc[LoopThread] \in {"add", "insert", "reset", "copy", "settime",
                                       "resetexit", "return"})

\* While an event waits in the map, the timerfd is armed or has expired, or
\* somebody is about to arm it: no event waits for ever.
ArmedWhilePending ==
    pending # <<>> /\ ~raced =>
        armed > 0 \/ readable \/ OnTimerAhead \/ \E t \in Threads : Resetting(t)

\* The timerfd does not expire later than the head of the map is due (an
\* overdue head is retried after one tick), unless it was set from a copy of
\* the map that another thread had changed by then.
ArmedUnlessOvertaken ==
    ~overtaken /\ pending # <<>> /\ armed > 0 /\ ~raced =>
        \/ armed <= due[Head(pending)] \/ armed = 1
        \/ OnTimerAhead \/ \E t \in Threads : Resetting(t)

\* An event in the map is run, unless it is cancelled or erased, or two threads
\* are in the map at once; a repeated event is back in the map by then, so it is
\* run again and again.
EventFires ==
    \A e \in TimeEvents : InMap(e) ~> (last = e \/ cancelled[e] \/ e \in erased \/ raced)
=============================================================================
