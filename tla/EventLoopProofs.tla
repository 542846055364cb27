-------------------------- MODULE EventLoopProofs --------------------------
(***************************************************************************)
(* Proofs about EventLoop, for any remote threads, fds and bounds: its     *)
(* types; that the loop is woken for every task and every stop; that the   *)
(* calls of a thread are run in order, that epoll catches up with what     *)
(* each FdEvent asks for, and that a handler is queued once.  Then about   *)
(* IOThread: that the loop in its thread is an EventLoop, whose theorems   *)
(* hold of it, and that nobody uses the loop before it is made or after it *)
(* is deleted.                                                             *)
(***************************************************************************)
EXTENDS IOThread, FiniteSetTheorems, TLAPS

\* The loop's thread and the remote ones are different threads.
LEMMA ThreadsType ==
    LoopThread \in Threads /\ (\A r \in Remotes : r \in Threads /\ r # LoopThread)
BY ConstantsAssumption DEF Threads

\* Pushing one task keeps the types of what Push assigns.
LEMMA PushType ==
    ASSUME TypeOK, NEW t \in Threads, NEW task \in Tasks, Push(t, task)
    PROVE  /\ pending' \in Seq(Tasks) /\ lost' \in SUBSET Tasks
           /\ overlapped' \in SUBSET Threads /\ mutex' \in BOOLEAN
<1>1. overlapped' \in SUBSET Threads /\ mutex' \in BOOLEAN
  BY DEF TypeOK, Push, Lock!Unlock
<1>2. CASE pending' = Append(pending, task) /\ UNCHANGED lost
  BY <1>1, <1>2 DEF TypeOK
<1>3. CASE UNCHANGED pending /\ lost' = lost \cup {u \in {task} : u.by \in Remotes}
  BY <1>1, <1>3 DEF TypeOK
<1> QED
  BY <1>2, <1>3 DEF Push

\* Entering a guard keeps the types.
LEMMA EnterType ==
    ASSUME TypeOK, NEW t \in Threads, NEW where, Enter(t, where)
    PROVE  overlapped' \in SUBSET Threads /\ mutex' \in BOOLEAN
BY DEF TypeOK, Enter, Accessing, Lock!Construct

\* The events left after one kind of the first was taken are events.
LEMMA RemainingType ==
    ASSUME TypeOK, found # <<>>
    PROVE  Remaining \in Seq(Events)
<1>1. Head(found) \in Events /\ Tail(found) \in Seq(Events)
  BY DEF TypeOK
<1>2. After(Head(found)) \in Events
  BY <1>1 DEF After, Events
<1> QED
  BY <1>1, <1>2 DEF Remaining

\* The initial state is well typed.
LEMMA InitType == Init => TypeOK
<1> SUFFICES ASSUME Init PROVE TypeOK
  OBVIOUS
<1>1. Handler(WakeFd, "IN") \in Tasks
  BY ConstantsAssumption, ThreadsType DEF Handler, Tasks
<1>2. pending \in Seq(Tasks) /\ batch \in Seq(Tasks) /\ found \in Seq(Events)
  BY DEF Init
<1>3. pc \in [Threads -> {"idle"}]
  BY DEF Init
<1>4. call \in [Remotes -> Tasks] /\ calls \in [Remotes -> Nat] /\ ran \in [Remotes -> Nat]
  BY <1>1 DEF Init
<1>5. listenFds \in SUBSET Fds /\ mask \in [Fds -> SUBSET Kinds] /\ interest = mask
  BY ConstantsAssumption DEF Init
<1> QED
  BY <1>2, <1>3, <1>4, <1>5, ThreadsType DEF Init, TypeOK, LoopPcs, RemotePcs

\* TypeOK alone is not inductive: what the loop pushes is a task only because
\* it is at an event.
TypeInv == TypeOK /\ Collecting

\* A remote thread's step keeps the types.
LEMMA RemoteType ==
    ASSUME TypeOK, NEW r \in Remotes, Remote(r)
    PROVE  TypeOK'
<1> USE ThreadsType
<1>0. \A f \in Fds, op \in {"ADD", "DEL"} : Lambda(op, f, r, calls[r] + 1) \in Tasks
  BY DEF TypeOK, Lambda, Tasks
<1>1. CASE RemoteAdd(r)
  BY <1>0, <1>1 DEF RemoteAdd, TypeOK, Goto, LoopPcs, RemotePcs, loopVars
<1>2. CASE RemoteDelete(r)
  BY <1>0, <1>2 DEF RemoteDelete, TypeOK, Goto, LoopPcs, RemotePcs, loopVars, fdVars
<1>3. CASE AddTaskLock(r)
  <2>1. Enter(r, "push")
    BY <1>3 DEF AddTaskLock
  <2> QED
    BY <1>3, <2>1, EnterType DEF AddTaskLock, Enter, TypeOK, Goto, LoopPcs, RemotePcs, loopVars, fdVars
<1>4. CASE AddTaskPush(r)
  <2>1. call[r] \in Tasks /\ Push(r, call[r])
    BY <1>4 DEF AddTaskPush, TypeOK
  <2> QED
    BY <1>4, <2>1, PushType DEF AddTaskPush, TypeOK, Goto, LoopPcs, RemotePcs, loopVars, fdVars
<1>5. CASE AddTaskWakeup(r)
  BY <1>5 DEF AddTaskWakeup, Wakeup, TypeOK, Goto, LoopPcs, RemotePcs, loopVars, fdVars
<1>6. CASE AddTaskExit(r)
  BY <1>6 DEF AddTaskExit, Lock!Destruct, TypeOK, Goto, LoopPcs, RemotePcs, loopVars, fdVars
<1>7. CASE StopFlag(r)
  BY <1>7 DEF StopFlag, TypeOK, Goto, LoopPcs, RemotePcs, loopVars, fdVars
<1>8. CASE StopLooping(r)
  BY <1>8 DEF StopLooping, TypeOK, Goto, LoopPcs, RemotePcs, loopVars, fdVars
<1>9. CASE StopWakeup(r)
  BY <1>9 DEF StopWakeup, Wakeup, TypeOK, Goto, LoopPcs, RemotePcs, loopVars, fdVars
<1> QED
  BY <1>1, <1>2, <1>3, <1>4, <1>5, <1>6, <1>7, <1>8, <1>9 DEF Remote

\* Running one task keeps the types of what a task may change.
LEMMA RunTaskType ==
    ASSUME TypeOK, NEW t \in Tasks, RunTask(t)
    PROVE  /\ eventfd' \in BOOLEAN /\ drained' \in BOOLEAN
           /\ stopFlag' \in BOOLEAN /\ isLooping' \in BOOLEAN
           /\ mask' \in [Fds -> SUBSET Kinds] /\ interest' \in [Fds -> SUBSET Kinds]
           /\ listenFds' \in SUBSET Fds /\ ran' \in [Remotes -> Nat]
<1>0. Kinds \cap {"ADD", "DEL"} = {}
  BY ConstantsAssumption
<1>1. CASE t.fd = WakeFd /\ eventfd' = FALSE /\ drained' = TRUE
           /\ UNCHANGED <<stopFlag, isLooping, ran, fdVars>>
  BY <1>1 DEF TypeOK, fdVars
<1>2. CASE t.fd \in Fds /\ HandlerEffect(t.fd)
           /\ UNCHANGED <<eventfd, drained, stopFlag, isLooping, ran>>
  <2>1. /\ mask' \in [Fds -> SUBSET Kinds] /\ interest' \in [Fds -> SUBSET Kinds]
        /\ listenFds' \in SUBSET Fds
    <3>1. CASE UNCHANGED fdVars
      BY <3>1 DEF TypeOK, fdVars
    <3>2. CASE \E m \in SUBSET Kinds :
                  mask' = [mask EXCEPT ![t.fd] = m] /\ AddToEpoll(t.fd, m)
      BY <1>2, <3>2 DEF TypeOK, AddToEpoll
    <3>3. CASE mask' = [mask EXCEPT ![t.fd] = {}] /\ DelFromEpoll(t.fd)
      BY <1>2, <3>3 DEF TypeOK, DelFromEpoll
    <3> QED
      BY <1>2, <3>1, <3>2, <3>3 DEF HandlerEffect
  <2> QED
    BY <1>2, <2>1 DEF TypeOK
<1>3. CASE stopFlag' = TRUE /\ isLooping' = FALSE /\ Wakeup
           /\ UNCHANGED <<drained, ran, fdVars>>
  BY <1>3 DEF TypeOK, Wakeup, fdVars
<1>4. CASE t.op = "ADD" /\ AddToEpoll(t.fd, mask[t.fd])
           /\ ran' = [ran EXCEPT ![t.by] = t.n]
           /\ UNCHANGED <<eventfd, drained, stopFlag, isLooping, mask>>
  <2>1. t.fd \in Fds /\ t.by \in Remotes /\ t.n \in Nat
    BY <1>0, <1>4 DEF Tasks
  <2> QED
    BY <1>4, <2>1 DEF TypeOK, AddToEpoll
<1>5. CASE t.op = "DEL" /\ DelFromEpoll(t.fd)
           /\ ran' = [ran EXCEPT ![t.by] = t.n]
           /\ UNCHANGED <<eventfd, drained, stopFlag, isLooping, mask>>
  <2>1. t.fd \in Fds /\ t.by \in Remotes /\ t.n \in Nat
    BY <1>0, <1>5 DEF Tasks
  <2> QED
    BY <1>5, <2>1 DEF TypeOK, DelFromEpoll
<1> QED
  BY <1>1, <1>2, <1>3, <1>4, <1>5 DEF RunTask

\* A step of the loop keeps the types.
LEMMA LoopType ==
    ASSUME TypeInv, Loop
    PROVE  TypeOK'
<1> USE ThreadsType DEF TypeInv
<1>1. CASE LoopStart
  BY <1>1 DEF LoopStart, TypeOK, At, Goto, LoopPcs, loopVars, fdVars
<1>2. CASE CheckStop
  BY <1>2 DEF CheckStop, TypeOK, At, Goto, LoopPcs, fdVars
<1>3. CASE LoopLock
  <2>1. Enter(LoopThread, "swap")
    BY <1>3 DEF LoopLock
  <2> QED
    BY <1>3, <2>1, EnterType DEF LoopLock, Enter, TypeOK, Goto, LoopPcs, loopVars, fdVars
<1>4. CASE SwapTasks
  <2>1. pending' \in Seq(Tasks) /\ batch' \in Seq(Tasks)
    <3>1. pending' = <<>> /\ batch' = pending
      BY <1>4 DEF SwapTasks
    <3> QED
      BY <3>1 DEF TypeOK
  <2>2. mutex' \in BOOLEAN /\ overlapped' \in SUBSET Threads
    BY <1>4 DEF SwapTasks, Lock!Unlock, TypeOK
  <2> QED
    BY <1>4, <2>1, <2>2 DEF SwapTasks, TypeOK, Goto, LoopPcs, fdVars
<1>5. CASE RunBatch
  <2>1. Head(batch) \in Tasks /\ Tail(batch) \in Seq(Tasks)
    BY <1>5 DEF RunBatch, TypeOK
  <2>2. RunTask(Head(batch))
    BY <1>5 DEF RunBatch
  <2>3. /\ eventfd' \in BOOLEAN /\ drained' \in BOOLEAN
        /\ stopFlag' \in BOOLEAN /\ isLooping' \in BOOLEAN
        /\ mask' \in [Fds -> SUBSET Kinds] /\ interest' \in [Fds -> SUBSET Kinds]
        /\ listenFds' \in SUBSET Fds /\ ran' \in [Remotes -> Nat]
    BY <2>1, <2>2, RunTaskType
  <2> QED
    BY <1>5, <2>1, <2>3 DEF RunBatch, TypeOK
<1>6. CASE BatchDone
  BY <1>6 DEF BatchDone, TypeOK, Goto, LoopPcs, loopVars, fdVars
<1>7. CASE EpollWait
  <2>1. PICK k \in 0..MaxEvents : found' \in [1..k -> Reportable]
    BY <1>7 DEF EpollWait, EpollReturns
  <2>2. found' \in Seq(Events)
    BY <2>1, ConstantsAssumption DEF Reportable
  <2> QED
    BY <1>7, <2>2 DEF EpollWait, EpollReturns, TypeOK, Goto, LoopPcs, fdVars
<1>8. CASE CollectLock
  <2>1. Enter(LoopThread, "push")
    BY <1>8 DEF CollectLock
  <2> QED
    BY <1>8, <2>1, EnterType DEF CollectLock, Enter, TypeOK, Goto, LoopPcs, loopVars, fdVars
<1>9. CASE CollectPush
  <2>1. found # <<>> /\ FirstKind(Head(found)) \in Kinds
    BY <1>9 DEF CollectPush, Collecting, At
  <2>2. Head(found) \in Events
    BY <2>1 DEF TypeOK
  <2>3. Handler(Head(found).fd, FirstKind(Head(found))) \in Tasks
    BY <2>1, <2>2 DEF Handler, Tasks, Events
  <2>4. /\ pending' \in Seq(Tasks) /\ lost' \in SUBSET Tasks
        /\ overlapped' \in SUBSET Threads /\ mutex' \in BOOLEAN
    BY <1>9, <2>3, PushType DEF CollectPush
  <2>5. found' \in Seq(Events)
    BY <1>9, <2>1, RemainingType DEF CollectPush
  <2> QED
    BY <1>9, <2>4, <2>5 DEF CollectPush, TypeOK, Goto, LoopPcs, fdVars
<1>10. CASE CollectExit
  BY <1>10 DEF CollectExit, Lock!Destruct, TypeOK, Goto, LoopPcs, loopVars, fdVars
<1>11. CASE CollectError
  <2>1. found' \in Seq(Events)
    BY <1>11, RemainingType DEF CollectError
  <2> QED
    BY <1>11, <2>1 DEF CollectError, DelFromEpoll, TypeOK
<1>12. CASE IterationExit
  BY <1>12 DEF IterationExit, Lock!Destruct, TypeOK, Goto, LoopPcs, loopVars, fdVars
<1> QED
  BY <1>1, <1>2, <1>3, <1>4, <1>5, <1>6, <1>7, <1>8, <1>9, <1>10, <1>11, <1>12
  DEF Loop

\* A remote thread's step leaves the loop's place and its events alone.
LEMMA RemoteFrame ==
    ASSUME TypeOK, NEW r \in Remotes, Remote(r)
    PROVE  pc'[LoopThread] = pc[LoopThread] /\ found' = found /\ drained' = drained
BY ThreadsType DEF TypeOK, Remote, RemoteAdd, RemoteDelete, AddTaskLock, AddTaskPush,
   AddTaskWakeup, AddTaskExit, StopFlag, StopLooping, StopWakeup, Enter, Goto, loopVars

\* The loop enters addTask only for an event whose handler it pushes.
LEMMA CollectingStep ==
    ASSUME TypeInv, [Next]_vars
    PROVE  Collecting'
<1> USE DEF TypeInv
<1>1. CASE CollectLock
  BY <1>1, ThreadsType DEF CollectLock, Enter, Goto, loopVars, TypeOK, Collecting, FirstKind
<1>2. CASE Loop /\ ~CollectLock
  <2>1. pc'[LoopThread] # "push"
    BY <1>2, ThreadsType DEF Loop, LoopStart, CheckStop, LoopLock, SwapTasks, RunBatch,
       BatchDone, EpollWait, EpollReturns, CollectPush, CollectExit, CollectError,
       IterationExit, At, Enter, Goto, TypeOK
  <2> QED
    BY <2>1 DEF Collecting
<1>3. CASE \E r \in Remotes : Remote(r)
  <2>1. pc'[LoopThread] = pc[LoopThread] /\ found' = found
    BY <1>3, RemoteFrame
  <2> QED
    BY <2>1 DEF Collecting, FirstKind
<1>4. CASE UNCHANGED vars
  BY <1>4 DEF vars, loopVars, Collecting, FirstKind
<1> QED
  BY <1>1, <1>2, <1>3, <1>4 DEF Next, Finished

\* So the type invariant is inductive.
LEMMA TypeInvInductive == TypeInv /\ [Next]_vars => TypeInv'
<1> SUFFICES ASSUME TypeInv, [Next]_vars PROVE TypeOK'
  BY CollectingStep DEF TypeInv
<1>1. CASE Loop
  BY <1>1, LoopType
<1>2. CASE \E r \in Remotes : Remote(r)
  BY <1>2, RemoteType DEF TypeInv
<1>3. CASE UNCHANGED vars
  BY <1>3 DEF vars, loopVars, fdVars, TypeInv, TypeOK
<1> QED
  BY <1>1, <1>2, <1>3 DEF Next, Finished

\* Every variable always has its type, however many threads post to the loop.
THEOREM TypeCorrect == Spec => []TypeOK
<1>1. Init => TypeInv
  BY InitType, ThreadsType DEF TypeInv, Collecting, Init
<1> QED
  BY <1>1, TypeInvInductive, PTL DEF Spec, TypeInv
-----------------------------------------------------------------------------
\* The two wakeup invariants only need the types; each step either leaves the
\* loop awake, or is a step of the thread that will wake it, or wakes it.
LEMMA WakeRemote ==
    ASSUME TypeInv, TasksWakeLoop, StopWakesLoop, NEW r \in Remotes, Remote(r)
    PROVE  TasksWakeLoop' /\ StopWakesLoop'
<1> USE ThreadsType DEF TypeInv
<1>0. pc'[LoopThread] = pc[LoopThread] /\ drained' = drained
  BY RemoteFrame
<1>1. CASE AddTaskLock(r) \/ RemoteAdd(r) \/ RemoteDelete(r) \/ AddTaskExit(r) \/ StopLooping(r)
  <2>1. /\ pending' = pending /\ eventfd' = eventfd /\ stopFlag' = stopFlag
        /\ \A q \in Remotes : /\ pc[q] = "wake" => pc'[q] = "wake"
                              /\ pc[q] \in {"stopping", "stopwake"} =>
                                    pc'[q] \in {"stopping", "stopwake"}
    BY <1>1 DEF AddTaskLock, RemoteAdd, RemoteDelete, AddTaskExit, StopLooping, Enter,
       Goto, TypeOK
  <2> QED
    BY <1>0, <2>1 DEF TasksWakeLoop, StopWakesLoop
<1>2. CASE AddTaskPush(r)
  <2>1. /\ pc'[r] = "wake" /\ eventfd' = eventfd /\ stopFlag' = stopFlag
        /\ \A q \in Remotes : pc[q] \in {"stopping", "stopwake"} => pc'[q] = pc[q]
    BY <1>2 DEF AddTaskPush, Goto, TypeOK
  <2> QED
    BY <1>0, <2>1 DEF TasksWakeLoop, StopWakesLoop
<1>3. CASE AddTaskWakeup(r) \/ StopWakeup(r)
  BY <1>3 DEF AddTaskWakeup, StopWakeup, Wakeup, TasksWakeLoop, StopWakesLoop
<1>4. CASE StopFlag(r)
  <2>1. /\ pc'[r] = "stopping" /\ eventfd' = eventfd /\ pending' = pending
        /\ \A q \in Remotes : pc[q] = "wake" => pc'[q] = "wake"
    BY <1>4 DEF StopFlag, Goto, TypeOK
  <2> QED
    BY <1>0, <2>1 DEF TasksWakeLoop, StopWakesLoop
<1> QED
  BY <1>1, <1>2, <1>3, <1>4 DEF Remote

\* A step of the loop keeps the two wakeup invariants.
LEMMA WakeLoop ==
    ASSUME TypeInv, TasksWakeLoop, StopWakesLoop, Loop
    PROVE  TasksWakeLoop' /\ StopWakesLoop'
<1> USE ThreadsType DEF TypeInv
<1>1. CASE LoopStart \/ CollectLock \/ CollectPush \/ CollectExit \/ IterationExit \/ EpollWait
  <2>1. pc'[LoopThread] \in {"check", "push", "pushed", "collect"}
    BY <1>1 DEF LoopStart, CollectLock, CollectPush, CollectExit, IterationExit,
       EpollWait, EpollReturns, Enter, Goto, TypeOK
  <2> QED
    BY <2>1 DEF TasksWakeLoop, StopWakesLoop
<1>2. CASE CollectError
  <2>1. pc'[LoopThread] = "collect"
    BY <1>2 DEF CollectError, At
  <2> QED
    BY <2>1 DEF TasksWakeLoop, StopWakesLoop
<1>3. CASE CheckStop
  <2>1. pc'[LoopThread] = (IF stopFlag THEN "done" ELSE "lock") /\ stopFlag' = stopFlag
    BY <1>3 DEF CheckStop, Goto, TypeOK
  <2> QED
    BY <2>1 DEF TasksWakeLoop, StopWakesLoop
<1>4. CASE LoopLock \/ BatchDone \/ SwapTasks
  <2>1. /\ pc'[LoopThread] \in {"swap", "epoll", "run"}
        /\ pc[LoopThread] \in {"lock", "run", "swap"}
        /\ pc'[LoopThread] = "epoll" => pc[LoopThread] = "run" /\ pending' = pending
        /\ pc'[LoopThread] = "run" => pending' = <<>>
        /\ eventfd' = eventfd /\ stopFlag' = stopFlag /\ drained' = drained
        /\ \A q \in Remotes : pc'[q] = pc[q]
    BY <1>4 DEF LoopLock, BatchDone, SwapTasks, At, Enter, Goto, TypeOK, loopVars
  <2> QED
    BY <2>1 DEF TasksWakeLoop, StopWakesLoop
<1>5. CASE RunBatch
  <2>1. pc' = pc /\ pending' = pending
    BY <1>5 DEF RunBatch
  <2>2. \/ drained'
        \/ eventfd'
        \/ eventfd' = eventfd /\ drained' = drained /\ stopFlag' = stopFlag
    BY <1>5 DEF RunBatch, RunTask, Wakeup
  <2> QED
    BY <1>5, <2>1, <2>2 DEF TasksWakeLoop, StopWakesLoop
<1> QED
  BY <1>1, <1>2, <1>3, <1>4, <1>5 DEF Loop

WakeInv == TypeInv /\ TasksWakeLoop /\ StopWakesLoop

\* The two wakeup invariants hold always.
LEMMA WakeInvCorrect == Spec => []WakeInv
<1>1. Init => WakeInv
  BY InitType, ThreadsType
  DEF WakeInv, TypeInv, Collecting, Init, TasksWakeLoop, StopWakesLoop
<1>2. WakeInv /\ [Next]_vars => WakeInv'
  <2> SUFFICES ASSUME WakeInv, [Next]_vars PROVE TasksWakeLoop' /\ StopWakesLoop'
    BY TypeInvInductive DEF WakeInv
  <2>1. CASE Loop
    BY <2>1, WakeLoop DEF WakeInv
  <2>2. CASE \E r \in Remotes : Remote(r)
    BY <2>2, WakeRemote DEF WakeInv
  <2>3. CASE UNCHANGED vars
    BY <2>3 DEF vars, loopVars, WakeInv, TasksWakeLoop, StopWakesLoop
  <2> QED
    BY <2>1, <2>2, <2>3 DEF Next, Finished
<1> QED
  BY <1>1, <1>2, PTL DEF Spec

\* The loop goes to sleep with a task queued only in an iteration that ran the
\* wakeup handler.
THEOREM TasksAreWoken == Spec => []TasksWakeLoop
BY WakeInvCorrect, PTL DEF WakeInv

\* The loop sleeps on a stop only in such an iteration.
THEOREM StopsAreWoken == Spec => []StopWakesLoop
BY WakeInvCorrect, PTL DEF WakeInv
-----------------------------------------------------------------------------
(* The queue *)

\* The tasks in the order they will run: those the loop took and those pending.
Queue == batch \o pending

\* Where the loop's own tasks and events can be: it sleeps with none, so what
\* epoll_wait returns is queued before anything else of the kind.
LoopPhases ==
    /\ pc[LoopThread] # "run" => batch = <<>>
    /\ pc[LoopThread] \notin {"collect", "push", "pushed"} => found = <<>>
    /\ pc[LoopThread] \in {"run", "epoll"} =>
          \A i \in DOMAIN pending : pending[i].by # LoopThread

\* A remote thread in addTask posts its latest call, which is newer than all
\* that it queued and all that were run.
InFlight ==
    \A r \in Remotes :
        /\ ran[r] <= calls[r]
        /\ pc[r] \in {"lock", "push"} =>
              call[r].by = r /\ call[r].n = calls[r] /\ ran[r] < calls[r]

\* What is queued was posted before.
QueuedBefore ==
    \A i \in DOMAIN Queue : \A r \in Remotes : Queue[i].by = r =>
        /\ Queue[i].n <= calls[r]
        /\ pc[r] \in {"lock", "push"} => Queue[i].n < calls[r]

\* Handlers of the loop are queued once, and not while their event is still to
\* be taken.
HandlersApart ==
    /\ \A i, j \in DOMAIN Queue : Queue[i].by = LoopThread /\ Queue[i] = Queue[j] => i = j
    /\ \A i, j \in DOMAIN found : found[i].fd = found[j].fd => i = j
    /\ \A i \in DOMAIN Queue, j \in DOMAIN found :
          Queue[i].by = LoopThread /\ Queue[i].fd = found[j].fd => Queue[i].op \notin found[j].kinds

\* A registration of f is queued, about to be, or lost.
Registering(f) ==
    \/ \E i \in DOMAIN Queue : Queue[i].fd = f /\ Queue[i].op = "ADD"
    \/ \E r \in Remotes : /\ pc[r] \in {"lock", "push"}
                          /\ call[r].fd = f /\ call[r].op = "ADD"
    \/ \E t \in lost : t.fd = f /\ t.op = "ADD"

QueueInv ==
    /\ TypeInv /\ LoopPhases /\ InFlight /\ QueuedBefore /\ HandlersApart
    /\ CallsInOrder /\ RegistrationCatchesUp

\* The queue is a sequence of tasks.
LEMMA QueueType == TypeOK => Queue \in Seq(Tasks)
BY DEF TypeOK, Queue

\* A push appends to it.
LEMMA QueuePushed ==
    ASSUME TypeOK, NEW task \in Tasks, batch' = batch, pending' = Append(pending, task)
    PROVE  /\ DOMAIN Queue' = DOMAIN Queue \cup {Len(Queue) + 1}
           /\ Len(Queue) + 1 \notin DOMAIN Queue
           /\ \A i \in DOMAIN Queue : Queue'[i] = Queue[i] /\ i < Len(Queue) + 1
           /\ Queue'[Len(Queue) + 1] = task
<1>1. batch \in Seq(Tasks) /\ pending \in Seq(Tasks)
  BY DEF TypeOK
<1>2. Queue' = batch \o Append(pending, task)
  BY DEF Queue
<1>3. Len(Queue) = Len(batch) + Len(pending) /\ Len(Queue') = Len(Queue) + 1
  BY <1>1, <1>2 DEF Queue
<1> QED
  BY <1>1, <1>2, <1>3 DEF Queue

\* Running a task takes the first: the others come one place nearer.
LEMMA QueueTaken ==
    ASSUME TypeOK, batch # <<>>, batch' = Tail(batch), pending' = pending
    PROVE  /\ 1 \in DOMAIN Queue /\ Queue[1] = Head(batch) /\ Head(batch) \in Tasks
           /\ \A i \in DOMAIN Queue' :
                 i + 1 \in DOMAIN Queue /\ Queue'[i] = Queue[i + 1] /\ i \in Nat
           /\ \A i \in DOMAIN Queue :
                 i = 1 \/ (i - 1 \in DOMAIN Queue' /\ Queue'[i - 1] = Queue[i])
<1>1. batch \in Seq(Tasks) /\ pending \in Seq(Tasks) /\ Tail(batch) \in Seq(Tasks)
  BY DEF TypeOK
<1>2. Len(Tail(batch)) = Len(batch) - 1 /\ Len(batch) >= 1
  BY <1>1
<1>3. Queue' = Tail(batch) \o pending
  BY DEF Queue
<1>4. Len(Queue) = Len(batch) + Len(pending) /\ Len(Queue') = Len(Queue) - 1
  BY <1>1, <1>2, <1>3 DEF Queue
<1>5. \A i \in DOMAIN Queue' : i + 1 \in DOMAIN Queue /\ Queue'[i] = Queue[i + 1] /\ i \in Nat
  BY <1>1, <1>2, <1>3, <1>4 DEF Queue
<1>6. \A i \in DOMAIN Queue : i = 1 \/ (i - 1 \in DOMAIN Queue' /\ Queue'[i - 1] = Queue[i])
  <2> SUFFICES ASSUME NEW i \in DOMAIN Queue, i # 1
               PROVE  i - 1 \in DOMAIN Queue' /\ Queue'[i - 1] = Queue[i]
    OBVIOUS
  <2>1. i \in Nat /\ i - 1 \in DOMAIN Queue'
    BY <1>1, <1>2, <1>3, <1>4 DEF Queue
  <2> QED
    BY <1>5, <2>1
<1> QED
  BY <1>1, <1>2, <1>4, <1>5, <1>6 DEF Queue

\* The swap of the two vectors, in which the loop's own was empty, leaves it alone.
LEMMA QueueSwapped ==
    ASSUME TypeOK, batch = <<>>, batch' = pending, pending' = <<>>
    PROVE  DOMAIN Queue' = DOMAIN Queue /\ \A i \in DOMAIN Queue : Queue'[i] = Queue[i]
<1>1. pending \in Seq(Tasks)
  BY DEF TypeOK
<1>2. Queue = <<>> \o pending /\ Queue' = pending \o <<>>
  BY DEF Queue
<1> QED
  BY <1>1, <1>2

\* Initially nothing is queued.
LEMMA QueueInit == Init => QueueInv
<1> SUFFICES ASSUME Init PROVE QueueInv
  OBVIOUS
<1>1. TypeInv /\ Queue = <<>> /\ batch = <<>> /\ pending = <<>> /\ found = <<>>
  BY InitType, ThreadsType DEF TypeInv, Collecting, Init, Queue
<1>2. LoopPhases /\ InFlight
  BY <1>1, ThreadsType DEF LoopPhases, InFlight, Init
<1>3. QueuedBefore /\ HandlersApart /\ CallsInOrder
  BY <1>1 DEF QueuedBefore, HandlersApart, CallsInOrder, Queue
<1>4. RegistrationCatchesUp
  BY DEF RegistrationCatchesUp, Init
<1> QED
  BY <1>1, <1>2, <1>3, <1>4 DEF QueueInv

\* A step that changes no queue and begins or ends no posting.
LEMMA QuietStep ==
    ASSUME QueueInv, TypeInv', LoopPhases',
           UNCHANGED <<batch, pending, found, call, calls, ran, fdVars, lost>>,
           \A r \in Remotes : pc'[r] \in {"lock", "push"} <=> pc[r] \in {"lock", "push"}
    PROVE  QueueInv'
<1>1. Queue' = Queue
  BY DEF Queue
<1>2. InFlight' /\ QueuedBefore'
  BY <1>1 DEF QueueInv, InFlight, QueuedBefore
<1>3. HandlersApart' /\ CallsInOrder'
  BY <1>1 DEF QueueInv, HandlersApart, CallsInOrder
<1>4. RegistrationCatchesUp'
  BY DEF QueueInv, RegistrationCatchesUp, fdVars
<1> QED
  BY <1>2, <1>3, <1>4 DEF QueueInv
\* CallsInOrder is about Queue, now and in the next state.
LEMMA OrderOfQueue ==
    /\ CallsInOrder <=>
          \A i \in DOMAIN Queue : Queue[i].by \in Remotes =>
              /\ Queue[i].n > ran[Queue[i].by]
              /\ \A j \in 1..(i - 1) : Queue[j].by = Queue[i].by => Queue[j].n < Queue[i].n
    /\ CallsInOrder' <=>
          \A i \in DOMAIN Queue' : Queue'[i].by \in Remotes =>
              /\ Queue'[i].n > ran'[Queue'[i].by]
              /\ \A j \in 1..(i - 1) : Queue'[j].by = Queue'[i].by => Queue'[j].n < Queue'[i].n
BY DEF CallsInOrder, Queue

\* And so is RegistrationCatchesUp.
LEMMA RegistrationOfQueue ==
    /\ RegistrationCatchesUp <=> \A f \in listenFds : interest[f] # mask[f] => Registering(f)
    /\ RegistrationCatchesUp' <=>
          \A f \in listenFds' : interest'[f] # mask'[f] => Registering(f)'
BY DEF RegistrationCatchesUp, Registering, Queue

\* A remote thread begins a call: it is newer than every one it made before, and
\* a registration covers the mask it extended.
LEMMA RemoteCallKeeps ==
    ASSUME QueueInv, TypeInv', NEW r \in Remotes, RemoteAdd(r) \/ RemoteDelete(r)
    PROVE  QueueInv'
<1>0. /\ UNCHANGED <<batch, pending, found, ran, lost, listenFds, interest>>
      /\ pc[r] = "idle" /\ pc' = [pc EXCEPT ![r] = "lock"]
      /\ calls' = [calls EXCEPT ![r] = @ + 1]
      /\ \E op \in {"ADD", "DEL"}, f \in Fds :
            call' = [call EXCEPT ![r] = Lambda(op, f, r, calls[r] + 1)]
  BY DEF RemoteAdd, RemoteDelete, Goto, loopVars, fdVars
<1>1. /\ UNCHANGED <<batch, pending, found, ran, lost, listenFds, interest>> /\ Queue' = Queue
      /\ pc[r] = "idle" /\ pc'[r] = "lock" /\ calls'[r] = calls[r] + 1
      /\ call'[r].by = r /\ call'[r].n = calls[r] + 1
      /\ \A q \in Remotes \ {r} : /\ pc'[q] = pc[q] /\ call'[q] = call[q]
                                  /\ calls'[q] = calls[q]
      /\ pc'[LoopThread] = pc[LoopThread]
  BY <1>0, ThreadsType DEF Lambda, Queue, QueueInv, TypeInv, TypeOK
<1>2. \A f \in Fds : \/ mask'[f] = mask[f]
                     \/ call'[r].fd = f /\ call'[r].op = "ADD"
  BY DEF RemoteAdd, RemoteDelete, Lambda, fdVars, QueueInv, TypeInv, TypeOK
<1>3. calls[r] \in Nat /\ ran[r] \in Nat
  BY DEF QueueInv, TypeInv, TypeOK
<1>4. LoopPhases' /\ InFlight'
  BY <1>1, <1>3 DEF QueueInv, LoopPhases, InFlight
<1>5. QueuedBefore'
  <2>1. \A i \in DOMAIN Queue : Queue[i] \in Tasks
    BY QueueType DEF QueueInv, TypeInv
  <2>2. \A i \in DOMAIN Queue : Queue[i].by \in Remotes => Queue[i].n \in Nat
    BY <2>1, ConstantsAssumption DEF Tasks
  <2> QED
    BY <1>1, <1>3, <2>2 DEF QueueInv, QueuedBefore
<1>6. HandlersApart' /\ CallsInOrder'
  BY <1>1, OrderOfQueue DEF QueueInv, HandlersApart
<1>7. RegistrationCatchesUp'
  <2> SUFFICES ASSUME NEW f \in listenFds, interest'[f] # mask'[f]
               PROVE  Registering(f)'
    BY <1>1, RegistrationOfQueue
  <2>1. CASE mask'[f] = mask[f]
    <3>1. Registering(f)
      BY <1>1, <2>1, RegistrationOfQueue DEF QueueInv
    <3> QED
      BY <1>1, <3>1 DEF Registering
  <2>2. CASE call'[r].fd = f /\ call'[r].op = "ADD"
    BY <1>1, <2>2 DEF Registering
  <2> QED
    BY <1>2, <2>1, <2>2 DEF QueueInv, TypeInv, TypeOK
<1> QED
  BY <1>4, <1>5, <1>6, <1>7 DEF QueueInv

\* It pushes the call, or the call is lost to an overlapping access.
LEMMA RemotePushKeeps ==
    ASSUME QueueInv, TypeInv', NEW r \in Remotes, AddTaskPush(r)
    PROVE  QueueInv'
<1>1. /\ UNCHANGED <<batch, found, call, calls, ran, fdVars>>
      /\ pc[r] = "push" /\ pc'[r] = "wake"
      /\ \A q \in Remotes \ {r} : pc'[q] = pc[q]
      /\ pc'[LoopThread] = pc[LoopThread]
  BY ThreadsType DEF AddTaskPush, Goto, loopVars, QueueInv, TypeInv, TypeOK
<1>2. /\ call[r] \in Tasks /\ call[r].by = r /\ r # LoopThread
      /\ call[r].n = calls[r] /\ ran[r] < calls[r]
  BY <1>1, ThreadsType DEF QueueInv, InFlight, TypeInv, TypeOK
<1>3. InFlight'
  BY <1>1 DEF QueueInv, InFlight
<1>4. CASE pending' = pending /\ lost' = lost \cup {call[r]}
  <2>1. Queue' = Queue
    BY <1>1, <1>4 DEF Queue
  <2>2. LoopPhases' /\ QueuedBefore' /\ HandlersApart'
    BY <1>1, <1>4, <2>1 DEF QueueInv, LoopPhases, QueuedBefore, HandlersApart
  <2>3. CallsInOrder'
    BY <1>1, <2>1, OrderOfQueue DEF QueueInv
  <2>4. RegistrationCatchesUp'
    BY <1>1, <1>4, <2>1, RegistrationOfQueue DEF QueueInv, Registering, fdVars
  <2> QED
    BY <1>3, <2>2, <2>3, <2>4 DEF QueueInv
<1>5. CASE pending' = Append(pending, call[r]) /\ lost' = lost
  <2>1. /\ DOMAIN Queue' = DOMAIN Queue \cup {Len(Queue) + 1}
        /\ Len(Queue) + 1 \notin DOMAIN Queue
        /\ \A i \in DOMAIN Queue : Queue'[i] = Queue[i] /\ i < Len(Queue) + 1
        /\ Queue'[Len(Queue) + 1] = call[r]
    BY <1>1, <1>2, <1>5, QueuePushed DEF QueueInv, TypeInv
  <2>2. LoopPhases'
    <3>1. \A i \in DOMAIN pending' : pending'[i] = call[r] \/
              (i \in DOMAIN pending /\ pending'[i] = pending[i])
      BY <1>5 DEF QueueInv, TypeInv, TypeOK
    <3> QED
      BY <1>1, <1>2, <3>1 DEF QueueInv, LoopPhases
  <2>3. QueuedBefore'
    <3> SUFFICES ASSUME NEW i \in DOMAIN Queue', NEW q \in Remotes, Queue'[i].by = q
                 PROVE  /\ Queue'[i].n <= calls[q]
                        /\ pc'[q] \in {"lock", "push"} => Queue'[i].n < calls[q]
      BY <1>1 DEF QueuedBefore
    <3>1. CASE i \in DOMAIN Queue
      BY <1>1, <2>1, <3>1 DEF QueueInv, QueuedBefore
    <3>2. CASE i = Len(Queue) + 1
      <4>1. q = r /\ Queue'[i].n = calls[r] /\ calls[r] \in Nat
        BY <1>2, <2>1, <3>2 DEF QueueInv, TypeInv, TypeOK
      <4> QED
        BY <1>1, <4>1
    <3> QED
      BY <2>1, <3>1, <3>2
  <2>4. HandlersApart'
    BY <1>1, <1>2, <2>1 DEF QueueInv, HandlersApart
  <2>5. CallsInOrder'
    <3>1. Queue \in Seq(Tasks)
      BY QueueType DEF QueueInv, TypeInv
    <3>2. \A i \in DOMAIN Queue : \A j \in 1..(i - 1) : j \in DOMAIN Queue
      BY <3>1
    <3>3. \A j \in 1..(Len(Queue) + 1 - 1) : j \in DOMAIN Queue
      BY <3>1
    <3>4. \A j \in DOMAIN Queue : Queue[j].by = r => Queue[j].n < call[r].n
      BY <1>1, <1>2 DEF QueueInv, QueuedBefore
    <3> QED
      BY <1>1, <1>2, <2>1, <3>2, <3>3, <3>4, OrderOfQueue DEF QueueInv
  <2>6. RegistrationCatchesUp'
    <3> SUFFICES ASSUME NEW f \in listenFds, interest[f] # mask[f]
                 PROVE  Registering(f)'
      BY <1>1, RegistrationOfQueue DEF fdVars
    <3>1. Registering(f)
      BY RegistrationOfQueue DEF QueueInv
    <3>2. CASE \E i \in DOMAIN Queue : Queue[i].fd = f /\ Queue[i].op = "ADD"
      <4>1. \E i \in DOMAIN Queue' : Queue'[i].fd = f /\ Queue'[i].op = "ADD"
        BY <2>1, <3>2
      <4> QED
        BY <4>1 DEF Registering
    <3>3. CASE call[r].fd = f /\ call[r].op = "ADD"
      <4>1. \E i \in DOMAIN Queue' : Queue'[i].fd = f /\ Queue'[i].op = "ADD"
        BY <2>1, <3>3
      <4> QED
        BY <4>1 DEF Registering
    <3>4. CASE \E q \in Remotes \ {r} : /\ pc[q] \in {"lock", "push"}
                                        /\ call[q].fd = f /\ call[q].op = "ADD"
      BY <1>1, <3>4 DEF Registering
    <3>5. CASE \E t \in lost : t.fd = f /\ t.op = "ADD"
      BY <1>5, <3>5 DEF Registering
    <3> QED
      BY <3>1, <3>2, <3>3, <3>4, <3>5 DEF Registering
  <2> QED
    BY <1>3, <2>2, <2>3, <2>4, <2>5, <2>6 DEF QueueInv
<1> QED
  BY <1>2, <1>4, <1>5 DEF AddTaskPush, Push
\* The loop swaps: its batch was empty, so the order of the queue is kept.
LEMMA SwapKeeps ==
    ASSUME QueueInv, TypeInv', SwapTasks
    PROVE  QueueInv'
<1>1. /\ batch = <<>> /\ batch' = pending /\ pending' = <<>>
      /\ UNCHANGED <<found, call, calls, ran, fdVars, lost>>
      /\ pc[LoopThread] = "swap" /\ pc'[LoopThread] = "run"
      /\ \A r \in Remotes : pc'[r] = pc[r]
  BY ThreadsType DEF SwapTasks, At, Goto, QueueInv, LoopPhases, TypeInv, TypeOK
<1>2. DOMAIN Queue' = DOMAIN Queue /\ \A i \in DOMAIN Queue : Queue'[i] = Queue[i]
  BY <1>1, QueueSwapped DEF QueueInv, TypeInv
<1>3. LoopPhases' /\ InFlight'
  BY <1>1 DEF QueueInv, LoopPhases, InFlight
<1>4. QueuedBefore' /\ HandlersApart'
  BY <1>1, <1>2 DEF QueueInv, QueuedBefore, HandlersApart
<1>5. CallsInOrder'
  <2>1. \A i \in DOMAIN Queue : \A j \in 1..(i - 1) : j \in DOMAIN Queue
    BY QueueType DEF QueueInv, TypeInv
  <2> QED
    BY <1>1, <1>2, <2>1, OrderOfQueue DEF QueueInv
<1>6. RegistrationCatchesUp'
  BY <1>1, <1>2, RegistrationOfQueue DEF QueueInv, Registering, fdVars
<1> QED
  BY <1>3, <1>4, <1>5, <1>6 DEF QueueInv

\* What a task does to the fds and to the record of calls run: a registration
\* makes epoll catch up with the mask.
LEMMA RunTaskEffect ==
    ASSUME TypeOK, NEW t \in Tasks, RunTask(t)
    PROVE  /\ \A f \in listenFds' : interest'[f] # mask'[f] =>
                 /\ f \in listenFds /\ interest[f] # mask[f]
                 /\ ~(t.fd = f /\ t.op = "ADD")
           /\ \A r \in Remotes : ran'[r] = IF t.by = r THEN t.n ELSE ran[r]
<1>0. /\ t.op \in Kinds => t.by = LoopThread /\ t.op \notin {"ADD", "DEL"}
      /\ t.op \in {"ADD", "DEL"} => t.by \in Remotes /\ t.fd \in Fds /\ t.n \in Nat
      /\ t.fd = WakeFd => t.op \in Kinds
      /\ LoopThread \notin Remotes /\ t.op \in Kinds \cup {"ADD", "DEL"}
  BY ConstantsAssumption DEF Tasks
<1>1. CASE t.op \in Kinds /\ UNCHANGED <<ran, fdVars>>
  BY <1>0, <1>1 DEF fdVars
<1>2. CASE t.op \in Kinds /\ t.fd \in Fds /\ HandlerEffect(t.fd) /\ UNCHANGED ran
  <2>1. \A f \in listenFds' : interest'[f] # mask'[f] => f \in listenFds /\ interest[f] # mask[f]
    <3>1. CASE UNCHANGED fdVars
      BY <3>1 DEF fdVars
    <3>2. CASE \E m \in SUBSET Kinds :
                  mask' = [mask EXCEPT ![t.fd] = m] /\ AddToEpoll(t.fd, m)
      BY <1>2, <3>2 DEF AddToEpoll, TypeOK
    <3>3. CASE mask' = [mask EXCEPT ![t.fd] = {}] /\ DelFromEpoll(t.fd)
      BY <1>2, <3>3 DEF DelFromEpoll, TypeOK
    <3> QED
      BY <1>2, <3>1, <3>2, <3>3 DEF HandlerEffect
  <2> QED
    BY <1>0, <1>2, <2>1
<1>3. CASE t.op = "ADD" /\ AddToEpoll(t.fd, mask[t.fd]) /\ UNCHANGED mask
           /\ ran' = [ran EXCEPT ![t.by] = t.n]
  BY <1>0, <1>3 DEF AddToEpoll, TypeOK
<1>4. CASE t.op = "DEL" /\ DelFromEpoll(t.fd) /\ UNCHANGED mask
           /\ ran' = [ran EXCEPT ![t.by] = t.n]
  BY <1>0, <1>4 DEF DelFromEpoll, TypeOK
<1> QED
  BY <1>0, <1>1, <1>2, <1>3, <1>4 DEF RunTask, fdVars

\* The loop runs the first task of the queue: those behind it are newer, and
\* another registration of the fd than the one that runs is still queued.
LEMMA RunKeeps ==
    ASSUME QueueInv, TypeInv', RunBatch
    PROVE  QueueInv'
<1> DEFINE t == Head(batch)
<1>1. /\ batch # <<>> /\ batch' = Tail(batch) /\ pc[LoopThread] = "run" /\ RunTask(t)
      /\ UNCHANGED <<pending, pc, call, calls, lost, found>>
  BY DEF RunBatch, At
<1>2. /\ 1 \in DOMAIN Queue /\ Queue[1] = t /\ t \in Tasks
      /\ \A i \in DOMAIN Queue' : i + 1 \in DOMAIN Queue /\ Queue'[i] = Queue[i + 1] /\ i \in Nat
      /\ \A i \in DOMAIN Queue : i = 1 \/ (i - 1 \in DOMAIN Queue' /\ Queue'[i - 1] = Queue[i])
  BY <1>1, QueueTaken DEF QueueInv, TypeInv
<1>3. /\ \A f \in listenFds' : interest'[f] # mask'[f] =>
            /\ f \in listenFds /\ interest[f] # mask[f]
            /\ ~(t.fd = f /\ t.op = "ADD")
      /\ \A r \in Remotes : ran'[r] = IF t.by = r THEN t.n ELSE ran[r]
  BY <1>1, <1>2, RunTaskEffect DEF QueueInv, TypeInv
<1>4. LoopPhases'
  BY <1>1 DEF QueueInv, LoopPhases
<1> HIDE DEF t
<1>5. InFlight'
  BY <1>1, <1>2, <1>3 DEF QueueInv, InFlight, QueuedBefore
<1>6. QueuedBefore'
  BY <1>1, <1>2 DEF QueueInv, QueuedBefore
<1>7. HandlersApart'
  <2>1. \A i, j \in DOMAIN Queue' : Queue'[i].by = LoopThread /\ Queue'[i] = Queue'[j] => i = j
    BY <1>2 DEF QueueInv, HandlersApart
  <2>2. \A i \in DOMAIN Queue', j \in DOMAIN found :
            Queue'[i].by = LoopThread /\ Queue'[i].fd = found[j].fd =>
                Queue'[i].op \notin found[j].kinds
    BY <1>2 DEF QueueInv, HandlersApart
  <2> QED
    BY <1>1, <2>1, <2>2 DEF QueueInv, HandlersApart
<1>8. CallsInOrder'
  <2> SUFFICES ASSUME NEW i \in DOMAIN Queue', Queue'[i].by \in Remotes
               PROVE  /\ Queue'[i].n > ran'[Queue'[i].by]
                      /\ \A j \in 1..(i - 1) : Queue'[j].by = Queue'[i].by =>
                            Queue'[j].n < Queue'[i].n
    BY OrderOfQueue
  <2>1. /\ i + 1 \in DOMAIN Queue /\ Queue'[i] = Queue[i + 1] /\ i \in Nat \ {0}
        /\ Queue[i + 1].n > ran[Queue[i + 1].by]
        /\ \A j \in 1..i : Queue[j].by = Queue[i + 1].by => Queue[j].n < Queue[i + 1].n
    <3>1. i + 1 \in DOMAIN Queue /\ Queue'[i] = Queue[i + 1] /\ i \in Nat
      BY <1>2
    <3>2. i # 0 /\ Queue'[i].by \in Remotes
      BY QueueType, <1>1 DEF QueueInv, TypeInv, Queue
    <3>3. i + 1 - 1 = i
      BY <3>1
    <3> QED
      BY <3>1, <3>2, <3>3, OrderOfQueue DEF QueueInv
  <2>2. Queue'[i].n > ran'[Queue'[i].by]
    BY <1>2, <1>3, <2>1
  <2>3. ASSUME NEW j \in 1..(i - 1), Queue'[j].by = Queue'[i].by
        PROVE  Queue'[j].n < Queue'[i].n
    <3>1. j \in DOMAIN Queue' /\ j + 1 \in 1..i
      BY <2>1, QueueType DEF QueueInv, TypeInv, Queue
    <3> QED
      BY <1>2, <2>1, <2>3, <3>1
  <2> QED
    BY <2>2, <2>3
<1>9. RegistrationCatchesUp'
  <2> SUFFICES ASSUME NEW f \in listenFds', interest'[f] # mask'[f]
               PROVE  Registering(f)'
    BY RegistrationOfQueue
  <2>1. Registering(f) /\ ~(t.fd = f /\ t.op = "ADD")
    BY <1>3, RegistrationOfQueue DEF QueueInv
  <2>2. (\E i \in DOMAIN Queue : Queue[i].fd = f /\ Queue[i].op = "ADD") =>
            \E i \in DOMAIN Queue' : Queue'[i].fd = f /\ Queue'[i].op = "ADD"
    BY <1>2, <2>1
  <2> QED
    BY <1>1, <2>1, <2>2 DEF Registering
<1> QED
  BY <1>4, <1>5, <1>6, <1>7, <1>8, <1>9 DEF QueueInv
\* What is left of the events when one kind of the first was taken.
LEMMA RemainingEffect ==
    ASSUME TypeOK, found # <<>>, found' = Remaining,
           \A i, j \in DOMAIN found : found[i].fd = found[j].fd => i = j
    PROVE  /\ \A i, j \in DOMAIN found' : found'[i].fd = found'[j].fd => i = j
           /\ \A j \in DOMAIN found' : \E m \in DOMAIN found :
                 /\ found'[j].fd = found[m].fd /\ found'[j].kinds \subseteq found[m].kinds
                 /\ found'[j].fd = Head(found).fd =>
                       FirstKind(Head(found)) \notin found'[j].kinds
<1>1. /\ found \in Seq(Events) /\ 1 \in DOMAIN found /\ Head(found) = found[1]
      /\ found[1] \in Events /\ Tail(found) \in Seq(Events)
      /\ \A j \in DOMAIN Tail(found) : j + 1 \in DOMAIN found /\ Tail(found)[j] = found[j + 1]
                                       /\ j + 1 # 1 /\ j \in Nat
  BY DEF TypeOK
<1> DEFINE e == After(found[1])
<1>2. e \in Events /\ e.fd = found[1].fd /\ e.kinds = found[1].kinds \ {FirstKind(found[1])}
  BY <1>1 DEF After, Events
<1>3. CASE found' = Tail(found)
  <2>1. \A j \in DOMAIN found' : j + 1 \in DOMAIN found /\ found'[j] = found[j + 1]
                                 /\ j + 1 # 1 /\ j \in Nat
    BY <1>1, <1>3
  <2>2. \A i, j \in DOMAIN found' : found'[i].fd = found'[j].fd => i + 1 = j + 1
    BY <2>1
  <2>3. \A j \in DOMAIN found' : found'[j].fd # found[1].fd
    BY <1>1, <2>1
  <2> QED
    BY <1>1, <2>1, <2>2, <2>3
<1>4. CASE found' = <<e>> \o Tail(found)
  <2> HIDE DEF e
  <2>1. /\ DOMAIN found' = DOMAIN found /\ found'[1] = e
        /\ \A j \in DOMAIN found : j # 1 => found'[j] = found[j]
    BY <1>1, <1>2, <1>4
  <2>2. \A j \in DOMAIN found : /\ found'[j].fd = found[j].fd
                                /\ found'[j].kinds \subseteq found[j].kinds
    BY <1>1, <1>2, <2>1
  <2>3. \A j \in DOMAIN found : found[j].fd = found[1].fd => j = 1
    BY <1>1
  <2>4. FirstKind(found[1]) \notin found'[1].kinds
    BY <1>2, <2>1
  <2> QED
    BY <1>1, <2>1, <2>2, <2>3, <2>4
<1> QED
  BY <1>1, <1>3, <1>4 DEF Remaining

\* The loop sleeps with none of its own tasks queued, so what epoll_wait returns
\* is queued nowhere.
LEMMA EpollKeeps ==
    ASSUME QueueInv, TypeInv', EpollWait
    PROVE  QueueInv'
<1>1. /\ UNCHANGED <<batch, pending, call, calls, ran, fdVars, lost>> /\ Queue' = Queue
      /\ pc[LoopThread] = "epoll" /\ pc'[LoopThread] = "collect"
      /\ \A r \in Remotes : pc'[r] = pc[r]
  BY ThreadsType DEF EpollWait, EpollReturns, At, Goto, Queue, QueueInv, TypeInv, TypeOK
<1>2. \A i, j \in DOMAIN found' : found'[i].fd = found'[j].fd => i = j
  BY DEF EpollWait, EpollReturns
<1>3. \A i \in DOMAIN Queue : Queue[i].by # LoopThread
  <2>1. batch = <<>> /\ \A i \in DOMAIN pending : pending[i].by # LoopThread
    BY <1>1 DEF QueueInv, LoopPhases
  <2>2. Queue = pending
    BY <2>1 DEF Queue, QueueInv, TypeInv, TypeOK
  <2> QED
    BY <2>1, <2>2
<1>4. LoopPhases' /\ InFlight' /\ QueuedBefore'
  BY <1>1 DEF QueueInv, LoopPhases, InFlight, QueuedBefore
<1>5. HandlersApart'
  BY <1>1, <1>2, <1>3 DEF HandlersApart
<1>6. CallsInOrder'
  BY <1>1, OrderOfQueue DEF QueueInv
<1>7. RegistrationCatchesUp'
  BY <1>1, RegistrationOfQueue DEF QueueInv, Registering, fdVars
<1> QED
  BY <1>4, <1>5, <1>6, <1>7 DEF QueueInv

\* A handler that is pushed moves from the events to the queue.
LEMMA CollectKeeps ==
    ASSUME QueueInv, TypeInv', CollectPush
    PROVE  QueueInv'
<1> DEFINE k == FirstKind(Head(found))
           task == Handler(Head(found).fd, k)
<1>1. /\ UNCHANGED <<batch, call, calls, ran, fdVars>> /\ found' = Remaining
      /\ pc[LoopThread] = "push" /\ pc'[LoopThread] = "pushed"
      /\ \A r \in Remotes : pc'[r] = pc[r]
  BY ThreadsType DEF CollectPush, At, Goto, QueueInv, TypeInv, TypeOK
<1>2. found # <<>> /\ k \in Kinds
  BY <1>1 DEF QueueInv, TypeInv, Collecting
<1>3. /\ 1 \in DOMAIN found /\ found[1] = Head(found) /\ Head(found) \in Events
      /\ k \in Head(found).kinds
  <2>1. 1 \in DOMAIN found /\ found[1] = Head(found) /\ Head(found) \in Events
    BY <1>2 DEF QueueInv, TypeInv, TypeOK
  <2>2. CASE k = "IN"
    BY <1>2, <2>1, <2>2, ConstantsAssumption DEF FirstKind
  <2>3. CASE k = "OUT"
    BY <1>2, <2>1, <2>3, ConstantsAssumption DEF FirstKind
  <2> QED
    BY <1>2, <2>1, <2>2, <2>3, ConstantsAssumption
<1>4. /\ task \in Tasks /\ task.by = LoopThread /\ task.fd = Head(found).fd /\ task.op = k
      /\ LoopThread \notin Remotes
  BY <1>2, <1>3, ConstantsAssumption DEF Handler, Tasks, Events
<1>5. /\ \A i, j \in DOMAIN found' : found'[i].fd = found'[j].fd => i = j
      /\ \A j \in DOMAIN found' : \E m \in DOMAIN found :
            /\ found'[j].fd = found[m].fd /\ found'[j].kinds \subseteq found[m].kinds
            /\ found'[j].fd = Head(found).fd => k \notin found'[j].kinds
  BY <1>1, <1>2, RemainingEffect DEF QueueInv, TypeInv, HandlersApart
<1>6. \A i \in DOMAIN Queue, j \in DOMAIN found' :
          Queue[i].by = LoopThread /\ Queue[i].fd = found'[j].fd =>
              Queue[i].op \notin found'[j].kinds
  BY <1>5 DEF QueueInv, HandlersApart
<1>7. LoopPhases' /\ InFlight'
  BY <1>1 DEF QueueInv, LoopPhases, InFlight
<1>8. lost' = lost
  BY <1>4 DEF CollectPush, Push
<1> HIDE DEF k, task
<1>9. CASE pending' = pending
  <2>1. Queue' = Queue
    BY <1>1, <1>9 DEF Queue
  <2>2. QueuedBefore' /\ HandlersApart'
    BY <1>1, <1>5, <1>6, <2>1 DEF QueueInv, QueuedBefore, HandlersApart
  <2>3. CallsInOrder' /\ RegistrationCatchesUp'
    BY <1>1, <1>8, <2>1, OrderOfQueue, RegistrationOfQueue DEF QueueInv, Registering, fdVars
  <2> QED
    BY <1>7, <2>2, <2>3 DEF QueueInv
<1>10. CASE pending' = Append(pending, task)
  <2>1. /\ DOMAIN Queue' = DOMAIN Queue \cup {Len(Queue) + 1}
        /\ Len(Queue) + 1 \notin DOMAIN Queue
        /\ \A i \in DOMAIN Queue : Queue'[i] = Queue[i] /\ i < Len(Queue) + 1
        /\ Queue'[Len(Queue) + 1] = task
    BY <1>1, <1>4, <1>10, QueuePushed DEF QueueInv, TypeInv
  <2>2. QueuedBefore'
    BY <1>1, <1>4, <2>1 DEF QueueInv, QueuedBefore
  <2>3. HandlersApart'
    <3>1. \A i \in DOMAIN Queue : Queue[i] # task
      BY <1>3, <1>4 DEF QueueInv, HandlersApart
    <3>2. \A j \in DOMAIN found' : task.fd = found'[j].fd => task.op \notin found'[j].kinds
      BY <1>4, <1>5
    <3>3. \A i, j \in DOMAIN Queue' :
              Queue'[i].by = LoopThread /\ Queue'[i] = Queue'[j] => i = j
      BY <2>1, <3>1 DEF QueueInv, HandlersApart
    <3>4. \A i \in DOMAIN Queue', j \in DOMAIN found' :
              Queue'[i].by = LoopThread /\ Queue'[i].fd = found'[j].fd =>
                  Queue'[i].op \notin found'[j].kinds
      BY <1>6, <2>1, <3>2
    <3> QED
      BY <1>5, <3>3, <3>4 DEF HandlersApart
  <2>4. CallsInOrder'
    <3>1. \A i \in DOMAIN Queue : \A j \in 1..(i - 1) : j \in DOMAIN Queue
      BY QueueType DEF QueueInv, TypeInv
    <3> QED
      BY <1>1, <1>4, <2>1, <3>1, OrderOfQueue DEF QueueInv
  <2>5. RegistrationCatchesUp'
    <3>1. \A f \in Fds : (\E i \in DOMAIN Queue : Queue[i].fd = f /\ Queue[i].op = "ADD") =>
              \E i \in DOMAIN Queue' : Queue'[i].fd = f /\ Queue'[i].op = "ADD"
      BY <2>1
    <3>2. \A f \in Fds : Registering(f) => Registering(f)'
      BY <1>1, <1>8, <3>1 DEF Registering
    <3> QED
      BY <1>1, <3>2, RegistrationOfQueue DEF QueueInv, TypeInv, TypeOK, fdVars
  <2> QED
    BY <1>7, <2>2, <2>3, <2>4, <2>5 DEF QueueInv
<1> QED
  BY <1>9, <1>10 DEF CollectPush, Push, k, task

\* An fd that reports an error is forgotten, with the rest of its event left.
LEMMA ErrorKeeps ==
    ASSUME QueueInv, TypeInv', CollectError
    PROVE  QueueInv'
<1>1. /\ UNCHANGED <<batch, pending, pc, call, calls, ran, lost, mask>> /\ Queue' = Queue
      /\ found # <<>> /\ found' = Remaining /\ pc[LoopThread] = "collect"
      /\ DelFromEpoll(Head(found).fd)
  BY DEF CollectError, Queue, At
<1>2. /\ \A i, j \in DOMAIN found' : found'[i].fd = found'[j].fd => i = j
      /\ \A j \in DOMAIN found' : \E m \in DOMAIN found :
            found'[j].fd = found[m].fd /\ found'[j].kinds \subseteq found[m].kinds
  BY <1>1, RemainingEffect DEF QueueInv, TypeInv, HandlersApart
<1>3. LoopPhases' /\ InFlight' /\ QueuedBefore'
  BY <1>1 DEF QueueInv, LoopPhases, InFlight, QueuedBefore
<1>4. HandlersApart'
  BY <1>1, <1>2 DEF QueueInv, HandlersApart
<1>5. CallsInOrder'
  BY <1>1, OrderOfQueue DEF QueueInv
<1>6. RegistrationCatchesUp'
  <2>1. \A f \in listenFds' : f \in listenFds /\ interest'[f] = interest[f]
    BY <1>1 DEF DelFromEpoll, QueueInv, TypeInv, TypeOK
  <2> QED
    BY <1>1, <2>1, RegistrationOfQueue DEF QueueInv, Registering
<1> QED
  BY <1>3, <1>4, <1>5, <1>6 DEF QueueInv
\* Every step of the loop and of the remote threads keeps the invariant.
LEMMA QueueInvInductive == QueueInv /\ [Next]_vars => QueueInv'
<1> SUFFICES ASSUME QueueInv, [Next]_vars PROVE QueueInv'
  OBVIOUS
<1>1. TypeInv'
  BY TypeInvInductive DEF QueueInv
<1>2. CASE LoopStart \/ CheckStop \/ LoopLock \/ BatchDone \/ CollectLock \/ CollectExit
             \/ IterationExit
  <2>1. /\ UNCHANGED <<batch, pending, found, call, calls, ran, fdVars, lost>>
        /\ \A r \in Remotes : pc'[r] = pc[r]
        /\ pc[LoopThread] \in {"idle", "check", "lock", "run", "collect", "pushed"}
        /\ pc'[LoopThread] \notin {"run"}
        /\ pc[LoopThread] \in {"collect", "pushed"} =>
              pc'[LoopThread] \in {"push", "collect"} \/ found = <<>>
        /\ pc'[LoopThread] = "epoll" => pc[LoopThread] = "run"
        /\ pc[LoopThread] = "run" => batch = <<>>
    BY <1>2, ThreadsType DEF LoopStart, CheckStop, LoopLock, BatchDone, CollectLock,
       CollectExit, IterationExit, At, Enter, Goto, loopVars, QueueInv, TypeInv, TypeOK
  <2>2. LoopPhases'
    BY <2>1 DEF QueueInv, LoopPhases
  <2> QED
    BY <1>1, <2>1, <2>2, QuietStep
<1>3. CASE \E r \in Remotes : \/ AddTaskLock(r) \/ AddTaskWakeup(r) \/ AddTaskExit(r)
                              \/ StopFlag(r) \/ StopLooping(r) \/ StopWakeup(r)
  <2>1. /\ UNCHANGED <<batch, pending, found, call, calls, ran, fdVars, lost>>
        /\ \A r \in Remotes : pc'[r] \in {"lock", "push"} <=> pc[r] \in {"lock", "push"}
        /\ pc'[LoopThread] = pc[LoopThread]
    BY <1>3, ThreadsType DEF AddTaskLock, AddTaskWakeup, AddTaskExit, StopFlag, StopLooping,
       StopWakeup, Enter, Goto, loopVars, QueueInv, TypeInv, TypeOK
  <2>2. LoopPhases'
    BY <2>1 DEF QueueInv, LoopPhases
  <2> QED
    BY <1>1, <2>1, <2>2, QuietStep
<1>4. CASE UNCHANGED vars
  <2>1. LoopPhases'
    BY <1>4 DEF vars, loopVars, QueueInv, LoopPhases
  <2> QED
    BY <1>1, <1>4, <2>1, QuietStep DEF vars, loopVars, fdVars
<1>5. CASE \E r \in Remotes : RemoteAdd(r) \/ RemoteDelete(r) \/ AddTaskPush(r)
  BY <1>1, <1>5, RemoteCallKeeps, RemotePushKeeps
<1>6. CASE SwapTasks \/ RunBatch \/ EpollWait \/ CollectPush \/ CollectError
  BY <1>1, <1>6, SwapKeeps, RunKeeps, EpollKeeps, CollectKeeps, ErrorKeeps
<1> QED
  BY <1>2, <1>3, <1>4, <1>5, <1>6 DEF Next, Loop, Remote, Finished

\* The invariant of the queue holds always.
LEMMA QueueInvariant == Spec => []QueueInv
BY QueueInit, QueueInvInductive, PTL DEF Spec

\* The calls of one remote thread are run in the order it made them and at most
\* once, whatever the other threads post and the loop handles meanwhile.
THEOREM CallsRunInOrder == Spec => []CallsInOrder
BY QueueInvariant, PTL DEF QueueInv

\* epoll watches what the FdEvent asks for, or a registration is on its way, or
\* one was lost to the race on the queue.
THEOREM RegistrationsCatchUp == Spec => []RegistrationCatchesUp
BY QueueInvariant, PTL DEF QueueInv

\* A handler is never queued twice, nor while its event is still to be taken.
THEOREM HandlersQueuedOnce == Spec => []HandlerOnce
<1>1. QueueInv => HandlerOnce
  <2> SUFFICES ASSUME QueueInv, NEW f \in Fds \cup {WakeFd}, NEW k \in Kinds
               PROVE  Cardinality({i \in DOMAIN Queue : Queue[i] = Handler(f, k)})
                        + Cardinality({i \in DOMAIN found : found[i].fd = f /\ k \in found[i].kinds})
                        <= 1
    BY DEF HandlerOnce, Queue
  <2> DEFINE queued == {i \in DOMAIN Queue : Queue[i] = Handler(f, k)}
             events == {i \in DOMAIN found : found[i].fd = f /\ k \in found[i].kinds}
  <2>1. \A i, j \in queued : i = j
    BY DEF QueueInv, HandlersApart, Handler
  <2>2. \A i, j \in events : i = j
    BY DEF QueueInv, HandlersApart
  <2>3. queued = {} \/ events = {}
    BY DEF QueueInv, HandlersApart, Handler
  <2>4. \A S : (\A i, j \in S : i = j) => S = {} \/ \E i : S = {i}
    <3> SUFFICES ASSUME NEW S, \A i, j \in S : i = j, S # {}
                 PROVE  \E i : S = {i}
      OBVIOUS
    <3>1. PICK i : i \in S
      OBVIOUS
    <3>2. S = {i}
      BY <3>1
    <3> QED
      BY <3>2
  <2>5. Cardinality(queued) = 0 \/ Cardinality(queued) = 1
    BY <2>1, <2>4, FS_EmptySet, FS_Singleton
  <2>6. Cardinality(events) = 0 \/ Cardinality(events) = 1
    BY <2>2, <2>4, FS_EmptySet, FS_Singleton
  <2>7. Cardinality(queued) = 0 \/ Cardinality(events) = 0
    BY <2>3, FS_EmptySet
  <2> HIDE DEF queued, events
  <2> QED
    BY <2>5, <2>6, <2>7 DEF queued, events
<1> QED
  BY <1>1, QueueInvariant, PTL
-----------------------------------------------------------------------------
(* The thread around the loop: from here on OwnerAssumption is used too.    *)

\* What the owner and the thread do to each other leaves the loop alone or is
\* a step of it.
LEMMA ThreadStepsLoop == ThreadNext => [Next]_vars
<1> SUFFICES ASSUME ThreadNext PROVE [Next]_vars
  OBVIOUS
<1>1. CASE OwnerStep
  <2>1. CASE Destroy
    <3>1. StopFlag(Owner)
      BY <2>1 DEF Destroy
    <3> QED
      BY <3>1, OwnerAssumption DEF Next, Remote
  <2>2. CASE Construct \/ Constructed \/ Start \/ Join \/ Joined \/ Destroyed
    BY <2>2 DEF Construct, Constructed, Start, Join, Joined, Destroyed
  <2> QED
    BY <1>1, <2>1, <2>2 DEF OwnerStep
<1>2. CASE Run
  <2>1. CASE EnterLoop \/ InLoop
    BY <2>1 DEF EnterLoop, InLoop, Next, Loop
  <2>2. CASE RunStep \/ RunReturns
    BY <2>2 DEF RunStep, MakeLoop, PostInit, RunReturns
  <2> QED
    BY <1>2, <2>1, <2>2 DEF Run
<1>3. CASE \E r \in Remotes : Caller(r)
  BY <1>3 DEF Caller, Next
<1>4. CASE ThreadFinished
  BY <1>4 DEF ThreadFinished, allVars
<1> QED
  BY <1>1, <1>2, <1>3, <1>4 DEF ThreadNext

\* The loop inside an IOThread, with the owner's start, stop and destructor
\* around it, is an EventLoop: whatever holds of EventLoop holds of it.
THEOREM ThreadRunsLoop == ThreadSpec => Spec
<1>1. ThreadInit => Init
  BY DEF ThreadInit
<1>2. [ThreadNext]_allVars => [Next]_vars
  BY ThreadStepsLoop DEF allVars
<1> QED
  BY <1>1, <1>2, PTL DEF ThreadSpec, Spec

\* Its wakeups, in particular: the stop of the destructor wakes a loop that is
\* about to sleep.
THEOREM DestructorWakesLoop == ThreadSpec => []StopWakesLoop
BY ThreadRunsLoop, StopsAreWoken, PTL

\* The calls a thread makes to the loop of an IO thread, from before start() to
\* the destructor, are run in the order it made them and at most once.
THEOREM ThreadCallsInOrder == ThreadSpec => []CallsInOrder
BY ThreadRunsLoop, CallsRunInOrder, PTL

\* The hand-over by the two semaphores.  The loop is there from the step that
\* makes it, which precedes the post of m_init_sem, to the destructor's last
\* step, which follows the end of the thread.
HandOver ==
    /\ initSem \in Nat
    /\ owner = "new" => thread = "none"
    /\ thread \in {"none", "make"} => owner \in {"new", "constructing"} /\ initSem = 0
    /\ thread = "post" => initSem = 0
    /\ thread \in {"post", "wait", "loop"} => made /\ owner # "gone"
    /\ thread = "ended" => made \/ owner = "gone"
    /\ thread \in {"none", "make", "post", "wait", "loop", "ended"}
    /\ owner = "gone" => thread = "ended"
    /\ owner \in {"ready", "joining", "destroying"} => made

\* Every step preserves the hand-over.
LEMMA HandOverStep == HandOver /\ [ThreadNext]_allVars => HandOver'
<1> SUFFICES ASSUME HandOver, [ThreadNext]_allVars PROVE HandOver'
  OBVIOUS
<1>1. CASE Construct
  BY <1>1 DEF HandOver, Construct
<1>2. CASE Constructed
  BY <1>2 DEF HandOver, Constructed
<1>3. CASE Start \/ Join \/ Joined \/ Destroy
  BY <1>3 DEF HandOver, Start, Join, Joined, Destroy
<1>4. CASE Destroyed
  BY <1>4 DEF HandOver, Destroyed
<1>5. CASE RunStep
  BY <1>5 DEF HandOver, RunStep, MakeLoop, PostInit
<1>6. CASE EnterLoop \/ InLoop \/ RunReturns
  BY <1>6 DEF HandOver, EnterLoop, InLoop, RunReturns, threadVars
<1>7. CASE \E r \in Remotes : Caller(r)
  BY <1>7 DEF HandOver, Caller, threadVars
<1>8. CASE UNCHANGED allVars
  BY <1>8 DEF HandOver, allVars, threadVars
<1> QED
  BY <1>1, <1>2, <1>3, <1>4, <1>5, <1>6, <1>7, <1>8
  DEF ThreadNext, OwnerStep, Run, ThreadFinished

\* A thread that has the loop from getEventLoop(), or runs it, finds it made
\* and not yet deleted.
THEOREM LoopAlwaysThere == ThreadSpec => []LoopIsThere
<1>1. ThreadInit => HandOver
  BY DEF ThreadInit, HandOver
<1>2. HandOver => LoopIsThere
  BY DEF HandOver, LoopIsThere
<1> QED
  BY <1>1, <1>2, HandOverStep, PTL DEF ThreadSpec
=============================================================================
