----------------------------- MODULE EventLoop -----------------------------
(***************************************************************************)
(* net/eventloop.cc: one event loop, the thread that runs it and the       *)
(* remote threads that post to it.                                         *)
(*                                                                         *)
(* loop() runs an iteration per pass: test the stop flag, swap the task    *)
(* queue out under the mutex, run the batch, sleep in epoll_wait, turn     *)
(* every returned event into a task, and leave the scope of the iteration, *)
(* which destroys the ScopeLocker a second time.  Remote threads add and   *)
(* delete fds through addTask(cb, true) and stop the loop.                 *)
(*                                                                         *)
(* The mutex does not always exclude (see ScopeLocker), and a push that    *)
(* overlaps another access of the std::queue is undefined behaviour: here  *)
(* its task is either queued or lost.  (A crash, the other outcome, ends   *)
(* the behaviour and so violates no safety property that did not fail      *)
(* before.)                                                                *)
(***************************************************************************)
EXTENDS Naturals, Sequences, FiniteSets

CONSTANTS
    Remotes,     \* threads other than the loop's own
    LoopThread,  \* the thread that runs loop()
    Fds,         \* the FdEvents a user registers (timer, acceptor, connections)
    Kinds,       \* the events they listen for, of "IN" and "OUT"
    WakeFd,      \* m_wakeup_fd_event
    MaxEvents,   \* g_epoll_max_events
    MaxCalls     \* bound: calls that each remote thread makes

ASSUME ConstantsAssumption ==
    /\ LoopThread \notin Remotes
    /\ WakeFd \notin Fds
    /\ Kinds \subseteq {"IN", "OUT"} /\ "IN" \in Kinds
    /\ MaxEvents \in Nat \ {0}
    /\ MaxCalls \in Nat

VARIABLES
    mutex,       \* the word of m_mutex
    pending,     \* m_pending_tasks
    batch,       \* tmp_tasks, a local of loop()
    pc,          \* where each thread is
    call,        \* the task a remote thread is posting
    calls,       \* the number of calls each remote thread has made
    found,       \* result_events still to be processed
    eventfd,     \* m_wakeup_fd holds a non-zero count
    stopFlag,    \* m_stop_flag
    isLooping,   \* m_is_looping
    mask,        \* FdEvent::m_listen_events of each fd
    listenFds,   \* m_listen_fds, the fds known to epoll
    interest,    \* the events epoll reports for each of them
    overlapped,  \* threads whose access of the queue overlaps another's
    \* history, read by the properties only:
    lost,        \* remote threads' tasks that an overlapping push lost
    drained,     \* this iteration has run the wakeup handler
    ran          \* the last call of each remote thread that was run

loopVars == <<batch, found, drained>>
fdVars   == <<mask, listenFds, interest>>
vars     == <<mutex, pending, pc, call, calls, eventfd, stopFlag, isLooping,
              overlapped, lost, ran, loopVars, fdVars>>

Lock == INSTANCE ScopeLocker WITH word <- mutex
-----------------------------------------------------------------------------
Threads == Remotes \cup {LoopThread}

\* The callbacks that get queued: a handler of an fd, pushed by the loop, or
\* the lambda of addEpollEvent / deleteEpollEvent, pushed by a remote thread.
Handler(f, k)         == [op |-> k, fd |-> f, by |-> LoopThread, n |-> 0]
Lambda(op, f, r, n)   == [op |-> op, fd |-> f, by |-> r, n |-> n]
Tasks ==
    [op : Kinds, fd : Fds \cup {WakeFd}, by : {LoopThread}, n : {0}]
        \cup [op : {"ADD", "DEL"}, fd : Fds, by : Remotes, n : Nat]

Events == [fd : Fds \cup {WakeFd}, kinds : SUBSET (Kinds \cup {"ERR"})]

LoopPcs   == {"idle", "check", "lock", "swap", "run", "epoll", "collect",
              "push", "pushed", "done"}
RemotePcs == {"idle", "lock", "push", "wake", "exit", "stopping", "stopwake"}

Goto(t, where) == pc' = [pc EXCEPT ![t] = where]

\* The threads between the constructor of their guard and its unlock().
Accessing == {t \in Threads : pc[t] = "push" \/ (t = LoopThread /\ pc[t] = "swap")}

\* Thread t takes the guard and starts to access the queue.
Enter(t, where) ==
    /\ Lock!Construct
    /\ Goto(t, where)
    /\ overlapped' = IF Accessing = {} THEN overlapped
                     ELSE overlapped \cup Accessing \cup {t}

\* Mutant of Push: an urgent task jumps the queue.
PushFront(t, task) ==
    /\ pending' = <<task>> \o pending /\ UNCHANGED lost
    /\ overlapped' = overlapped \ {t}
    /\ Lock!Unlock

\* m_pending_tasks.push(task) by t, followed by its unlock().
Push(t, task) ==
    /\ \/ pending' = Append(pending, task) /\ UNCHANGED lost
       \/ t \in overlapped /\ UNCHANGED pending
             /\ lost' = lost \cup {u \in {task} : u.by \in Remotes}
    /\ overlapped' = overlapped \ {t}
    /\ Lock!Unlock
-----------------------------------------------------------------------------
\* Mutants of AddToEpoll: a known fd is left as it is; EPOLLERR is asked for.
AddUnlessKnown(f, m) ==
    /\ interest' = IF f \in listenFds THEN interest ELSE [interest EXCEPT ![f] = m]
    /\ listenFds' = listenFds \cup {f}
AddWithErr(f, m) ==
    /\ interest' = [interest EXCEPT ![f] = m \cup {"ERR"}]
    /\ listenFds' = listenFds \cup {f}

\* ADD_TO_EPOLL: EPOLL_CTL_ADD or EPOLL_CTL_MOD with the FdEvent's mask of now.
AddToEpoll(f, m) ==
    /\ interest' = [interest EXCEPT ![f] = m]
    /\ listenFds' = listenFds \cup {f}

\* DEL_FROM_EPOLL: returns early when the fd is not in m_listen_fds.
DelFromEpoll(f) ==
    /\ interest' = [interest EXCEPT ![f] = {}]
    /\ listenFds' = listenFds \ {f}

\* wakeup(): the count of the eventfd becomes non-zero.
Wakeup == eventfd' = TRUE
-----------------------------------------------------------------------------
(* Remote threads *)

\* addEpollEvent / deleteEpollEvent up to the constructor of addTask's guard.
\* A registration first extends the mask (FdEvent::listen), in this thread.
RemoteAdd(r) ==
    /\ pc[r] = "idle" /\ calls[r] < MaxCalls
    /\ calls' = [calls EXCEPT ![r] = @ + 1]
    /\ \E f \in Fds, k \in Kinds :
          /\ mask' = [mask EXCEPT ![f] = @ \cup {k}]
          /\ call' = [call EXCEPT ![r] = Lambda("ADD", f, r, calls[r] + 1)]
    /\ Goto(r, "lock")
    /\ UNCHANGED <<mutex, pending, eventfd, stopFlag, isLooping, overlapped,
                   lost, ran, loopVars, listenFds, interest>>

RemoteDelete(r) ==
    /\ pc[r] = "idle" /\ calls[r] < MaxCalls
    /\ calls' = [calls EXCEPT ![r] = @ + 1]
    /\ \E f \in Fds : call' = [call EXCEPT ![r] = Lambda("DEL", f, r, calls[r] + 1)]
    /\ Goto(r, "lock")
    /\ UNCHANGED <<mutex, pending, eventfd, stopFlag, isLooping, overlapped,
                   lost, ran, loopVars, fdVars>>

\* addTask: the guard is constructed ...
AddTaskLock(r) ==
    /\ pc[r] = "lock"
    /\ Enter(r, "push")
    /\ UNCHANGED <<pending, call, calls, eventfd, stopFlag, isLooping, lost, ran,
                   loopVars, fdVars>>

\* ... the callback is pushed and the guard unlocked ...
AddTaskPush(r) ==
    /\ pc[r] = "push"
    /\ Push(r, call[r])
    /\ Goto(r, "wake")
    /\ UNCHANGED <<call, calls, eventfd, stopFlag, isLooping, ran, loopVars, fdVars>>

\* Mutant of AddTaskWakeup: is_wake_up is false, as in README.md:145.
AddTaskNoWakeup(r) ==
    /\ pc[r] = "wake"
    /\ Goto(r, "exit")
    /\ UNCHANGED <<mutex, pending, call, calls, eventfd, stopFlag, isLooping,
                   overlapped, lost, ran, loopVars, fdVars>>

\* ... the loop is woken, is_wake_up being true for remote calls ...
AddTaskWakeup(r) ==
    /\ pc[r] = "wake"
    /\ Wakeup
    /\ Goto(r, "exit")
    /\ UNCHANGED <<mutex, pending, call, calls, stopFlag, isLooping, overlapped,
                   lost, ran, loopVars, fdVars>>

\* ... and the guard is destroyed, which releases the mutex once more.
AddTaskExit(r) ==
    /\ pc[r] = "exit"
    /\ Lock!Destruct
    /\ Goto(r, "idle")
    /\ UNCHANGED <<pending, call, calls, eventfd, stopFlag, isLooping, overlapped,
                   lost, ran, loopVars, fdVars>>

\* stop(), one statement at a time.
StopFlag(r) ==
    /\ pc[r] = "idle"
    /\ stopFlag' = TRUE
    /\ Goto(r, "stopping")
    /\ UNCHANGED <<mutex, pending, call, calls, eventfd, isLooping, overlapped, lost, ran,
                   loopVars, fdVars>>

StopLooping(r) ==
    /\ pc[r] = "stopping"
    /\ isLooping' = FALSE
    /\ Goto(r, "stopwake")
    /\ UNCHANGED <<mutex, pending, call, calls, eventfd, stopFlag, overlapped, lost,
                   ran, loopVars, fdVars>>

\* (mutant of StopWakeup: without the wakeup)
StopSilently(r) ==
    /\ pc[r] = "stopwake"
    /\ Goto(r, "idle")
    /\ UNCHANGED <<mutex, pending, call, calls, eventfd, stopFlag, isLooping,
                   overlapped, lost, ran, loopVars, fdVars>>

StopWakeup(r) ==
    /\ pc[r] = "stopwake"
    /\ Wakeup
    /\ Goto(r, "idle")
    /\ UNCHANGED <<mutex, pending, call, calls, stopFlag, isLooping, overlapped,
                   lost, ran, loopVars, fdVars>>

Remote(r) ==
    \/ RemoteAdd(r) \/ RemoteDelete(r)
    \/ AddTaskLock(r) \/ AddTaskPush(r) \/ AddTaskWakeup(r) \/ AddTaskExit(r)
    \/ StopFlag(r) \/ StopLooping(r) \/ StopWakeup(r)
-----------------------------------------------------------------------------
(* The loop's thread *)

At(where) == pc[LoopThread] = where

LoopStart ==
    /\ At("idle")
    /\ isLooping' = TRUE
    /\ Goto(LoopThread, "check")
    /\ UNCHANGED <<mutex, pending, call, calls, eventfd, stopFlag, overlapped, lost,
                   ran, loopVars, fdVars>>

\* while(!m_stop_flag)
CheckStop ==
    /\ At("check")
    /\ Goto(LoopThread, IF stopFlag THEN "done" ELSE "lock")
    /\ drained' = FALSE
    /\ UNCHANGED <<mutex, pending, call, calls, eventfd, stopFlag, isLooping,
                   overlapped, lost, ran, batch, found, fdVars>>

LoopLock ==
    /\ At("lock")
    /\ Enter(LoopThread, "swap")
    /\ UNCHANGED <<pending, call, calls, eventfd, stopFlag, isLooping, lost, ran,
                   loopVars, fdVars>>

\* Mutant of SwapTasks: the queue is copied and not emptied.
CopyTasks ==
    /\ At("swap")
    /\ batch' = pending
    /\ overlapped' = overlapped \ {LoopThread}
    /\ Lock!Unlock
    /\ Goto(LoopThread, "run")
    /\ UNCHANGED <<pending, call, calls, eventfd, stopFlag, isLooping, lost, ran,
                   found, drained, fdVars>>

\* tmp_tasks.swap(m_pending_tasks); lock.unlock().  A push in progress keeps
\* its overlap, and may still be lost.
SwapTasks ==
    /\ At("swap")
    /\ batch' = pending
    /\ pending' = <<>>
    /\ overlapped' = overlapped \ {LoopThread}
    /\ Lock!Unlock
    /\ Goto(LoopThread, "run")
    /\ UNCHANGED <<call, calls, eventfd, stopFlag, isLooping, lost, ran, found,
                   drained, fdVars>>

\* What a handler may do to its own fd, in the loop's thread: nothing, change
\* the mask and register, or cancel everything and deregister.
HandlerEffect(f) ==
    \/ UNCHANGED fdVars
    \/ \E m \in SUBSET Kinds :
          mask' = [mask EXCEPT ![f] = m] /\ AddToEpoll(f, m)
    \/ mask' = [mask EXCEPT ![f] = {}] /\ DelFromEpoll(f)

\* tmp_tasks.front() is popped and called.
RunTask(t) ==
    \/ /\ t.fd = WakeFd                       \* the wakeup handler reads the eventfd empty
       /\ eventfd' = FALSE /\ drained' = TRUE
       /\ UNCHANGED <<stopFlag, isLooping, ran, fdVars>>
    \/ /\ t.fd \in Fds /\ t.op \in Kinds      \* a handler
       /\ HandlerEffect(t.fd)
       /\ UNCHANGED <<eventfd, drained, stopFlag, isLooping, ran>>
    \/ /\ t.fd \in Fds /\ t.op \in Kinds      \* a handler that calls stop()
       /\ stopFlag' = TRUE /\ isLooping' = FALSE /\ Wakeup
       /\ UNCHANGED <<drained, ran, fdVars>>
    \/ /\ t.op = "ADD"
       /\ AddToEpoll(t.fd, mask[t.fd])
       /\ ran' = [ran EXCEPT ![t.by] = t.n]
       /\ UNCHANGED <<eventfd, drained, stopFlag, isLooping, mask>>
    \/ /\ t.op = "DEL"
       /\ DelFromEpoll(t.fd)
       /\ ran' = [ran EXCEPT ![t.by] = t.n]
       /\ UNCHANGED <<eventfd, drained, stopFlag, isLooping, mask>>

RunBatch ==
    /\ At("run")
    /\ batch # <<>>
    /\ RunTask(Head(batch))
    /\ batch' = Tail(batch)
    /\ UNCHANGED <<mutex, pending, pc, call, calls, overlapped, lost, found>>

BatchDone ==
    /\ At("run")
    /\ batch = <<>>
    /\ Goto(LoopThread, "epoll")
    /\ UNCHANGED <<mutex, pending, call, calls, eventfd, stopFlag, isLooping,
                   overlapped, lost, ran, loopVars, fdVars>>

\* The epoll_events that may be reported now: level-triggered, for a
\* registered fd any events of its interest and EPOLLERR; for the eventfd
\* EPOLLIN as long as it is non-zero.
Reportable ==
    {e \in Events :
        \/ /\ e.fd \in listenFds /\ e.kinds # {}
           /\ e.kinds \subseteq interest[e.fd] \cup {"ERR"}
        \/ e.fd = WakeFd /\ e.kinds = {"IN"} /\ eventfd}

\* epoll_wait returns at most MaxEvents events of different fds in any order;
\* the eventfd is left out only when the array is full.  No event at all is a
\* timeout (or an error), possible only while the eventfd is empty.
EpollReturns(least) ==
    /\ At("epoll")
    /\ \E k \in least..MaxEvents : \E events \in [1..k -> Reportable] :
          /\ \A i, j \in 1..k : events[i].fd = events[j].fd => i = j
          /\ eventfd => k = MaxEvents \/ \E i \in 1..k : events[i].fd = WakeFd
          /\ found' = events
    /\ Goto(LoopThread, "collect")
    /\ UNCHANGED <<mutex, pending, call, calls, eventfd, stopFlag, isLooping,
                   overlapped, lost, ran, batch, drained, fdVars>>

EpollWaitForever == EpollReturns(1)   \* mutant of EpollWait: time_out = -1
EpollWait == EpollReturns(0)

\* The events of an fd are taken in the order of the ifs.
FirstKind(e) == IF "IN" \in e.kinds THEN "IN"
                ELSE IF "OUT" \in e.kinds THEN "OUT" ELSE "ERR"
After(e)     == [e EXCEPT !.kinds = @ \ {FirstKind(e)}]
Remaining    == LET e == After(Head(found)) IN
                IF e.kinds = {} THEN Tail(found) ELSE <<e>> \o Tail(found)

\* addTask(fd_event->handler(...)) without a wakeup.
CollectLock ==
    /\ At("collect")
    /\ found # <<>> /\ FirstKind(Head(found)) \in Kinds
    /\ Enter(LoopThread, "push")
    /\ UNCHANGED <<pending, call, calls, eventfd, stopFlag, isLooping, lost, ran,
                   loopVars, fdVars>>

CollectPush ==
    /\ At("push")
    /\ Push(LoopThread, Handler(Head(found).fd, FirstKind(Head(found))))
    /\ found' = Remaining
    /\ Goto(LoopThread, "pushed")
    /\ UNCHANGED <<call, calls, eventfd, stopFlag, isLooping, ran, batch, drained,
                   fdVars>>

CollectExit ==
    /\ At("pushed")
    /\ Lock!Destruct
    /\ Goto(LoopThread, "collect")
    /\ UNCHANGED <<pending, call, calls, eventfd, stopFlag, isLooping, overlapped,
                   lost, ran, loopVars, fdVars>>

\* EPOLLERR: the fd is deleted; no caller of listen() passes an error callback.
CollectError ==
    /\ At("collect")
    /\ found # <<>> /\ FirstKind(Head(found)) = "ERR"
    /\ DelFromEpoll(Head(found).fd)
    /\ found' = Remaining
    /\ UNCHANGED <<mutex, pending, pc, call, calls, eventfd, stopFlag, isLooping,
                   overlapped, lost, ran, batch, drained, mask>>

\* The end of the while body destroys the iteration's guard.
IterationExit ==
    /\ At("collect")
    /\ found = <<>>
    /\ Lock!Destruct
    /\ Goto(LoopThread, "check")
    /\ UNCHANGED <<pending, call, calls, eventfd, stopFlag, isLooping, overlapped,
                   lost, ran, loopVars, fdVars>>

Loop ==
    \/ LoopStart \/ CheckStop \/ LoopLock \/ SwapTasks \/ RunBatch \/ BatchDone
    \/ EpollWait \/ CollectLock \/ CollectPush \/ CollectExit \/ CollectError
    \/ IterationExit
-----------------------------------------------------------------------------
\* Before loop() its thread may have registered fds directly (the timer, the
\* listening socket); the wakeup fd is always registered.
Init ==
    /\ mutex = FALSE
    /\ pending = <<>> /\ batch = <<>> /\ found = <<>>
    /\ pc = [t \in Threads |-> "idle"]
    /\ call \in [Remotes -> {Handler(WakeFd, "IN")}]
    /\ calls = [r \in Remotes |-> 0]
    /\ eventfd = FALSE /\ stopFlag = FALSE /\ isLooping = FALSE
    /\ listenFds \in SUBSET Fds
    /\ mask = [f \in Fds |-> IF f \in listenFds THEN {"IN"} ELSE {}]
    /\ interest = mask
    /\ overlapped = {} /\ lost = {} /\ drained = FALSE
    /\ ran = [r \in Remotes |-> 0]

\* The loop has returned and no remote thread has a call left to make.
Finished ==
    /\ At("done")
    /\ \A r \in Remotes : pc[r] = "idle" /\ calls[r] = MaxCalls
    /\ UNCHANGED vars

Next == Loop \/ (\E r \in Remotes : Remote(r)) \/ Finished

Spec == Init /\ [][Next]_vars

\* The steps that end a call: nothing forces a remote thread to begin one.
RemoteStep(r) ==
    \/ AddTaskLock(r) \/ AddTaskPush(r) \/ AddTaskWakeup(r) \/ AddTaskExit(r)
    \/ StopLooping(r) \/ StopWakeup(r)
-----------------------------------------------------------------------------
(* Properties *)

\* Every variable has its type.
TypeOK ==
    /\ mutex \in BOOLEAN
    /\ pending \in Seq(Tasks) /\ batch \in Seq(Tasks) /\ found \in Seq(Events)
    /\ pc \in [Threads -> LoopPcs \cup RemotePcs]
    /\ pc[LoopThread] \in LoopPcs /\ (\A r \in Remotes : pc[r] \in RemotePcs)
    /\ call \in [Remotes -> Tasks] /\ calls \in [Remotes -> Nat]
    /\ eventfd \in BOOLEAN /\ stopFlag \in BOOLEAN /\ isLooping \in BOOLEAN
    /\ mask \in [Fds -> SUBSET Kinds] /\ interest \in [Fds -> SUBSET Kinds]
    /\ listenFds \in SUBSET Fds
    /\ overlapped \in SUBSET Threads /\ lost \in SUBSET Tasks
    /\ drained \in BOOLEAN /\ ran \in [Remotes -> Nat]

\* addTask is called for a handler, never for an empty callback: the loop is in
\* addTask only while there is an event left whose handler it pushes.
Collecting ==
    pc[LoopThread] = "push" => found # <<>> /\ FirstKind(Head(found)) \in Kinds

\* A loop that is past its swap and about to sleep has been, or is about to
\* be, woken for every task it has not taken, unless this very iteration ran
\* the wakeup handler, which reads the eventfd empty on everybody's behalf.
TasksWakeLoop ==
    pc[LoopThread] \in {"run", "epoll"} /\ pending # <<>> =>
        eventfd \/ drained \/ \E r \in Remotes : pc[r] = "wake"

\* The same for stop(): a loop that has tested the flag before it was set does
\* not sleep on it, again unless it ran the wakeup handler in between.
StopWakesLoop ==
    pc[LoopThread] \in {"lock", "swap", "run", "epoll"} /\ stopFlag =>
        \/ eventfd \/ drained
        \/ \E r \in Remotes : pc[r] \in {"stopping", "stopwake"}

\* A handler of an fd is queued at most once, however often epoll reports the
\* fd: an fd is reported again only after its handler has run.
HandlerOnce ==
    \A f \in Fds \cup {WakeFd}, k \in Kinds :
        Cardinality({i \in DOMAIN (batch \o pending) : (batch \o pending)[i] = Handler(f, k)})
            + Cardinality({i \in DOMAIN found : found[i].fd = f /\ k \in found[i].kinds})
            <= 1

\* The calls of one remote thread are run in the order it made them, each at
\* most once: those queued are in order and newer than the last one run.
CallsInOrder ==
    LET queue == batch \o pending IN
    \A i \in DOMAIN queue : queue[i].by \in Remotes =>
        /\ queue[i].n > ran[queue[i].by]
        /\ \A j \in 1..(i - 1) : queue[j].by = queue[i].by => queue[j].n < queue[i].n

\* epoll watches an fd for what its FdEvent asks for, or a registration is
\* still on its way to the loop, or one was lost to the queue's race.
\* (m_listen_events is read when the lambda runs, not when it is posted.)
RegistrationCatchesUp ==
    \A f \in listenFds : interest[f] # mask[f] =>
        \/ \E i \in DOMAIN (batch \o pending) :
              (batch \o pending)[i].fd = f /\ (batch \o pending)[i].op = "ADD"
        \/ \E r \in Remotes : /\ pc[r] \in {"lock", "push"}
                              /\ call[r].fd = f /\ call[r].op = "ADD"
        \/ \E t \in lost : t.fd = f /\ t.op = "ADD"
=============================================================================
