------------------------------ MODULE IOThread ------------------------------
(***************************************************************************)
(* net/io_thread.cc: the life of the thread around its EventLoop.  Its     *)
(* constructor waits until the new thread has made the loop, start() lets  *)
(* the thread into it, join() waits for its end, and the destructor stops  *)
(* the loop, joins the thread and deletes the loop.                        *)
(*                                                                         *)
(* IOThreadPool is a vector of them, constructed, started and joined one   *)
(* after the other by the same owner, so one stands for all.               *)
(***************************************************************************)
EXTENDS EventLoop

CONSTANT Owner       \* the thread that constructs, starts and destroys

ASSUME OwnerAssumption == Owner \in Remotes

VARIABLES
    owner,       \* what the owner has done with the IOThread
    thread,      \* where Run() is
    made,        \* m_event_loop points to an EventLoop
    initSem,     \* m_init_sem
    startSem     \* m_start_sem

threadVars == <<owner, thread, made, initSem, startSem>>
allVars    == <<vars, threadVars>>
-----------------------------------------------------------------------------
(* The owner *)

\* IOThread(): the semaphores are initialised and the thread is created ...
Construct ==
    /\ owner = "new"
    /\ owner' = "constructing" /\ thread' = "make"
    /\ UNCHANGED <<vars, made, initSem, startSem>>

\* ... and the constructor returns when the loop is there.
Constructed ==
    /\ owner = "constructing" /\ initSem > 0
    /\ owner' = "ready" /\ initSem' = initSem - 1
    /\ UNCHANGED <<vars, thread, made, startSem>>

Started == startSem > 0 \/ thread \in {"loop", "ended"}

\* start(), which nobody calls twice.
Start ==
    /\ owner = "ready" /\ pc[Owner] = "idle" /\ ~Started
    /\ startSem' = startSem + 1
    /\ UNCHANGED <<vars, owner, thread, made, initSem>>

\* join().  (The destructor then joins a second time, which POSIX leaves
\* undefined; here it returns at once.)
Join ==
    /\ owner = "ready" /\ pc[Owner] = "idle"
    /\ owner' = "joining"
    /\ UNCHANGED <<vars, thread, made, initSem, startSem>>

Joined ==
    /\ owner = "joining" /\ thread = "ended"
    /\ owner' = "ready"
    /\ UNCHANGED <<vars, thread, made, initSem, startSem>>

\* Mutant of Destroy: the thread is joined without being stopped.
DestroyUnstopped ==
    /\ owner = "ready" /\ \A r \in Remotes : pc[r] = "idle"
    /\ owner' = "destroying"
    /\ UNCHANGED <<vars, thread, made, initSem, startSem>>

\* ~IOThread() calls stop(), whose other steps are StopLooping and StopWakeup.
\* No other thread is in a call any more, which is up to the program.
Destroy ==
    /\ owner = "ready" /\ \A r \in Remotes : pc[r] = "idle"
    /\ owner' = "destroying"
    /\ StopFlag(Owner)
    /\ UNCHANGED <<thread, made, initSem, startSem>>

\* The thread is joined and the loop deleted.
Destroyed ==
    /\ owner = "destroying" /\ pc[Owner] = "idle" /\ thread = "ended"
    /\ owner' = "gone" /\ made' = FALSE
    /\ UNCHANGED <<vars, thread, initSem, startSem>>
-----------------------------------------------------------------------------
(* Run(), in the new thread *)

MakeLoop ==
    /\ thread = "make"
    /\ made' = TRUE /\ thread' = "post"
    /\ UNCHANGED <<vars, owner, initSem, startSem>>

\* (mutant of RunStep: the owner is told before the loop is there)
PostFirst ==
    \/ /\ thread = "make" /\ initSem' = 1 /\ thread' = "post"
       /\ UNCHANGED <<vars, owner, made, startSem>>
    \/ /\ thread = "post" /\ made' = TRUE /\ thread' = "wait"
       /\ UNCHANGED <<vars, owner, initSem, startSem>>

PostInit ==
    /\ thread = "post"
    /\ initSem' = initSem + 1 /\ thread' = "wait"
    /\ UNCHANGED <<vars, owner, made, startSem>>

RunStep == MakeLoop \/ PostInit

\* The start semaphore is got, and loop() called.
EnterLoop ==
    /\ thread = "wait" /\ startSem > 0
    /\ startSem' = startSem - 1 /\ thread' = "loop"
    /\ LoopStart
    /\ UNCHANGED <<owner, made, initSem>>

InLoop == thread = "loop" /\ Loop /\ UNCHANGED threadVars

RunReturns ==
    /\ thread = "loop" /\ At("done")
    /\ thread' = "ended"
    /\ UNCHANGED <<vars, owner, made, initSem, startSem>>

Run == RunStep \/ EnterLoop \/ InLoop \/ RunReturns
-----------------------------------------------------------------------------
\* Calls to the loop that getEventLoop() returned, begun once the constructor
\* has returned and before the destructor is called.  (Bound: a loop that was
\* told to stop is told again by the destructor only.)
Caller(r) ==
    /\ Remote(r)
    /\ pc[r] = "idle" => owner = "ready"
    /\ pc'[r] = "stopping" => ~stopFlag
    /\ UNCHANGED threadVars

\* A new loop has registered its eventfd only.
ThreadInit ==
    /\ Init /\ listenFds = {}
    /\ owner = "new" /\ thread = "none" /\ made = FALSE
    /\ initSem = 0 /\ startSem = 0

OwnerStep == Construct \/ Constructed \/ Start \/ Join \/ Joined \/ Destroy \/ Destroyed

\* The thread is destroyed; or its owner waits for a thread that was never
\* started or that nobody stops.
ThreadFinished ==
    /\ \/ owner = "gone"
       \/ owner \in {"joining", "destroying"} /\ (~Started \/ ~stopFlag)
    /\ UNCHANGED allVars

ThreadNext ==
    OwnerStep \/ Run \/ (\E r \in Remotes : Caller(r)) \/ ThreadFinished

ThreadSpec == ThreadInit /\ [][ThreadNext]_allVars

\* Threads are scheduled, a lock that is free again and again is got, and
\* epoll_wait returns after g_epoll_max_timeout at the latest.  The owner, once
\* it has constructed the thread, starts it, as every owner in the sources does, unless it joins
\* or destroys it before that.
FairThreadSpec ==
    /\ ThreadSpec
    /\ WF_allVars(Run)
    /\ SF_allVars(InLoop /\ LoopLock) /\ SF_allVars(InLoop /\ CollectLock)
    /\ WF_allVars(Start) /\ WF_allVars(Joined) /\ WF_allVars(Destroyed)
    /\ \A r \in Remotes :
          /\ WF_allVars(RemoteStep(r) /\ UNCHANGED threadVars)
          /\ SF_allVars(AddTaskLock(r) /\ UNCHANGED threadVars)
-----------------------------------------------------------------------------
(* Properties *)

\* Every variable has its type.
ThreadTypeOK ==
    /\ TypeOK
    /\ owner \in {"new", "constructing", "ready", "joining", "destroying", "gone"}
    /\ thread \in {"none", "make", "post", "wait", "loop", "ended"}
    /\ made \in BOOLEAN /\ initSem \in 0..1 /\ startSem \in 0..1

\* A thread that has the loop from getEventLoop(), or runs it, finds it made
\* and not yet deleted.
LoopIsThere ==
    (owner \in {"ready", "joining", "destroying"} \/ thread = "loop") => made

\* Every call of a remote thread that is not lost to the race is run, even one
\* made before start() and whether or not its wakeup is seen, unless the loop
\* stops, or its owner waits for a thread that it never started.
CallsAreRun ==
    \A r \in Remotes : \A n \in 1..MaxCalls :
        (pc[r] = "wake" /\ call[r].n = n) ~>
            \/ ran[r] >= n \/ At("done") \/ call[r] \in lost
            \/ owner \in {"joining", "destroying"} /\ ~Started

\* A loop that is told to stop returns from loop(), even if it was told before
\* it began.
StopReturns == (stopFlag /\ ~At("idle")) ~> At("done")

\* Whoever destroys a thread that was started, or joins one that is stopped,
\* returns, whatever the thread was doing.
OwnerReturns ==
    (Started /\ (owner = "destroying" \/ (owner = "joining" /\ stopFlag))) ~>
        owner \in {"ready", "gone"}
=============================================================================
