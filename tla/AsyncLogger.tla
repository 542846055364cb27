---------------------------- MODULE AsyncLogger ----------------------------
(***************************************************************************)
(* common/log.cc in its asynchronous mode: threads push lines to Logger's  *)
(* buffer, a timer event in the main loop hands the buffer over as one     *)
(* batch to the queue of an AsyncLogger, whose own thread writes the       *)
(* batches to files named by date and number.                              *)
(*                                                                         *)
(* The system's log and the application's are two such chains with mutexes *)
(* and files of their own, of which this is one.  Both mutexes are used    *)
(* through ScopeLocker and so may be free while a thread works under them: *)
(* a push that overlaps another access may be lost, and the writer may     *)
(* miss the signal of a batch that comes between its test and its wait.    *)
(***************************************************************************)
EXTENDS Naturals, Sequences, Functions

CONSTANTS
    Loggers,     \* threads that log
    TimerThread, \* the thread whose loop runs asyncLoop
    Writer,      \* the thread of AsyncLogger::Loop
    MaxFileSize, \* m_max_file_size, in lines
    MaxLines,    \* bound: lines that each thread logs
    Days,        \* bound: days on which something is written
    MaxRestarts  \* bound: restarts of the process

ASSUME ConstantsAssumption ==
    /\ TimerThread \notin Loggers /\ Writer \notin Loggers /\ TimerThread # Writer
    /\ MaxFileSize \in Nat \ {0}
    /\ MaxLines \in Nat /\ Days \in Nat \ {0} /\ MaxRestarts \in Nat

VARIABLES
    pc,          \* where each thread is
    mutex,       \* the word of Logger::m_mutex
    buffer,      \* Logger::m_buffer
    handed,      \* tmp, the local of asyncLoop
    queueMutex,  \* the word of AsyncLogger::m_mutex
    queue,       \* AsyncLogger::m_buffer
    batch,       \* tmp, the local of Loop
    date,        \* m_date, 0 when empty
    no,          \* m_no
    handler,     \* m_file_handler, the file it is open on
    stopFlag,    \* m_stop_flag
    raced,       \* threads whose push overlaps another access
    today,       \* the date that localtime_r gives
    files,       \* what each file holds; files outlive the process
    \* history, read by the properties only, except for the bounds:
    logged,      \* lines each thread has logged
    restarts,    \* how often the process was started again
    lost,        \* lines that an overlapping push lost
    missed,      \* the last batch came between the writer's test and its wait
    again        \* files that this life of the process added to when they were full

loggerVars == <<mutex, buffer>>
asyncVars  == <<queueMutex, queue, missed>>
histVars   == <<logged, lost>>
writerVars == <<batch, date, no, handler, files, again>>
worldVars  == <<stopFlag, today, restarts>>
vars == <<pc, loggerVars, handed, asyncVars, writerVars, worldVars, raced, histVars>>

Lock  == INSTANCE ScopeLocker WITH word <- mutex
QLock == INSTANCE ScopeLocker WITH word <- queueMutex
-----------------------------------------------------------------------------
Threads == Loggers \cup {TimerThread, Writer}
Lines   == [by : Threads, n : Nat, life : Nat]
NoFile  == <<0, 0>>
Files   == (1..Days) \X Nat

\* The contents of a file that does not exist yet is empty.
Contents(f) == IF f \in DOMAIN files THEN files[f] ELSE <<>>
Full(f)     == Len(Contents(f)) >= MaxFileSize

Goto(t, where) == pc' = [pc EXCEPT ![t] = where]

\* The threads that are pushing a line.
Pushing == {t \in Loggers : pc[t] = "push"}
-----------------------------------------------------------------------------
(* pushLog, in any thread *)

\* The line is made and the guard constructed ...
Log(t) ==
    /\ pc[t] = "idle" /\ logged[t] < MaxLines
    /\ Lock!Construct
    /\ logged' = [logged EXCEPT ![t] = @ + 1]
    /\ raced' = IF Pushing # {} \/ pc[TimerThread] = "swap"
                THEN raced \cup Pushing \cup {t} ELSE raced
    /\ Goto(t, "push")
    /\ UNCHANGED <<asyncVars, writerVars, worldVars, buffer, handed, lost>>

\* (Pushed's mutant puts it in front.)
PushedFirst(line) == <<line>> \o buffer
Pushed(line)      == Append(buffer, line)

\* ... pushed at the end of the buffer, and the guard unlocked ...
PushLine(t) ==
    LET line == [by |-> t, n |-> logged[t], life |-> restarts] IN
    /\ pc[t] = "push"
    /\ \/ buffer' = Pushed(line) /\ UNCHANGED lost
       \/ t \in raced /\ lost' = lost \cup {line} /\ UNCHANGED buffer
    /\ raced' = raced \ {t}
    /\ Lock!Unlock
    /\ Goto(t, "exit")
    /\ UNCHANGED <<asyncVars, writerVars, worldVars, handed, logged>>

\* ... and destroyed.
LogExit(t) ==
    /\ pc[t] = "exit"
    /\ Lock!Destruct
    /\ Goto(t, "idle")
    /\ UNCHANGED <<asyncVars, writerVars, worldVars, buffer, handed, raced, histVars>>
-----------------------------------------------------------------------------
(* asyncLoop, called by the timer *)

AsyncLoop ==
    /\ pc[TimerThread] = "idle"
    /\ Lock!Construct
    /\ raced' = raced \cup Pushing
    /\ Goto(TimerThread, "swap")
    /\ UNCHANGED <<asyncVars, writerVars, worldVars, buffer, handed, histVars>>

\* (AfterSwap's mutant hands an empty buffer over too.)
AfterSwapAlways == "lock"
AfterSwap       == IF buffer = <<>> THEN "exit" ELSE "lock"

\* tmp.swap(m_buffer); nothing is handed over when it was empty.
SwapBuffer ==
    /\ pc[TimerThread] = "swap"
    /\ handed' = buffer /\ buffer' = <<>>
    /\ Lock!Unlock
    /\ Goto(TimerThread, AfterSwap)
    /\ UNCHANGED <<asyncVars, writerVars, worldVars, raced, histVars>>

\* pushLogBuffer: the guard of the queue is constructed ...
HandOver ==
    /\ pc[TimerThread] = "lock"
    /\ QLock!Construct
    /\ raced' = IF pc[Writer] = "check" THEN raced \cup {TimerThread} ELSE raced
    /\ Goto(TimerThread, "push")
    /\ UNCHANGED <<loggerVars, writerVars, worldVars, handed, queue, missed, histVars>>

\* (Signal's mutant tells nobody.)
SignalNobody == [pc EXCEPT ![TimerThread] = "pushed"]
Signal       == [pc EXCEPT ![TimerThread] = "pushed",
                           ![Writer] = IF @ = "wait" THEN "wake" ELSE @]

\* ... the batch is pushed, the condition signalled and the guard unlocked ...
PushLogBuffer ==
    /\ pc[TimerThread] = "push"
    /\ \/ queue' = Append(queue, handed) /\ UNCHANGED lost
       \/ /\ TimerThread \in raced
          /\ lost' = lost \cup Range(handed)
          /\ UNCHANGED queue
    /\ handed' = <<>> /\ missed' = (pc[Writer] = "sleep")
    /\ raced' = raced \ {TimerThread}
    /\ QLock!Unlock
    /\ pc' = Signal
    /\ UNCHANGED <<loggerVars, writerVars, worldVars, logged>>

\* ... and destroyed.
HandOverExit ==
    /\ pc[TimerThread] = "pushed"
    /\ QLock!Destruct
    /\ Goto(TimerThread, "exit")
    /\ UNCHANGED <<loggerVars, writerVars, worldVars, handed, queue, missed, raced,
                   histVars>>

\* The end of asyncLoop destroys the guard of the buffer.
AsyncLoopExit ==
    /\ pc[TimerThread] = "exit"
    /\ Lock!Destruct
    /\ Goto(TimerThread, "idle")
    /\ UNCHANGED <<asyncVars, writerVars, worldVars, buffer, handed, raced, histVars>>

Timer ==
    \/ AsyncLoop \/ SwapBuffer \/ HandOver \/ PushLogBuffer \/ HandOverExit
    \/ AsyncLoopExit
-----------------------------------------------------------------------------
(* AsyncLogger::Loop *)

\* The guard's constructor, or the lock that pthread_cond_wait takes again.
WriterLock ==
    /\ pc[Writer] \in {"lock", "wake"}
    /\ QLock!Construct
    /\ raced' = raced \cup {t \in {TimerThread} : pc[t] = "push"}
    /\ Goto(Writer, "check")
    /\ UNCHANGED <<loggerVars, writerVars, worldVars, handed, queue, missed, histVars>>

\* m_buffer.empty(), and otherwise the first batch is taken.
TakeBatch ==
    /\ pc[Writer] = "check"
    /\ IF queue = <<>>
       THEN Goto(Writer, "sleep") /\ UNCHANGED <<queueMutex, queue, batch>>
       ELSE /\ batch' = Head(queue) /\ queue' = Tail(queue)
            /\ QLock!Unlock
            /\ Goto(Writer, "open")
    /\ UNCHANGED <<loggerVars, worldVars, handed, missed, date, no, handler, files,
                   again, raced, histVars>>

\* pthread_cond_wait releases the mutex and waits in one step; it may return
\* without a signal.
Wait ==
    /\ pc[Writer] = "sleep"
    /\ QLock!Unlock
    /\ Goto(Writer, "wait")
    /\ UNCHANGED <<loggerVars, writerVars, worldVars, handed, queue, missed, raced,
                   histVars>>

SpuriousWakeup ==
    /\ pc[Writer] = "wait"
    /\ Goto(Writer, "wake")
    /\ UNCHANGED <<loggerVars, asyncVars, writerVars, worldVars, handed, raced,
                   histVars>>

\* ftell() has reached the size.  (The mutant goes over it.)
OverSize(f) == Len(Contents(f)) > MaxFileSize
AtSize(f)   == Len(Contents(f)) >= MaxFileSize

\* A new date starts at number 0 in a new file; without an open file the one
\* of the current number is opened, for appending.  A file that is full is
\* closed and the one of the current number opened, which is counted after it
\* has been used: the first file of a day is so opened twice.  (When fopen
\* fails the NULL handler is used all the same, and the process dies: Restart.)
OpenFile ==
    LET number == IF date = today THEN no ELSE 0
        file   == IF date = today /\ handler # NoFile THEN handler ELSE <<today, number>>
    IN
    /\ pc[Writer] = "open"
    /\ date' = today
    /\ IF AtSize(file) THEN handler' = <<today, number>> /\ no' = number + 1
                       ELSE handler' = file /\ no' = number
    /\ Goto(Writer, "write")
    /\ UNCHANGED <<loggerVars, asyncVars, worldVars, handed, batch, files, again,
                   raced, histVars>>

Appended(f, s) == [g \in DOMAIN files \cup {f} |->
                      IF g = f THEN Contents(f) \o s ELSE files[g]]

\* fwrite for each line, and fflush.
WriteBatch ==
    /\ pc[Writer] = "write"
    /\ files' = Appended(handler, batch)
    /\ again' = again \cup {f \in {handler} : Full(f)}
    /\ batch' = <<>>
    /\ Goto(Writer, "exit")
    /\ UNCHANGED <<loggerVars, asyncVars, worldVars, handed, date, no, handler, raced,
                   histVars>>

\* The stop flag is tested once a batch is written; whether it returns or goes
\* round, the body's end destroys the guard that was unlocked before the files.
WriterExit ==
    /\ pc[Writer] = "exit"
    /\ QLock!Destruct
    /\ Goto(Writer, IF stopFlag THEN "done" ELSE "lock")
    /\ UNCHANGED <<loggerVars, writerVars, worldVars, handed, queue, missed, raced,
                   histVars>>

Loop == WriterLock \/ TakeBatch \/ Wait \/ OpenFile \/ WriteBatch \/ WriterExit
-----------------------------------------------------------------------------
(* The environment *)

\* stop() sets the flag and does not signal.
Stop ==
    /\ ~stopFlag
    /\ stopFlag' = TRUE
    /\ UNCHANGED <<pc, loggerVars, asyncVars, writerVars, handed, raced, today,
                   restarts, histVars>>

Midnight ==
    /\ today < Days
    /\ today' = today + 1
    /\ UNCHANGED <<pc, loggerVars, handed, asyncVars, writerVars, stopFlag, raced,
                   restarts, logged, lost>>

\* The process dies, perhaps of a failed fopen and perhaps with a part of the
\* batch written, and is started again: only the files are left.
Restart ==
    /\ restarts < MaxRestarts
    /\ restarts' = restarts + 1
    /\ \/ UNCHANGED files
       \/ /\ pc[Writer] = "write"
          /\ \E k \in DOMAIN batch : files' = Appended(handler, SubSeq(batch, 1, k))
    /\ pc' = [t \in Threads |-> IF t = Writer THEN "lock" ELSE "idle"]
    /\ mutex' = FALSE /\ queueMutex' = FALSE
    /\ buffer' = <<>> /\ handed' = <<>> /\ queue' = <<>> /\ batch' = <<>>
    /\ date' = 0 /\ no' = 0 /\ handler' = NoFile
    /\ stopFlag' = FALSE /\ raced' = {} /\ again' = {}
    /\ UNCHANGED <<today, logged, lost, missed>>
-----------------------------------------------------------------------------
\* What a process that was started again may find: full files with old lines.
OldLine == [by |-> Writer, n |-> 0, life |-> 0]
OldFiles(k) == [f \in {1} \X (0..k) |-> [i \in 1..MaxFileSize |-> OldLine]]

Init ==
    /\ pc = [t \in Threads |-> IF t = Writer THEN "lock" ELSE "idle"]
    /\ mutex = FALSE /\ queueMutex = FALSE
    /\ buffer = <<>> /\ handed = <<>> /\ queue = <<>> /\ batch = <<>>
    /\ date = 0 /\ no = 0 /\ handler = NoFile
    /\ stopFlag = FALSE /\ raced = {} /\ again = {}
    /\ today = 1
    /\ \/ restarts = 0 /\ files = <<>>
       \/ /\ MaxRestarts # 0 /\ restarts = MaxRestarts
          /\ \E k \in 0..1 : files = OldFiles(k)
    /\ logged = [t \in Loggers |-> 0] /\ lost = {} /\ missed = FALSE

Logger(t) == Log(t) \/ PushLine(t) \/ LogExit(t)

Next ==
    \/ \E t \in Loggers : Logger(t)
    \/ Timer \/ Loop
    \/ SpuriousWakeup \/ Stop \/ Midnight \/ Restart

Spec == Init /\ [][Next]_vars

\* Threads are scheduled, a lock that is free again and again is got, and the
\* timer event is repeated.  Nobody has to log or to stop.
Fairness ==
    /\ \A t \in Loggers : WF_vars(PushLine(t) \/ LogExit(t))
    /\ WF_vars(Timer) /\ SF_vars(AsyncLoop) /\ SF_vars(HandOver)
    /\ WF_vars(Loop) /\ SF_vars(WriterLock)

FairSpec == Spec /\ Fairness
-----------------------------------------------------------------------------
(* Properties *)

\* Where each thread may be.
ControlOK ==
    /\ DOMAIN pc = Threads
    /\ \A t \in Loggers : pc[t] \in {"idle", "push", "exit"}
    /\ pc[TimerThread] \in {"idle", "swap", "lock", "push", "pushed", "exit"}
    /\ pc[Writer] \in {"lock", "check", "sleep", "wait", "wake", "open", "write", "exit",
                       "done"}

\* Every variable has its type.
TypeOK ==
    /\ ControlOK
    /\ mutex \in BOOLEAN /\ queueMutex \in BOOLEAN /\ stopFlag \in BOOLEAN
    /\ buffer \in Seq(Lines) /\ handed \in Seq(Lines) /\ batch \in Seq(Lines)
    /\ queue \in Seq(Seq(Lines) \ {<<>>})
    /\ date \in 0..Days /\ today \in 1..Days /\ no \in Nat
    /\ handler \in Files \cup {NoFile} /\ (pc[Writer] = "write" => handler # NoFile)
    /\ DOMAIN files \subseteq Files /\ (\A f \in DOMAIN files : files[f] \in Seq(Lines))
    /\ raced \subseteq Threads /\ again \subseteq Files
    /\ logged \in [Loggers -> 0..MaxLines] /\ restarts \in 0..MaxRestarts
    /\ lost \subseteq Lines /\ missed \in BOOLEAN

\* Where lines are in the files, and the order in which the files are read.
Places == UNION {{f} \X DOMAIN files[f] : f \in DOMAIN files}
At(p)  == files[p[1]][p[2]]
Before(p, q) ==
    \/ p[1][1] < q[1][1]
    \/ p[1][1] = q[1][1] /\ p[1][2] < q[1][2]
    \/ p[1] = q[1] /\ p[2] < q[2]

\* Each line is in the files at most once, and the lines that a thread logged
\* in one life of the process are in the order it logged them, from file to
\* file, through the buffer, the batches, the queue and every change of file.
LinesInOrder ==
    \A p, q \in Places :
        (/\ p # q /\ At(p).by = At(q).by /\ At(p).by \in Loggers /\ At(p).life = At(q).life
         /\ At(p).n <= At(q).n) => At(p).n # At(q).n /\ Before(p, q)

\* A full file gets one more batch at most in each life of the process, and
\* in the first one only the first file of a day does, which m_no++ opens twice.
FilesAreBounded ==
    [][\A f \in DOMAIN files : Full(f) /\ files'[f] # files[f] =>
          f \notin again /\ (restarts = 0 => f[2] = 0)]_vars

Written(t, n) == \E p \in Places : At(p).by = t /\ At(p).n = n
Lost(t, n)    == \E l \in lost : l.by = t /\ l.n = n

\* Every line that is pushed gets into a file, unless the mutexes' second
\* release loses it or makes the writer miss the signal of a queued batch, the
\* process dies or the writer is stopped, which drops what is queued.
LinesAreWritten ==
    \A t \in Loggers : \A n \in 1..MaxLines :
        (pc[t] = "exit" /\ logged[t] = n) ~>
            \/ Written(t, n) \/ Lost(t, n) \/ missed
            \/ restarts > 0 \/ stopFlag
=============================================================================
