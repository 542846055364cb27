------------------------- MODULE AsyncLoggerProofs -------------------------
(***************************************************************************)
(* Proofs about AsyncLogger, for any threads that log, any size of a file, *)
(* any number of days and restarts: the types, that every thread's lines   *)
(* are in the files in the order it logged them, and how far a file grows. *)
(***************************************************************************)
EXTENDS AsyncLogger, SequenceTheorems, TLAPS

\* What is on its way where nobody works on it.
LoggerPhases ==
    /\ handed # <<>> <=> pc[TimerThread] \in {"lock", "push"}
    /\ batch # <<>> => pc[Writer] \in {"open", "write"}

\* Orders of the lines of each thread: within a sequence, and between two.
InOrder(s) ==
    \A i, j \in 1..Len(s) : i < j /\ s[i].by = s[j].by => s[i].n < s[j].n
Precedes(s, u) ==
    \A i \in 1..Len(s), j \in 1..Len(u) : s[i].by = u[j].by => s[i].n < u[j].n

\* A line of this life that its thread has logged, and is not pushing.
Made(line) ==
    /\ line.n <= logged[line.by]
    /\ pc[line.by] = "push" => line.n < logged[line.by]

\* The lines that files hold were made, in this life or an earlier one.
FilesMade ==
    \A f \in DOMAIN files : \A i \in 1..Len(files[f]) :
        files[f][i].by \in Loggers =>
            /\ files[f][i].life <= restarts
            /\ files[f][i].life = restarts => Made(files[f][i])

\* The lines of s, which are on their way, were made in this life, are in
\* order, and come behind those that are written.
OnTheWay(s) ==
    /\ \A i \in 1..Len(s) : s[i].by \in Loggers /\ s[i].life = restarts /\ Made(s[i])
    /\ InOrder(s)
    /\ \A f \in DOMAIN files : \A i \in 1..Len(files[f]), j \in 1..Len(s) :
          files[f][i].by = s[j].by /\ files[f][i].life = restarts => files[f][i].n < s[j].n

\* From the writer's batch to the buffer, the lines on their way are in order.
Pipeline ==
    /\ OnTheWay(batch) /\ OnTheWay(handed) /\ OnTheWay(buffer)
    /\ \A k \in 1..Len(queue) :
          /\ OnTheWay(queue[k])
          /\ Precedes(batch, queue[k])
          /\ Precedes(queue[k], handed) /\ Precedes(queue[k], buffer)
    /\ \A k, l \in 1..Len(queue) : k < l => Precedes(queue[k], queue[l])
    /\ Precedes(batch, handed) /\ Precedes(batch, buffer) /\ Precedes(handed, buffer)

\* Files are read by date and number.
AtMost(f, g) == f[1] < g[1] \/ (f[1] = g[1] /\ f[2] <= g[2])
Earlier(f, i, g, j) ==
    f[1] < g[1] \/ (f[1] = g[1] /\ f[2] < g[2]) \/ (f = g /\ i < j)

\* What is earlier in the files was logged earlier.
Ordered(fs) ==
    \A f, g \in DOMAIN fs : \A i \in 1..Len(fs[f]), j \in 1..Len(fs[g]) :
        /\ Earlier(f, i, g, j)
        /\ fs[f][i].by \in Loggers /\ fs[f][i].by = fs[g][j].by
        /\ fs[f][i].life = fs[g][j].life
        => fs[f][i].n < fs[g][j].n

FilesInOrder == Ordered(files)

\* The number of the open file and m_no, which is behind it once a file was
\* changed or used again.
Numbers ==
    /\ date <= today
    /\ handler = NoFile => date = 0
    /\ handler # NoFile =>
          /\ handler[1] = date
          /\ no = handler[2] + 1 \/ (no = 0 /\ handler[2] = 0)

\* A file of this life: one with a line of it, or any in the first life.
OfThisLife(f) ==
    \/ restarts = 0
    \/ \E i \in 1..Len(files[f]) : files[f][i].by \in Loggers /\ files[f][i].life = restarts

\* The open file is the last of those this life has written; and when it is
\* full, this is the one time that it is written all the same.
OpenIsLast ==
    /\ \A f \in DOMAIN files : OfThisLife(f) => handler # NoFile /\ AtMost(f, handler)
    /\ \A f \in again : handler # NoFile /\ AtMost(f, handler)
    /\ handler \in again => no = handler[2] + 1
    /\ pc[Writer] = "write" /\ Full(handler) =>
          /\ handler \notin again /\ no = handler[2] + 1
          /\ restarts = 0 => handler[2] = 0

LoggerInv ==
    /\ TypeOK /\ LoggerPhases /\ FilesMade /\ Pipeline /\ FilesInOrder
    /\ Numbers /\ OpenIsLast

-----------------------------------------------------------------------------
(* Types.                                                                   *)

\* What each action does to the places of the threads.
LEMMA ControlKept ==
    ASSUME ControlOK, [Next]_vars
    PROVE  ControlOK'
<1> USE ConstantsAssumption DEF ControlOK, Threads, Goto
<1>1. ASSUME NEW t \in Loggers, Logger(t) PROVE ControlOK'
  BY <1>1 DEF Logger, Log, PushLine, LogExit
<1>2. CASE Timer
  <2>1. CASE AsyncLoop \/ SwapBuffer \/ HandOver
    BY <2>1 DEF AsyncLoop, SwapBuffer, HandOver, AfterSwap
  <2>2. CASE PushLogBuffer
    BY <2>2 DEF PushLogBuffer, Signal
  <2>3. CASE HandOverExit \/ AsyncLoopExit
    BY <2>3 DEF HandOverExit, AsyncLoopExit
  <2> QED
    BY <1>2, <2>1, <2>2, <2>3 DEF Timer
<1>3. CASE Loop
  BY <1>3 DEF Loop, WriterLock, TakeBatch, Wait, OpenFile, WriteBatch, WriterExit
<1>4. CASE SpuriousWakeup
  BY <1>4 DEF SpuriousWakeup
<1>5. CASE Stop \/ Midnight \/ UNCHANGED vars
  BY <1>5 DEF Stop, Midnight, vars
<1>6. CASE Restart
  BY <1>6 DEF Restart
<1> QED
  BY <1>1, <1>2, <1>3, <1>4, <1>5, <1>6 DEF Next

\* The flags and the data of TypeOK.
FlagsOK ==
    mutex \in BOOLEAN /\ queueMutex \in BOOLEAN /\ stopFlag \in BOOLEAN /\ missed \in BOOLEAN

DataOK ==
    /\ buffer \in Seq(Lines) /\ handed \in Seq(Lines) /\ batch \in Seq(Lines)
    /\ queue \in Seq(Seq(Lines) \ {<<>>})
    /\ date \in 0..Days /\ today \in 1..Days /\ no \in Nat
    /\ handler \in Files \cup {NoFile} /\ (pc[Writer] = "write" => handler # NoFile)
    /\ DOMAIN files \subseteq Files /\ (\A f \in DOMAIN files : files[f] \in Seq(Lines))
    /\ raced \subseteq Threads /\ again \subseteq Files
    /\ logged \in [Loggers -> 0..MaxLines] /\ restarts \in 0..MaxRestarts
    /\ lost \subseteq Lines

LEMMA TypeParts == TypeOK <=> ControlOK /\ FlagsOK /\ DataOK
<1> QED
  BY DEF TypeOK, FlagsOK, DataOK

LEMMA FlagsKept ==
    ASSUME FlagsOK, [Next]_vars
    PROVE  FlagsOK'
<1> USE DEF FlagsOK, loggerVars, asyncVars, worldVars, Lock!Construct, Lock!Unlock,
            Lock!Destruct, QLock!Construct, QLock!Unlock, QLock!Destruct
<1>1. ASSUME NEW t \in Loggers, Logger(t) PROVE FlagsOK'
  BY <1>1, Zenon DEF Logger, Log, PushLine, LogExit
<1>2. CASE Timer
  <2>1. CASE AsyncLoop \/ SwapBuffer \/ HandOver
    BY <2>1, Zenon DEF AsyncLoop, SwapBuffer, HandOver
  <2>2. CASE PushLogBuffer
    BY <2>2, Zenon DEF PushLogBuffer
  <2>3. CASE HandOverExit \/ AsyncLoopExit
    BY <2>3, Zenon DEF HandOverExit, AsyncLoopExit
  <2> QED
    BY <1>2, <2>1, <2>2, <2>3 DEF Timer
<1>3. CASE Loop
  <2>1. CASE WriterLock \/ TakeBatch \/ Wait
    BY <2>1, Zenon DEF WriterLock, TakeBatch, Wait
  <2>2. CASE OpenFile \/ WriteBatch \/ WriterExit
    BY <2>2, Zenon DEF OpenFile, WriteBatch, WriterExit
  <2> QED
    BY <1>3, <2>1, <2>2 DEF Loop
<1>4. CASE SpuriousWakeup \/ Stop \/ Midnight
  BY <1>4, Zenon DEF SpuriousWakeup, Stop, Midnight
<1>5. CASE Restart
  BY <1>5, Zenon DEF Restart
<1>6. CASE UNCHANGED vars
  BY <1>6, Zenon DEF vars
<1> QED
  BY <1>1, <1>2, <1>3, <1>4, <1>5, <1>6, Zenon DEF Next

\* The files with s written at the end of f.
LEMMA AppendedType ==
    ASSUME DataOK, NEW f \in Files, NEW s \in Seq(Lines)
    PROVE  /\ DOMAIN Appended(f, s) \subseteq Files
           /\ \A g \in DOMAIN Appended(f, s) : Appended(f, s)[g] \in Seq(Lines)
<1>1. Contents(f) \in Seq(Lines)
  BY DEF Contents, DataOK
<1>2. Contents(f) \o s \in Seq(Lines)
  BY ONLY <1>1, s \in Seq(Lines), ConcatProperties
<1> QED
  BY <1>2 DEF Appended, DataOK

LEMMA DataKept ==
    ASSUME ControlOK, DataOK, LoggerPhases, [Next]_vars
    PROVE  DataOK'
<1> USE DEF loggerVars, asyncVars, histVars, writerVars, worldVars, Threads, Goto
<1>1. ControlOK'
  BY ControlKept
<1>2. ASSUME NEW t \in Loggers, Logger(t) PROVE DataOK'
  <2>1. CASE Log(t)
    <3>1. raced' \subseteq Threads /\ logged' \in [Loggers -> 0..MaxLines]
      BY <2>1, ConstantsAssumption DEF Log, DataOK, Pushing
    <3>2. pc'[Writer] = pc[Writer]
      BY <2>1, ConstantsAssumption DEF Log
    <3> QED
      BY <2>1, <3>1, <3>2 DEF Log, DataOK
  <2>2. CASE PushLine(t)
    <3> DEFINE line == [by |-> t, n |-> logged[t], life |-> restarts]
    <3>1. line \in Lines
      BY ConstantsAssumption DEF DataOK, Lines
    <3>2. buffer' \in Seq(Lines) /\ lost' \subseteq Lines
      <4>1. buffer' = Append(buffer, line) \/ buffer' = buffer
        BY <2>2 DEF PushLine, Pushed
      <4>2. lost' = lost \/ lost' = lost \cup {line}
        BY <2>2 DEF PushLine
      <4>3. buffer \in Seq(Lines) /\ lost \subseteq Lines
        BY DEF DataOK
      <4>4. Append(buffer, line) \in Seq(Lines)
        BY ONLY <3>1, <4>3, AppendProperties
      <4> HIDE DEF line
      <4> QED
        BY ONLY <3>1, <4>1, <4>2, <4>3, <4>4
    <3>3. pc'[Writer] = pc[Writer]
      BY <2>2, ConstantsAssumption DEF PushLine
    <3> QED
      BY <2>2, <3>2, <3>3 DEF PushLine, DataOK
  <2>3. CASE LogExit(t)
    <3>1. pc'[Writer] = pc[Writer]
      BY <2>3, ConstantsAssumption DEF LogExit
    <3> QED
      BY <2>3, <3>1 DEF LogExit, DataOK
  <2> QED
    BY <1>2, <2>1, <2>2, <2>3 DEF Logger
<1>3. CASE Timer
  <2>1. CASE AsyncLoop
    BY <2>1, ConstantsAssumption DEF AsyncLoop, DataOK, Pushing
  <2>2. CASE SwapBuffer
    BY <2>2, ConstantsAssumption DEF SwapBuffer, DataOK
  <2>3. CASE HandOver
    BY <2>3, ConstantsAssumption DEF HandOver, DataOK
  <2>4. CASE PushLogBuffer
    <3>1. handed \in Seq(Lines) \ {<<>>} /\ Range(handed) \subseteq Lines
      BY <2>4 DEF PushLogBuffer, LoggerPhases, DataOK, Range
    <3>2. queue' \in Seq(Seq(Lines) \ {<<>>}) /\ lost' \subseteq Lines
      <4>1. queue' = Append(queue, handed) \/ queue' = queue
        BY <2>4 DEF PushLogBuffer
      <4>2. lost' = lost \/ lost' = lost \cup Range(handed)
        BY <2>4 DEF PushLogBuffer
      <4>3. queue \in Seq(Seq(Lines) \ {<<>>}) /\ lost \subseteq Lines
        BY DEF DataOK
      <4>4. Append(queue, handed) \in Seq(Seq(Lines) \ {<<>>})
        BY ONLY <3>1, <4>3, AppendProperties
      <4> QED
        BY ONLY <3>1, <4>1, <4>2, <4>3, <4>4
    <3>3. handed' \in Seq(Lines) /\ raced' \subseteq Threads
      BY <2>4 DEF PushLogBuffer, DataOK
    <3>4. pc'[Writer] = "write" => pc[Writer] = "write"
      BY <2>4, ConstantsAssumption DEF PushLogBuffer, Signal, ControlOK
    <3> QED
      BY <2>4, <3>2, <3>3, <3>4 DEF PushLogBuffer, DataOK
  <2>5. CASE HandOverExit
    BY <2>5, ConstantsAssumption DEF HandOverExit, DataOK
  <2>6. CASE AsyncLoopExit
    BY <2>6, ConstantsAssumption DEF AsyncLoopExit, DataOK
  <2> QED
    BY <1>3, <2>1, <2>2, <2>3, <2>4, <2>5, <2>6 DEF Timer
<1>4. CASE Loop
  <2>1. CASE WriterLock
    BY <2>1, <1>1 DEF WriterLock, DataOK, ControlOK
  <2>2. CASE TakeBatch
    <3>1. queue' \in Seq(Seq(Lines) \ {<<>>}) /\ batch' \in Seq(Lines)
      <4>1. queue # <<>> => Head(queue) \in Seq(Lines) \ {<<>>}
                            /\ Tail(queue) \in Seq(Seq(Lines) \ {<<>>})
        BY HeadTailProperties DEF DataOK
      <4> QED
        BY <2>2, <4>1 DEF TakeBatch, DataOK
    <3>2. handler' = handler /\ pc'[Writer] # "write"
      BY <2>2 DEF TakeBatch, ControlOK
    <3> QED
      BY <2>2, <3>1, <3>2 DEF TakeBatch, DataOK
  <2>3. CASE Wait
    BY <2>3 DEF Wait, DataOK, ControlOK
  <2>4. CASE OpenFile
    <3>1. handler' \in Files /\ date' \in 0..Days /\ no' \in Nat
      BY <2>4, ConstantsAssumption DEF OpenFile, DataOK, Files
    <3>2. handler' # NoFile
      BY <3>1, ConstantsAssumption DEF Files, NoFile
    <3> QED
      BY <2>4, <3>1, <3>2 DEF OpenFile, DataOK
  <2>5. CASE WriteBatch
    <3>1. handler \in Files /\ batch \in Seq(Lines)
      BY <2>5 DEF WriteBatch, DataOK
    <3>2. /\ DOMAIN files' \subseteq Files
          /\ \A g \in DOMAIN files' : files'[g] \in Seq(Lines)
      BY <2>5, <3>1, AppendedType DEF WriteBatch
    <3>3. again' \subseteq Files /\ batch' \in Seq(Lines) /\ pc'[Writer] # "write"
      BY <2>5, <3>1 DEF WriteBatch, DataOK, ControlOK
    <3> QED
      BY <2>5, <3>2, <3>3 DEF WriteBatch, DataOK
  <2>6. CASE WriterExit
    BY <2>6 DEF WriterExit, DataOK, ControlOK
  <2> QED
    BY <1>4, <2>1, <2>2, <2>3, <2>4, <2>5, <2>6 DEF Loop
<1>5. CASE SpuriousWakeup
  BY <1>5 DEF SpuriousWakeup, DataOK, ControlOK
<1>6. CASE Stop
  BY <1>6 DEF Stop, DataOK
<1>7. CASE Midnight
  BY <1>7, ConstantsAssumption DEF Midnight, DataOK
<1>8. CASE Restart
  <2>1. /\ DOMAIN files' \subseteq Files
        /\ \A g \in DOMAIN files' : files'[g] \in Seq(Lines)
    <3>1. CASE UNCHANGED files
      BY <3>1 DEF DataOK
    <3>2. ASSUME pc[Writer] = "write", NEW k \in DOMAIN batch,
                 files' = Appended(handler, SubSeq(batch, 1, k))
          PROVE  /\ DOMAIN files' \subseteq Files
                 /\ \A g \in DOMAIN files' : files'[g] \in Seq(Lines)
      <4>1. batch \in Seq(Lines) /\ k \in 1..Len(batch) /\ handler \in Files
        BY <3>2 DEF DataOK
      <4>2. SubSeq(batch, 1, k) \in Seq(Lines)
        BY <4>1, SubSeqProperties
      <4> QED
        BY <3>2, <4>1, <4>2, AppendedType
    <3> QED
      BY <1>8, <3>1, <3>2 DEF Restart
  <2>2. pc'[Writer] # "write"
    BY <1>8 DEF Restart
  <2>3. restarts' \in 0..MaxRestarts
    BY <1>8, ConstantsAssumption DEF Restart, DataOK
  <2>4. handler' \in Files \cup {NoFile} /\ date' \in 0..Days /\ no' \in Nat
    BY <1>8, ConstantsAssumption DEF Restart
  <2>5. /\ buffer' = <<>> /\ handed' = <<>> /\ batch' = <<>> /\ queue' = <<>>
        /\ raced' = {} /\ again' = {} /\ UNCHANGED <<today, logged, lost>>
    BY <1>8 DEF Restart
  <2> QED
    BY <2>1, <2>2, <2>3, <2>4, <2>5 DEF DataOK
<1>9. CASE UNCHANGED vars
  BY <1>9 DEF vars, DataOK
<1> QED
  BY <1>2, <1>3, <1>4, <1>5, <1>6, <1>7, <1>8, <1>9 DEF Next

\* A thread with a batch in its hands is where it handles it.
LEMMA PhasesKept ==
    ASSUME ControlOK, DataOK, LoggerPhases, [Next]_vars
    PROVE  LoggerPhases'
<1> USE ConstantsAssumption DEF LoggerPhases, ControlOK, Threads, Goto, loggerVars,
        asyncVars, histVars, writerVars, worldVars
<1>1. ASSUME NEW t \in Loggers, Logger(t) PROVE LoggerPhases'
  BY <1>1 DEF Logger, Log, PushLine, LogExit
<1>2. CASE Timer
  <2>1. CASE AsyncLoop \/ SwapBuffer \/ HandOver
    BY <2>1 DEF AsyncLoop, SwapBuffer, HandOver, AfterSwap
  <2>2. CASE PushLogBuffer
    BY <2>2 DEF PushLogBuffer, Signal
  <2>3. CASE HandOverExit \/ AsyncLoopExit
    BY <2>3 DEF HandOverExit, AsyncLoopExit
  <2> QED
    BY <1>2, <2>1, <2>2, <2>3 DEF Timer
<1>3. CASE Loop
  <2>1. CASE WriterLock \/ TakeBatch \/ Wait
    BY <2>1 DEF WriterLock, TakeBatch, Wait
  <2>2. CASE OpenFile \/ WriteBatch \/ WriterExit
    BY <2>2 DEF OpenFile, WriteBatch, WriterExit
  <2> QED
    BY <1>3, <2>1, <2>2 DEF Loop
<1>4. CASE SpuriousWakeup \/ Stop \/ Midnight
  BY <1>4 DEF SpuriousWakeup, Stop, Midnight
<1>5. CASE Restart
  BY <1>5 DEF Restart
<1>6. CASE UNCHANGED vars
  BY <1>6 DEF vars
<1> QED
  BY <1>1, <1>2, <1>3, <1>4, <1>5, <1>6 DEF Next

-----------------------------------------------------------------------------
(* The order of the lines.                                                  *)

LinesInv == FilesMade /\ Pipeline /\ FilesInOrder

\* What every sequence of lines holds.
LEMMA LineType ==
    ASSUME NEW s \in Seq(Lines), NEW i \in 1..Len(s)
    PROVE  s[i] \in Lines /\ s[i].by \in Threads /\ s[i].n \in Nat /\ s[i].life \in Nat
<1>1. s[i] \in Lines
  OBVIOUS
<1> QED
  BY <1>1 DEF Lines

\* A line that is made stays so.
MadeStays ==
    \A t \in Loggers, n \in Nat :
        n <= logged[t] /\ (pc[t] = "push" => n < logged[t]) =>
        n <= logged'[t] /\ (pc'[t] = "push" => n < logged'[t])

\* A step that writes nothing keeps the order of the lines, if what is on the
\* way then was on the way, and in order, before.
LEMMA Moved ==
    ASSUME DataOK, DataOK', LinesInv, MadeStays, UNCHANGED <<files, restarts>>,
           OnTheWay(batch') /\ OnTheWay(handed') /\ OnTheWay(buffer'),
           \A k \in 1..Len(queue') : OnTheWay(queue'[k]),
           \A k \in 1..Len(queue') :
              /\ Precedes(batch', queue'[k])
              /\ Precedes(queue'[k], handed') /\ Precedes(queue'[k], buffer'),
           \A k, l \in 1..Len(queue') : k < l => Precedes(queue'[k], queue'[l]),
           Precedes(batch', handed') /\ Precedes(batch', buffer')
              /\ Precedes(handed', buffer')
    PROVE  LinesInv'
<1>1. ASSUME NEW s \in Seq(Lines), OnTheWay(s)
      PROVE  \A i \in 1..Len(s) :
                s[i].by \in Loggers /\ s[i].life = restarts /\ Made(s[i])'
  <2>1. \A i \in 1..Len(s) : s[i].n \in Nat
    BY LineType
  <2> QED
    BY <1>1, <2>1 DEF OnTheWay, Made, MadeStays
<1>2. batch' \in Seq(Lines) /\ handed' \in Seq(Lines) /\ buffer' \in Seq(Lines)
      /\ \A k \in 1..Len(queue') : queue'[k] \in Seq(Lines)
  BY DEF DataOK
<1>3. OnTheWay(batch)'
  BY <1>1, <1>2 DEF OnTheWay, InOrder, Made
<1>4. OnTheWay(handed)'
  BY <1>1, <1>2 DEF OnTheWay, InOrder, Made
<1>5. OnTheWay(buffer)'
  BY <1>1, <1>2 DEF OnTheWay, InOrder, Made
<1>6. ASSUME NEW k \in 1..Len(queue') PROVE OnTheWay(queue[k])'
  BY <1>1, <1>2 DEF OnTheWay, InOrder, Made
<1>7. Pipeline'
  BY <1>3, <1>4, <1>5, <1>6 DEF Pipeline, Precedes
<1>8. FilesMade' /\ FilesInOrder'
  <2>1. \A f \in DOMAIN files : \A i \in 1..Len(files[f]) : files[f][i].n \in Nat
    BY LineType DEF DataOK
  <2> QED
    BY <2>1 DEF LinesInv, FilesMade, FilesInOrder, Made, MadeStays
<1> QED
  BY <1>7, <1>8 DEF LinesInv

LEMMA Unmoved ==
    ASSUME DataOK, DataOK', LinesInv, MadeStays,
           UNCHANGED <<files, batch, queue, handed, buffer, restarts>>
    PROVE  LinesInv'
<1>1. Pipeline
  BY DEF LinesInv
<1>2. /\ OnTheWay(batch') /\ OnTheWay(handed') /\ OnTheWay(buffer')
      /\ \A k \in 1..Len(queue') : OnTheWay(queue'[k])
  BY ONLY UNCHANGED <<batch, queue, handed, buffer>>, <1>1 DEF Pipeline
<1>3. /\ \A k \in 1..Len(queue') :
            /\ Precedes(batch', queue'[k])
            /\ Precedes(queue'[k], handed') /\ Precedes(queue'[k], buffer')
      /\ \A k, l \in 1..Len(queue') : k < l => Precedes(queue'[k], queue'[l])
      /\ Precedes(batch', handed') /\ Precedes(batch', buffer') /\ Precedes(handed', buffer')
  BY ONLY UNCHANGED <<batch, queue, handed, buffer>>, <1>1 DEF Pipeline
<1> QED
  BY <1>2, <1>3, Moved

\* A line that is pushed comes behind all that its thread has pushed.
LEMMA PushLineOrder ==
    ASSUME ControlOK, DataOK, DataOK', LinesInv, NEW t \in Loggers, PushLine(t)
    PROVE  LinesInv'
<1> DEFINE line == [by |-> t, n |-> logged[t], life |-> restarts]
<1>1. MadeStays
  BY DEF MadeStays, PushLine, Goto, ControlOK, Threads
<1>2. UNCHANGED <<files, batch, queue, handed, restarts>>
  BY DEF PushLine, asyncVars, writerVars, worldVars
<1>3. CASE UNCHANGED buffer
  BY <1>1, <1>2, <1>3, Unmoved
<1>4. CASE buffer' = Append(buffer, line)
  \* What holds of the step that does not push the line.
  <2>1. FilesMade' /\ FilesInOrder'
    <3>1. \A f \in DOMAIN files : \A i \in 1..Len(files[f]) : files[f][i].n \in Nat
      BY LineType DEF DataOK
    <3> QED
      BY <1>1, <1>2, <3>1 DEF LinesInv, FilesMade, FilesInOrder, Made, MadeStays
  <2>2. ASSUME NEW s \in Seq(Lines), OnTheWay(s)
        PROVE  \A i \in 1..Len(s) :
                  /\ s[i].by \in Loggers /\ s[i].life = restarts /\ Made(s[i])'
                  /\ s[i].by = t => s[i].n < line.n
    <3>1. \A i \in 1..Len(s) : s[i].n \in Nat
      BY LineType
    <3> QED
      BY <1>1, <2>2, <3>1 DEF OnTheWay, Made, MadeStays, PushLine
  <2>3. /\ batch \in Seq(Lines) /\ handed \in Seq(Lines) /\ buffer \in Seq(Lines)
        /\ \A k \in 1..Len(queue) : queue[k] \in Seq(Lines)
    BY DEF DataOK
  <2>4. OnTheWay(batch) /\ OnTheWay(handed) /\ OnTheWay(buffer)
    BY DEF LinesInv, Pipeline
  <2>5. OnTheWay(batch)'
    BY <1>2, <2>2, <2>3, <2>4, ZenonT(60) DEF OnTheWay, InOrder
  <2>6. OnTheWay(handed)'
    BY <1>2, <2>2, <2>3, <2>4, ZenonT(60) DEF OnTheWay, InOrder
  <2>7. ASSUME NEW k \in 1..Len(queue) PROVE OnTheWay(queue[k])'
    <3>1. OnTheWay(queue[k])
      BY DEF LinesInv, Pipeline
    <3> QED
      BY <1>2, <2>2, <2>3, <3>1, ZenonT(60) DEF OnTheWay, InOrder
  <2>8. /\ Len(buffer) \in Nat /\ Len(buffer') = Len(buffer) + 1
        /\ \A i \in 1..Len(buffer) : buffer'[i] = buffer[i]
        /\ buffer'[Len(buffer) + 1] = line
    BY <1>4, <2>3
  <2>9. \A i \in 1..Len(buffer') : i \in 1..Len(buffer) \/ i = Len(buffer) + 1
    BY <2>8
  <2>10. OnTheWay(buffer)'
    <3>1. ASSUME NEW i \in 1..Len(buffer')
          PROVE  /\ buffer'[i].by \in Loggers /\ buffer'[i].life = restarts
                 /\ buffer'[i].n <= logged'[buffer'[i].by]
                 /\ pc'[buffer'[i].by] = "push" => buffer'[i].n < logged'[buffer'[i].by]
      <4>1. CASE i \in 1..Len(buffer)
        <5>1. buffer[i].by \in Loggers /\ buffer[i].life = restarts /\ Made(buffer[i])
              /\ buffer[i].n \in Nat
          BY <2>3, <2>4, <4>1, LineType DEF OnTheWay
        <5> QED
          BY <1>1, <2>8, <4>1, <5>1 DEF Made, MadeStays
      <4>2. CASE i = Len(buffer) + 1
        <5>1. pc'[t] # "push" /\ logged'[t] = logged[t] /\ logged[t] \in Nat
          BY DEF PushLine, Goto, ControlOK, Threads, DataOK
        <5>2. buffer'[i] = line
          BY <2>8, <4>2
        <5> QED
          BY <5>1, <5>2
      <4> QED
        BY <2>9, <4>1, <4>2
    <3>2. InOrder(buffer')
      <4>1. InOrder(buffer)
        BY <2>4 DEF OnTheWay
      <4>2. \A i \in 1..Len(buffer) : buffer[i].by = t => buffer[i].n < line.n
        BY <2>2, <2>3, <2>4
      <4> QED
        BY <2>8, <2>9, <4>1, <4>2 DEF InOrder
    <3>3. \A f \in DOMAIN files : \A i \in 1..Len(files[f]) :
             files[f][i].by = t /\ files[f][i].life = restarts => files[f][i].n < line.n
      BY DEF LinesInv, FilesMade, Made, PushLine
    <3>4. \A f \in DOMAIN files : \A i \in 1..Len(files[f]), j \in 1..Len(buffer') :
             files[f][i].by = buffer'[j].by /\ files[f][i].life = restarts =>
             files[f][i].n < buffer'[j].n
      BY <2>4, <2>8, <2>9, <3>3 DEF OnTheWay
    <3> QED
      BY <1>2, <3>1, <3>2, <3>4 DEF OnTheWay, InOrder, Made
  <2>11. ASSUME NEW s \in Seq(Lines), OnTheWay(s), Precedes(s, buffer)
         PROVE  Precedes(s, buffer')
    BY <2>2, <2>8, <2>9, <2>11 DEF Precedes
  <2>12. /\ Precedes(batch, buffer') /\ Precedes(handed, buffer')
         /\ \A k \in 1..Len(queue) : Precedes(queue[k], buffer')
    BY <2>3, <2>4, <2>11 DEF LinesInv, Pipeline
  <2>13. Pipeline'
    BY <1>2, <2>5, <2>6, <2>7, <2>10, <2>12, SMTT(60) DEF LinesInv, Pipeline, Precedes
  <2> QED
    BY <2>1, <2>13 DEF LinesInv
<1> QED
  BY <1>3, <1>4 DEF PushLine, Pushed

\* The whole buffer is taken.
LEMMA SwapOrder ==
    ASSUME ControlOK, DataOK, DataOK', LinesInv, SwapBuffer
    PROVE  LinesInv'
<1>1. MadeStays
  BY ConstantsAssumption DEF MadeStays, SwapBuffer, Goto, ControlOK, Threads, histVars
<1>2. handed' = buffer /\ buffer' = <<>> /\ UNCHANGED <<files, batch, queue, restarts>>
  BY DEF SwapBuffer, asyncVars, writerVars, worldVars
<1>3. Pipeline
  BY DEF LinesInv
<1>4. OnTheWay(<<>>) /\ \A s : Precedes(s, <<>>)
  BY DEF OnTheWay, InOrder, Precedes
<1>5. /\ OnTheWay(batch') /\ OnTheWay(handed') /\ OnTheWay(buffer')
      /\ \A k \in 1..Len(queue') : OnTheWay(queue'[k])
  BY ONLY <1>2, <1>3, <1>4 DEF Pipeline
<1>6. /\ \A k \in 1..Len(queue') :
            /\ Precedes(batch', queue'[k])
            /\ Precedes(queue'[k], handed') /\ Precedes(queue'[k], buffer')
      /\ \A k, l \in 1..Len(queue') : k < l => Precedes(queue'[k], queue'[l])
      /\ Precedes(batch', handed') /\ Precedes(batch', buffer') /\ Precedes(handed', buffer')
  BY ONLY <1>2, <1>3, <1>4 DEF Pipeline
<1> QED
  BY <1>1, <1>2, <1>5, <1>6, Moved

\* A batch is queued behind all others, or lost.
LEMMA QueueOrder ==
    ASSUME ControlOK, DataOK, DataOK', LinesInv, PushLogBuffer
    PROVE  LinesInv'
<1>1. MadeStays
  BY ConstantsAssumption
     DEF MadeStays, PushLogBuffer, Signal, ControlOK, Threads
<1>2. handed' = <<>> /\ (queue' = Append(queue, handed) \/ queue' = queue)
      /\ UNCHANGED <<files, batch, buffer, restarts>>
  BY DEF PushLogBuffer, loggerVars, writerVars, worldVars
<1>3. Pipeline
  BY DEF LinesInv
<1>4. OnTheWay(<<>>) /\ \A s : Precedes(s, <<>>) /\ Precedes(<<>>, s)
  BY DEF OnTheWay, InOrder, Precedes
<1>5. Len(queue) \in Nat /\ queue \in Seq(Seq(Lines) \ {<<>>})
  BY DEF DataOK
<1>6. ASSUME NEW k \in 1..Len(queue')
      PROVE  \/ k \in 1..Len(queue) /\ queue'[k] = queue[k]
             \/ /\ k = Len(queue) + 1 /\ queue'[k] = handed
                /\ \A l \in 1..Len(queue) : l < k
  BY <1>2, <1>5
<1>7. /\ OnTheWay(batch') /\ OnTheWay(handed') /\ OnTheWay(buffer')
      /\ \A k \in 1..Len(queue') : OnTheWay(queue'[k])
  BY ONLY <1>2, <1>3, <1>4, <1>6 DEF Pipeline
<1>8. \A k \in 1..Len(queue') :
         /\ Precedes(batch', queue'[k])
         /\ Precedes(queue'[k], handed') /\ Precedes(queue'[k], buffer')
  BY ONLY <1>2, <1>3, <1>4, <1>6 DEF Pipeline
<1>9. ASSUME NEW k \in 1..Len(queue'), NEW l \in 1..Len(queue'), k < l
      PROVE  Precedes(queue'[k], queue'[l])
  <2>1. k \in 1..Len(queue) /\ queue'[k] = queue[k]
    BY <1>2, <1>5, <1>6, <1>9
  <2> QED
    BY ONLY <1>3, <1>6, <1>9, <2>1 DEF Pipeline
<1>10. Precedes(batch', handed') /\ Precedes(batch', buffer') /\ Precedes(handed', buffer')
  BY ONLY <1>2, <1>3, <1>4 DEF Pipeline
<1> QED
  BY <1>1, <1>2, <1>7, <1>8, <1>9, <1>10, Moved

\* The writer takes the first batch, if there is one.
LEMMA TakeOrder ==
    ASSUME ControlOK, DataOK, DataOK', LinesInv, TakeBatch
    PROVE  LinesInv'
<1>1. MadeStays
  BY ConstantsAssumption DEF MadeStays, TakeBatch, Goto, ControlOK, Threads, histVars
<1>2. UNCHANGED <<files, handed, buffer, restarts>>
  BY DEF TakeBatch, loggerVars, worldVars
<1>3. Pipeline
  BY DEF LinesInv
<1>4. CASE queue = <<>>
  BY <1>1, <1>2, <1>4, Unmoved DEF TakeBatch
<1>5. CASE queue # <<>>
  <2>1. batch' = Head(queue) /\ queue' = Tail(queue)
    BY <1>5 DEF TakeBatch
  <2>2. /\ batch' = queue[1] /\ 1 \in 1..Len(queue)
        /\ \A k \in 1..Len(queue') : k + 1 \in 1..Len(queue) /\ queue'[k] = queue[k + 1]
                                     /\ 1 < k + 1
        /\ \A k, l \in 1..Len(queue') : k < l => k + 1 < l + 1
    BY <1>5, <2>1 DEF DataOK
  <2>3. /\ OnTheWay(batch') /\ OnTheWay(handed') /\ OnTheWay(buffer')
        /\ \A k \in 1..Len(queue') : OnTheWay(queue'[k])
    BY ONLY <1>2, <1>3, <2>2 DEF Pipeline
  <2>4. \A k \in 1..Len(queue') :
           /\ Precedes(batch', queue'[k])
           /\ Precedes(queue'[k], handed') /\ Precedes(queue'[k], buffer')
    BY ONLY <1>2, <1>3, <2>2 DEF Pipeline
  <2>5. \A k, l \in 1..Len(queue') : k < l => Precedes(queue'[k], queue'[l])
    BY ONLY <1>3, <2>2 DEF Pipeline
  <2>6. Precedes(batch', handed') /\ Precedes(batch', buffer') /\ Precedes(handed', buffer')
    BY ONLY <1>2, <1>3, <2>2 DEF Pipeline
  <2> QED
    BY <1>1, <1>2, <2>3, <2>4, <2>5, <2>6, Moved
<1> QED
  BY <1>4, <1>5

\* A line of a file that was written to is an old one in its place, or one of
\* those written, behind all old ones.
LEMMA AppendedLines ==
    ASSUME DataOK, NEW f \in Files, NEW s \in Seq(Lines),
           NEW g \in DOMAIN Appended(f, s), NEW i \in 1..Len(Appended(f, s)[g])
    PROVE  \/ /\ g \in DOMAIN files /\ i \in 1..Len(files[g])
              /\ Appended(f, s)[g][i] = files[g][i]
              /\ g = f => i <= Len(Contents(f))
           \/ g = f /\ \E k \in 1..Len(s) :
                          i = Len(Contents(f)) + k /\ Appended(f, s)[g][i] = s[k]
<1>1. CASE g # f
  BY <1>1 DEF Appended
<1>2. CASE g = f
  <2> DEFINE c == Contents(f)
             w == c \o s
  <2>1. c \in Seq(Lines)
    BY DEF Contents, DataOK
  <2>2. Appended(f, s)[g] = w
    BY <1>2 DEF Appended
  <2>3. Len(c) \in Nat /\ Len(s) \in Nat /\ Len(w) = Len(c) + Len(s)
        /\ \A k \in 1..(Len(c) + Len(s)) :
              w[k] = IF k <= Len(c) THEN c[k] ELSE s[k - Len(c)]
    BY ONLY <2>1, s \in Seq(Lines), ConcatProperties, LenProperties
  <2> HIDE DEF w, c
  <2>4. i \in 1..(Len(c) + Len(s))
    BY <2>2, <2>3
  <2>5. CASE i <= Len(c)
    <3>1. w[i] = c[i] /\ i \in 1..Len(c)
      BY <2>3, <2>4, <2>5
    <3>2. f \in DOMAIN files /\ c = files[f]
      BY <3>1 DEF c, Contents
    <3> QED
      BY <1>2, <2>2, <2>5, <3>1, <3>2 DEF c
  <2>6. CASE ~ (i <= Len(c))
    <3>1. i - Len(c) \in 1..Len(s) /\ i = Len(c) + (i - Len(c)) /\ w[i] = s[i - Len(c)]
      BY <2>3, <2>4, <2>6
    <3> QED
      BY <1>2, <2>2, <3>1 DEF c
  <2> QED
    BY <2>5, <2>6
<1> QED
  BY <1>1, <1>2

\* Lines of the batch that are written to the open file come behind all those of
\* their threads, for it is the last file of this life.
LEMMA WriteOrder ==
    ASSUME DataOK, LinesInv, OpenIsLast, handler \in Files,
           NEW s \in Seq(Lines), Len(s) <= Len(batch), \A k \in 1..Len(s) : s[k] = batch[k]
    PROVE  /\ Ordered(Appended(handler, s))
           /\ \A f \in DOMAIN Appended(handler, s) :
                 \A i \in 1..Len(Appended(handler, s)[f]) :
                    Appended(handler, s)[f][i].by \in Loggers =>
                       /\ Appended(handler, s)[f][i].life <= restarts
                       /\ Appended(handler, s)[f][i].life = restarts =>
                             Made(Appended(handler, s)[f][i])
<1> DEFINE new == Appended(handler, s)
           Old(f, i) == f \in DOMAIN files /\ i \in 1..Len(files[f]) /\ new[f][i] = files[f][i]
                        /\ (f = handler => i <= Len(Contents(handler)))
           New(f, i, k) == f = handler /\ i = Len(Contents(handler)) + k /\ new[f][i] = batch[k]
<1>1. \A k \in 1..Len(s) : k \in 1..Len(batch)
  BY DEF DataOK
<1>2. ASSUME NEW f \in DOMAIN new, NEW i \in 1..Len(new[f])
      PROVE  Old(f, i) \/ \E k \in 1..Len(batch) : New(f, i, k)
  BY <1>1, AppendedLines
<1>3. Len(Contents(handler)) \in Nat /\ restarts \in Nat
  BY DEF Contents, DataOK
<1>4. OnTheWay(batch) /\ batch \in Seq(Lines)
  BY DEF LinesInv, Pipeline, DataOK
<1> HIDE DEF new
<1>5. ASSUME NEW f \in DOMAIN new, NEW i \in 1..Len(new[f]), new[f][i].by \in Loggers
      PROVE  new[f][i].life <= restarts /\ (new[f][i].life = restarts => Made(new[f][i]))
  <2>1. CASE Old(f, i)
    BY <1>5, <2>1 DEF LinesInv, FilesMade
  <2>2. CASE \E k \in 1..Len(batch) : New(f, i, k)
    BY <1>3, <1>4, <2>2 DEF OnTheWay
  <2> QED
    BY <1>2, <2>1, <2>2
<1>6. ASSUME NEW f \in DOMAIN new, NEW g \in DOMAIN new,
             NEW i \in 1..Len(new[f]), NEW j \in 1..Len(new[g]), Earlier(f, i, g, j),
             new[f][i].by \in Loggers, new[f][i].by = new[g][j].by,
             new[f][i].life = new[g][j].life
      PROVE  new[f][i].n < new[g][j].n
  <2>1. CASE Old(f, i) /\ Old(g, j)
    BY <1>6, <2>1 DEF LinesInv, FilesInOrder, Ordered
  <2>2. ASSUME Old(f, i), NEW l \in 1..Len(batch), New(g, j, l)
        PROVE  new[f][i].n < new[g][j].n
    BY <1>4, <1>6, <2>2 DEF OnTheWay
  <2>3. ASSUME Old(g, j), NEW k \in 1..Len(batch), New(f, i, k)
        PROVE  FALSE
    <3>1. files[g][j].by \in Loggers /\ files[g][j].life = restarts
      BY <1>4, <1>6, <2>3 DEF OnTheWay
    <3>2. AtMost(g, handler)
      BY <2>3, <3>1 DEF OpenIsLast, OfThisLife
    <3>3. g[1] \in Nat /\ g[2] \in Nat /\ handler[1] \in Nat /\ handler[2] \in Nat
      <4>1. g \in Files /\ handler \in Files
        BY <2>3 DEF DataOK
      <4> QED
        BY ONLY <4>1 DEF Files
    <3>4. f = handler /\ ~(i < j /\ f = g)
      <4>1. f = handler /\ i > Len(Contents(handler)) /\ (g = handler => j <= Len(Contents(handler)))
        BY <1>3, <2>3
      <4>2. i \in Nat /\ j \in Nat
        BY <1>3, <2>3
      <4> QED
        BY ONLY <1>3, <4>1, <4>2
    <3>5. f[1] < g[1] \/ (f[1] = g[1] /\ f[2] < g[2])
      BY <1>6, <3>4, Zenon DEF Earlier
    <3> QED
      BY ONLY <3>2, <3>3, <3>4, <3>5 DEF AtMost
  <2>4. ASSUME NEW k \in 1..Len(batch), New(f, i, k), NEW l \in 1..Len(batch), New(g, j, l)
        PROVE  new[f][i].n < new[g][j].n
    <3>1. handler[1] \in Nat /\ handler[2] \in Nat
      BY DEF Files
    <3>2. k < l
      BY <1>3, <1>6, <2>4, <3>1, SMTT(60) DEF Earlier
    <3> QED
      BY <1>4, <1>6, <2>4, <3>2 DEF OnTheWay, InOrder
  <2> QED
    BY <1>2, <2>1, <2>2, <2>3, <2>4
<1> QED
  BY <1>5, <1>6 DEF Ordered, new

LEMMA WriteBatchOrder ==
    ASSUME ControlOK, DataOK, DataOK', LinesInv, OpenIsLast, WriteBatch
    PROVE  LinesInv'
<1>1. /\ MadeStays /\ \A t \in Loggers : pc'[t] = pc[t] /\ logged'[t] = logged[t]
      /\ logged' = logged
  BY ConstantsAssumption DEF MadeStays, WriteBatch, Goto, ControlOK, Threads, histVars
<1>2. batch' = <<>> /\ files' = Appended(handler, batch)
      /\ UNCHANGED <<handed, buffer, queue, restarts>>
  BY DEF WriteBatch, loggerVars, asyncVars, worldVars
<1>3. handler \in Files /\ batch \in Seq(Lines) /\ Len(batch) \in Nat
  BY DEF WriteBatch, DataOK
<1>4. /\ Ordered(files')
      /\ \A f \in DOMAIN files' : \A i \in 1..Len(files'[f]) :
            files'[f][i].by \in Loggers =>
               /\ files'[f][i].life <= restarts
               /\ files'[f][i].life = restarts => Made(files'[f][i])
  BY <1>2, <1>3, WriteOrder
<1>5. FilesInOrder'
  BY <1>4 DEF FilesInOrder, Ordered, Earlier
<1>6. FilesMade'
  BY <1>1, <1>2, <1>4 DEF FilesMade, Made
<1>7. Pipeline
  BY DEF LinesInv
<1>8. ASSUME NEW s \in Seq(Lines), OnTheWay(s), Precedes(batch, s)
      PROVE  /\ \A i \in 1..Len(s) : s[i].by \in Loggers /\ s[i].life = restarts /\ Made(s[i])'
             /\ \A f \in DOMAIN files' : \A i \in 1..Len(files'[f]), j \in 1..Len(s) :
                   files'[f][i].by = s[j].by /\ files'[f][i].life = restarts =>
                   files'[f][i].n < s[j].n
  <2>1. ASSUME NEW f \in DOMAIN files', NEW i \in 1..Len(files'[f]), NEW j \in 1..Len(s),
               files'[f][i].by = s[j].by, files'[f][i].life = restarts
        PROVE  files'[f][i].n < s[j].n
    <3>1. \/ f \in DOMAIN files /\ i \in 1..Len(files[f]) /\ files'[f][i] = files[f][i]
          \/ \E k \in 1..Len(batch) : files'[f][i] = batch[k]
      BY <1>2, <1>3, AppendedLines
    <3> QED
      BY <1>8, <2>1, <3>1 DEF OnTheWay, Precedes
  <2>2. \A i \in 1..Len(s) : s[i].by \in Loggers /\ s[i].life = restarts /\ Made(s[i])'
    BY <1>1, <1>8 DEF OnTheWay, Made
  <2> QED
    BY <2>1, <2>2
<1>9. /\ handed \in Seq(Lines) /\ buffer \in Seq(Lines)
      /\ \A k \in 1..Len(queue) : queue[k] \in Seq(Lines)
  BY DEF DataOK
<1>10. OnTheWay(batch)'
  BY <1>2 DEF OnTheWay, InOrder
<1>11. OnTheWay(handed)'
  BY <1>2, <1>7, <1>8, <1>9, ZenonT(60) DEF Pipeline, OnTheWay, InOrder, Made
<1>12. OnTheWay(buffer)'
  BY <1>2, <1>7, <1>8, <1>9, ZenonT(60) DEF Pipeline, OnTheWay, InOrder, Made
<1>13. ASSUME NEW k \in 1..Len(queue) PROVE OnTheWay(queue[k])'
  <2>1. OnTheWay(queue[k]) /\ Precedes(batch, queue[k]) /\ queue'[k] = queue[k]
    BY <1>2, <1>7 DEF Pipeline
  <2>2. /\ \A i \in 1..Len(queue[k]) :
              queue[k][i].by \in Loggers /\ queue[k][i].life = restarts
        /\ \A i \in 1..Len(queue[k]) : Made(queue[k][i])'
        /\ \A f \in DOMAIN files' : \A i \in 1..Len(files'[f]), j \in 1..Len(queue[k]) :
              files'[f][i].by = queue[k][j].by /\ files'[f][i].life = restarts =>
              files'[f][i].n < queue[k][j].n
    BY <1>8, <1>9, <2>1
  <2> QED
    BY <1>2, <2>1, <2>2 DEF OnTheWay, InOrder, Made
<1>14. Pipeline'
  <2>1. \A s : Precedes(<<>>, s)
    BY DEF Precedes
  <2> QED
    BY <1>2, <1>7, <1>10, <1>11, <1>12, <1>13, <2>1 DEF Pipeline, Precedes
<1> QED
  BY <1>5, <1>6, <1>14 DEF LinesInv

\* What a restart leaves: files in order, with lines of this life at most.
LEMMA RestartLeaves ==
    ASSUME DataOK, LinesInv, OpenIsLast, Restart
    PROVE  /\ Ordered(files')
           /\ \A f \in DOMAIN files' : \A i \in 1..Len(files'[f]) :
                 files'[f][i].by \in Loggers => files'[f][i].life <= restarts
<1>1. CASE UNCHANGED files
  BY <1>1 DEF LinesInv, FilesInOrder, FilesMade
<1>2. ASSUME pc[Writer] = "write", NEW k \in DOMAIN batch,
             files' = Appended(handler, SubSeq(batch, 1, k))
      PROVE  /\ Ordered(files')
             /\ \A f \in DOMAIN files' : \A i \in 1..Len(files'[f]) :
                   files'[f][i].by \in Loggers => files'[f][i].life <= restarts
  <2> DEFINE s == SubSeq(batch, 1, k)
  <2>1. handler \in Files /\ batch \in Seq(Lines) /\ k \in 1..Len(batch) /\ Len(batch) \in Nat
    BY <1>2 DEF DataOK
  <2>2. s \in Seq(Lines) /\ Len(s) = k /\ \A l \in 1..k : s[l] = batch[l]
    BY <2>1
  <2>3. Len(s) <= Len(batch)
    BY <2>1, <2>2
  <2> HIDE DEF s
  <2> QED
    BY <1>2, <2>1, <2>2, <2>3, WriteOrder, ZenonT(60) DEF s
<1> QED
  BY <1>1, <1>2 DEF Restart

\* After a restart the lines in the files are those of earlier lives.
LEMMA RestartOrder ==
    ASSUME ControlOK, DataOK, DataOK', LinesInv, OpenIsLast, Restart
    PROVE  LinesInv'
<1>1. batch' = <<>> /\ handed' = <<>> /\ buffer' = <<>> /\ queue' = <<>>
      /\ restarts' = restarts + 1 /\ restarts \in Nat
  BY DEF Restart, DataOK
<1>2. Pipeline'
  BY <1>1 DEF Pipeline, OnTheWay, InOrder, Precedes
<1>3. /\ Ordered(files')
      /\ \A f \in DOMAIN files' : \A i \in 1..Len(files'[f]) :
            files'[f][i].by \in Loggers => files'[f][i].life <= restarts
  BY RestartLeaves
<1>4. FilesMade'
  <2>1. \A f \in DOMAIN files' : \A i \in 1..Len(files'[f]) : files'[f][i].life \in Nat
    BY LineType DEF DataOK
  <2> QED
    BY <1>1, <1>3, <2>1 DEF FilesMade
<1>5. FilesInOrder'
  BY <1>3 DEF FilesInOrder, Ordered, Earlier
<1> QED
  BY <1>2, <1>4, <1>5 DEF LinesInv

\* The order is kept by every step.
LEMMA LinesKept ==
    ASSUME ControlOK, DataOK, DataOK', LinesInv, OpenIsLast, [Next]_vars
    PROVE  LinesInv'
<1> USE ConstantsAssumption DEF ControlOK, Threads, Goto, loggerVars, asyncVars, histVars,
        writerVars, worldVars
<1>1. ASSUME NEW t \in Loggers, Logger(t) PROVE LinesInv'
  <2>1. CASE Log(t)
    <3>1. MadeStays
      BY <2>1 DEF MadeStays, Log, DataOK
    <3> QED
      BY <2>1, <3>1, Unmoved DEF Log
  <2>2. CASE LogExit(t)
    <3>1. MadeStays
      BY <2>2 DEF MadeStays, LogExit
    <3> QED
      BY <2>2, <3>1, Unmoved DEF LogExit
  <2> QED
    BY <1>1, <2>1, <2>2, PushLineOrder DEF Logger
<1>2. CASE Timer
  <2>1. CASE AsyncLoop \/ HandOver \/ HandOverExit \/ AsyncLoopExit
    <3>1. MadeStays
      BY <2>1 DEF MadeStays, AsyncLoop, HandOver, HandOverExit, AsyncLoopExit
    <3>2. UNCHANGED <<files, batch, queue, handed, buffer, restarts>>
      BY <2>1 DEF AsyncLoop, HandOver, HandOverExit, AsyncLoopExit
    <3> QED
      BY <3>1, <3>2, Unmoved
  <2> QED
    BY <1>2, <2>1, SwapOrder, QueueOrder DEF Timer
<1>3. CASE Loop
  <2>1. CASE WriterLock \/ Wait \/ OpenFile \/ WriterExit
    <3>1. MadeStays
      BY <2>1 DEF MadeStays, WriterLock, Wait, OpenFile, WriterExit
    <3>2. UNCHANGED <<files, batch, queue, handed, buffer, restarts>>
      BY <2>1 DEF WriterLock, Wait, OpenFile, WriterExit
    <3> QED
      BY <3>1, <3>2, Unmoved
  <2> QED
    BY <1>3, <2>1, TakeOrder, WriteBatchOrder DEF Loop
<1>4. CASE SpuriousWakeup \/ Stop \/ Midnight \/ UNCHANGED vars
  <2>1. MadeStays
    BY <1>4 DEF MadeStays, SpuriousWakeup, Stop, Midnight, vars
  <2>2. UNCHANGED <<files, batch, queue, handed, buffer, restarts>>
    BY <1>4 DEF SpuriousWakeup, Stop, Midnight, vars
  <2> QED
    BY <2>1, <2>2, Unmoved
<1> QED
  BY <1>1, <1>2, <1>3, <1>4, RestartOrder DEF Next

-----------------------------------------------------------------------------
(* The open file.                                                           *)

FileInv == Numbers /\ OpenIsLast

\* A step that neither opens nor writes a file keeps what holds of them.
LEMMA FilesAlone ==
    ASSUME DataOK, DataOK', FileInv,
           UNCHANGED <<files, handler, date, no, again, restarts>>, today <= today',
           pc'[Writer] = "write" => pc[Writer] = "write"
    PROVE  FileInv'
<1>1. Numbers'
  <2>1. today \in Nat /\ today' \in Nat /\ date \in Nat
    BY ConstantsAssumption DEF DataOK
  <2> QED
    BY <2>1 DEF FileInv, Numbers
<1>2. OpenIsLast'
  BY DEF FileInv, OpenIsLast, OfThisLife, AtMost, Full, Contents
<1> QED
  BY <1>1, <1>2 DEF FileInv

\* What is to be shown of the file that is opened.
LEMMA OpenedIsLast ==
    ASSUME UNCHANGED <<files, again, restarts>>, handler' # NoFile, Numbers',
           \A f \in DOMAIN files : OfThisLife(f) => AtMost(f, handler'),
           \A f \in again : AtMost(f, handler'),
           handler' \in again => no' = handler'[2] + 1,
           AtSize(handler') =>
              /\ handler' \notin again /\ no' = handler'[2] + 1
              /\ restarts = 0 => handler'[2] = 0
    PROVE  FileInv'
<1>1. \A f \in DOMAIN files' : OfThisLife(f)' => handler' # NoFile /\ AtMost(f, handler')
  BY DEF OfThisLife
<1>2. Full(handler)' <=> AtSize(handler')
  BY DEF Full, AtSize, Contents
<1> QED
  BY <1>1, <1>2 DEF FileInv, OpenIsLast, AtMost

\* The file that is opened is no earlier than the last one, and new unless it
\* was there before this life or is the first of its day.
LEMMA OpenFileKeeps ==
    ASSUME ControlOK, DataOK, DataOK', FileInv, OpenFile
    PROVE  FileInv'
<1>1. /\ no \in Nat /\ date \in Nat /\ today \in 1..Days /\ today # 0 /\ date <= today
      /\ handler \in Files \cup {NoFile} /\ MaxFileSize \in Nat \ {0} /\ Days \in Nat
      /\ handler' \in Files /\ handler' # NoFile /\ no' \in Nat
      /\ UNCHANGED <<files, again, restarts, today>> /\ date' = today
  <2>1. UNCHANGED <<files, again, restarts, today>> /\ date' = today
    BY DEF OpenFile, worldVars
  <2>2. handler' # NoFile
    BY ConstantsAssumption DEF OpenFile, Goto, ControlOK, Threads, DataOK
  <2> QED
    BY <2>1, <2>2, ConstantsAssumption DEF DataOK, FileInv, Numbers
<1>2. \A f \in Files : f = <<f[1], f[2]>> /\ f[1] \in 1..Days /\ f[2] \in Nat
  BY DEF Files
<1>3. CASE date = today
  <2>1. handler # NoFile /\ handler[1] = today
        /\ (no = handler[2] + 1 \/ (no = 0 /\ handler[2] = 0))
    BY <1>1, <1>3 DEF FileInv, Numbers
  <2>2. \/ AtSize(handler) /\ handler' = <<today, no>> /\ no' = no + 1
        \/ ~AtSize(handler) /\ handler' = handler /\ no' = no
    BY <1>3, <2>1 DEF OpenFile
  <2>3. handler'[1] = today /\ handler[2] <= handler'[2]
        /\ (no' = handler'[2] + 1 \/ (no' = 0 /\ handler'[2] = 0))
    BY <1>1, <1>2, <2>1, <2>2
  <2>4. Numbers'
    BY ONLY <1>1, <2>3 DEF Numbers
  <2>5. \A f \in Files : AtMost(f, handler) => AtMost(f, handler')
    BY <1>1, <1>2, <2>1, <2>3 DEF AtMost
  <2>6. /\ \A f \in DOMAIN files : OfThisLife(f) => AtMost(f, handler')
        /\ \A f \in again : AtMost(f, handler')
    BY <2>5 DEF FileInv, OpenIsLast, DataOK
  <2>7. handler' \in again => no' = handler'[2] + 1
    <3>1. CASE handler' = <<today, no>> /\ no' = no + 1
      BY <3>1
    <3>2. CASE handler' = handler /\ no' = no
      BY <3>2 DEF FileInv, OpenIsLast
    <3> QED
      BY <2>2, <3>1, <3>2
  <2>8. ASSUME AtSize(handler') PROVE
           /\ handler' \notin again /\ no' = handler'[2] + 1
           /\ restarts = 0 => handler'[2] = 0
    <3>1. handler' = <<today, no>> /\ no' = no + 1 /\ AtSize(handler)
      BY <2>2, <2>8
    <3>2. CASE no = 0 /\ handler[2] = 0
      <4>1. handler' = handler
        BY <1>1, <1>2, <2>1, <3>1, <3>2
      <4>2. handler \notin again
        BY <3>2 DEF FileInv, OpenIsLast
      <4> QED
        BY <3>1, <3>2, <4>1, <4>2
    <3>3. CASE no = handler[2] + 1
      <4>1. ~ AtMost(handler', handler)
        BY <1>1, <1>2, <2>1, <3>1, <3>3 DEF AtMost
      <4>2. handler' \notin again
        BY <4>1 DEF FileInv, OpenIsLast
      <4>3. ASSUME restarts = 0 PROVE FALSE
        <5>1. handler' \notin DOMAIN files
          BY <4>1, <4>3 DEF FileInv, OpenIsLast, OfThisLife
        <5> QED
          BY <1>1, <2>8, <5>1 DEF AtSize, Contents
      <4> QED
        BY <3>1, <4>2, <4>3
    <3> QED
      BY <2>1, <3>2, <3>3
  <2> QED
    BY <1>1, <2>4, <2>6, <2>7, <2>8, OpenedIsLast
<1>4. CASE date # today
  <2>1. \/ AtSize(<<today, 0>>) /\ handler' = <<today, 0>> /\ no' = 1
        \/ ~AtSize(<<today, 0>>) /\ handler' = <<today, 0>> /\ no' = 0
    BY <1>4 DEF OpenFile
  <2>2. handler' = <<today, 0>> /\ handler'[1] = today /\ handler'[2] = 0
    BY <2>1
  <2>3. Numbers'
    BY ONLY <1>1, <2>1, <2>2 DEF Numbers
  <2>4. ASSUME NEW f \in Files, handler # NoFile, AtMost(f, handler)
        PROVE  AtMost(f, handler') /\ f # handler'
    <3>1. handler[1] = date /\ date < today
      BY <1>1, <1>4, <2>4 DEF FileInv, Numbers
    <3>2. f[1] <= date /\ f[1] \in Nat
      BY <1>1, <1>2, <2>4, <3>1 DEF AtMost
    <3> QED
      BY <1>1, <2>2, <3>1, <3>2 DEF AtMost
  <2>5. /\ \A f \in DOMAIN files : OfThisLife(f) => AtMost(f, handler') /\ f # handler'
        /\ \A f \in again : AtMost(f, handler') /\ f # handler'
    BY <2>4 DEF FileInv, OpenIsLast, DataOK
  <2>6. handler' \notin again
    BY <2>5
  <2>7. AtSize(handler') => no' = handler'[2] + 1
    BY <2>1, <2>2
  <2> QED
    BY <1>1, <2>2, <2>3, <2>5, <2>6, <2>7, OpenedIsLast
<1> QED
  BY <1>3, <1>4

LEMMA WriteBatchFile ==
    ASSUME ControlOK, DataOK, DataOK', FileInv, WriteBatch
    PROVE  FileInv'
<1>1. /\ pc[Writer] = "write" /\ handler \in Files /\ handler # NoFile
      /\ files' = Appended(handler, batch)
      /\ again' = again \cup {f \in {handler} : Full(f)}
      /\ UNCHANGED <<handler, date, no, today, restarts>>
  BY DEF WriteBatch, DataOK, worldVars
<1>2. pc'[Writer] # "write"
  BY DEF WriteBatch, Goto, ControlOK, Threads
<1>3. Numbers'
  BY <1>1 DEF FileInv, Numbers
<1>4. handler[1] \in Nat /\ handler[2] \in Nat
  BY ONLY <1>1 DEF Files
<1>5. AtMost(handler, handler)
  BY <1>4 DEF AtMost
<1>6. ASSUME NEW f \in DOMAIN files', OfThisLife(f)'
      PROVE  AtMost(f, handler)
  <2>1. CASE f = handler
    BY <1>5, <2>1
  <2>2. CASE f # handler
    <3>1. f \in DOMAIN files /\ files'[f] = files[f]
      BY <1>1, <2>2 DEF Appended
    <3>2. OfThisLife(f)
      BY <1>1, <1>6, <3>1 DEF OfThisLife
    <3> QED
      BY <3>1, <3>2 DEF FileInv, OpenIsLast
  <2> QED
    BY <2>1, <2>2
<1>7. \A f \in again' : AtMost(f, handler)
  BY <1>1, <1>5 DEF FileInv, OpenIsLast
<1>8. handler \in again' => no = handler[2] + 1
  BY <1>1 DEF FileInv, OpenIsLast
<1>9. OpenIsLast'
  BY <1>1, <1>2, <1>6, <1>7, <1>8 DEF OpenIsLast, AtMost
<1> QED
  BY <1>3, <1>9 DEF FileInv

\* A new life has opened and written nothing.
LEMMA RestartFile ==
    ASSUME ControlOK, DataOK, DataOK', LinesInv, FileInv, Restart
    PROVE  FileInv'
<1>1. /\ handler' = NoFile /\ date' = 0 /\ no' = 0 /\ again' = {}
      /\ restarts' = restarts + 1 /\ restarts \in Nat /\ today' \in 1..Days
  BY DEF Restart, DataOK
<1>2. pc'[Writer] # "write"
  BY DEF Restart, Threads
<1>3. Numbers'
  BY <1>1, ConstantsAssumption DEF Numbers
<1>4. \A f \in DOMAIN files' : \A i \in 1..Len(files'[f]) :
         files'[f][i].by \in Loggers => files'[f][i].life <= restarts
  BY RestartLeaves DEF FileInv
<1>5. \A f \in DOMAIN files' : ~ OfThisLife(f)'
  BY <1>1, <1>4 DEF OfThisLife
<1> QED
  BY <1>1, <1>2, <1>3, <1>5 DEF FileInv, OpenIsLast

LEMMA FilesKept ==
    ASSUME ControlOK, DataOK, DataOK', LinesInv, FileInv, [Next]_vars
    PROVE  FileInv'
<1> USE ConstantsAssumption DEF ControlOK, Threads, Goto, loggerVars, asyncVars, histVars,
        writerVars, worldVars
<1>1. ASSUME UNCHANGED <<files, handler, date, no, again, restarts, today>>,
             pc'[Writer] = "write" => pc[Writer] = "write"
      PROVE  FileInv'
  BY <1>1, FilesAlone DEF DataOK
<1>2. ASSUME NEW t \in Loggers, Logger(t) PROVE FileInv'
  BY <1>1, <1>2 DEF Logger, Log, PushLine, LogExit
<1>3. CASE Timer
  <2>1. CASE AsyncLoop \/ SwapBuffer \/ HandOver
    BY <1>1, <2>1 DEF AsyncLoop, SwapBuffer, HandOver
  <2>2. CASE PushLogBuffer
    BY <1>1, <2>2 DEF PushLogBuffer, Signal
  <2>3. CASE HandOverExit \/ AsyncLoopExit
    BY <1>1, <2>3 DEF HandOverExit, AsyncLoopExit
  <2> QED
    BY <1>3, <2>1, <2>2, <2>3 DEF Timer
<1>4. CASE Loop
  <2>1. CASE WriterLock \/ TakeBatch \/ Wait \/ WriterExit
    BY <1>1, <2>1 DEF WriterLock, TakeBatch, Wait, WriterExit
  <2> QED
    BY <1>4, <2>1, OpenFileKeeps, WriteBatchFile DEF Loop
<1>5. CASE SpuriousWakeup \/ Stop \/ UNCHANGED vars
  BY <1>1, <1>5 DEF SpuriousWakeup, Stop, vars
<1>6. CASE Midnight
  <2>1. today <= today'
    BY <1>6 DEF Midnight, DataOK
  <2>2. UNCHANGED <<pc, files, handler, date, no, again, restarts>>
    BY <1>6 DEF Midnight
  <2> QED
    BY <2>1, <2>2, FilesAlone
<1> QED
  BY <1>2, <1>3, <1>4, <1>5, <1>6, RestartFile DEF Next

-----------------------------------------------------------------------------
(* The invariant and the theorems.                                          *)

LEMMA LoggerInit == Init => LoggerInv
<1> SUFFICES ASSUME Init PROVE LoggerInv
  OBVIOUS
<1> USE ConstantsAssumption DEF Init, Threads
<1>1. ControlOK
  BY DEF ControlOK
<1>2. FlagsOK
  BY DEF FlagsOK
<1>3. OldLine \in Lines /\ OldLine.by \notin Loggers
  BY DEF OldLine, Lines
<1>4. /\ DOMAIN files \subseteq Files
      /\ \A f \in DOMAIN files :
            files[f] \in Seq(Lines) /\ \A i \in 1..Len(files[f]) : files[f][i] = OldLine
      /\ restarts \in 0..MaxRestarts /\ (restarts = 0 => DOMAIN files = {})
  <2>1. CASE restarts = 0 /\ files = <<>>
    BY <2>1
  <2>2. ASSUME MaxRestarts # 0, restarts = MaxRestarts,
               NEW k \in 0..1, files = OldFiles(k)
        PROVE  /\ DOMAIN files \subseteq Files
               /\ \A f \in DOMAIN files :
                     files[f] \in Seq(Lines)
                     /\ \A i \in 1..Len(files[f]) : files[f][i] = OldLine
               /\ restarts \in 0..MaxRestarts /\ (restarts = 0 => DOMAIN files = {})
    <3>1. \A f \in {1} \X (0..k) : f \in Files
      BY DEF Files
    <3>2. DOMAIN files = {1} \X (0..k)
          /\ \A f \in DOMAIN files : files[f] = [i \in 1..MaxFileSize |-> OldLine]
      BY <2>2 DEF OldFiles
    <3>3. [i \in 1..MaxFileSize |-> OldLine] \in Seq(Lines)
          /\ Len([i \in 1..MaxFileSize |-> OldLine]) = MaxFileSize
      BY <1>3
    <3> QED
      BY <2>2, <3>1, <3>2, <3>3
  <2> QED
    BY <2>1, <2>2
<1>5. DataOK
  <2>1. pc[Writer] # "write"
    OBVIOUS
  <2>2. logged \in [Loggers -> 0..MaxLines] /\ today \in 1..Days /\ date \in 0..Days
    OBVIOUS
  <2> QED
    BY <1>4, <2>1, <2>2 DEF DataOK
<1>6. LoggerPhases
  BY DEF LoggerPhases
<1>7. FilesMade /\ FilesInOrder
  BY <1>3, <1>4 DEF FilesMade, FilesInOrder, Ordered
<1>8. Pipeline
  BY DEF Pipeline, OnTheWay, InOrder, Precedes
<1>9. Numbers
  BY DEF Numbers
<1>10. OpenIsLast
  <2>1. \A f \in DOMAIN files : ~ OfThisLife(f)
    BY <1>3, <1>4 DEF OfThisLife
  <2> QED
    BY <2>1 DEF OpenIsLast
<1> QED
  BY <1>1, <1>2, <1>5, <1>6, <1>7, <1>8, <1>9, <1>10, TypeParts DEF LoggerInv

LEMMA LoggerStep == LoggerInv /\ [Next]_vars => LoggerInv'
<1> SUFFICES ASSUME LoggerInv, [Next]_vars PROVE LoggerInv'
  OBVIOUS
<1>1. /\ ControlOK /\ FlagsOK /\ DataOK /\ LoggerPhases /\ LinesInv /\ FileInv /\ OpenIsLast
  BY TypeParts DEF LoggerInv, LinesInv, FileInv
<1>2. ControlOK' /\ FlagsOK' /\ DataOK' /\ LoggerPhases'
  BY <1>1, ControlKept, FlagsKept, DataKept, PhasesKept
<1>3. TypeOK'
  BY <1>2 DEF TypeOK, FlagsOK, DataOK
<1>4. LinesInv' /\ FileInv'
  BY <1>1, <1>2, LinesKept, FilesKept
<1> QED
  BY <1>2, <1>3, <1>4 DEF LoggerInv, LinesInv, FileInv

LEMMA LoggerInvariant == Spec => []LoggerInv
<1> QED
  BY LoggerInit, LoggerStep, PTL DEF Spec

\* Every variable has its type: no empty batch is queued and the writer has a
\* file open whenever it writes; for any number of threads, days and restarts.
THEOREM LoggerTypeCorrect == Spec => []TypeOK
<1>1. LoggerInv => TypeOK
  BY DEF LoggerInv
<1> QED
  BY <1>1, LoggerInvariant, PTL

\* Each line is in the files at most once, and the lines that a thread logged in
\* one life are in the order it logged them: through the buffer, the batches and
\* the queue, though the mutexes of both are released twice (log.cc:43-51, 74-95,
\* 134-153, 211-219), and through every change of file, by size or at midnight
\* (log.cc:155-201).
THEOREM LinesStayInOrder == Spec => []LinesInOrder
<1>1. LoggerInv => LinesInOrder
  <2> SUFFICES ASSUME LoggerInv, NEW p \in Places, NEW q \in Places,
                      p # q, At(p).by = At(q).by, At(p).by \in Loggers,
                      At(p).life = At(q).life, At(p).n <= At(q).n
               PROVE  At(p).n # At(q).n /\ Before(p, q)
    BY DEF LinesInOrder
  <2>1. DataOK /\ Ordered(files)
    BY TypeParts DEF LoggerInv, FilesInOrder
  <2>2. ASSUME NEW r \in Places
        PROVE  /\ r = <<r[1], r[2]>> /\ r[1] \in DOMAIN files /\ r[1] \in Files
               /\ r[2] \in 1..Len(files[r[1]]) /\ At(r).n \in Nat /\ r[2] \in Nat
    <3>1. PICK f \in DOMAIN files : r \in {f} \X DOMAIN files[f]
      BY <2>2 DEF Places
    <3>2. f \in Files /\ files[f] \in Seq(Lines) /\ DOMAIN files[f] = 1..Len(files[f])
      BY <2>1 DEF DataOK
    <3>3. r = <<r[1], r[2]>> /\ r[1] = f /\ r[2] \in 1..Len(files[f])
      BY <3>1, <3>2
    <3>4. files[f][r[2]].n \in Nat
      BY ONLY <3>2, <3>3, LineType
    <3> QED
      BY <3>1, <3>2, <3>3, <3>4 DEF At
  <2>3. Before(p, q) \/ Before(q, p)
    <3>1. \A f \in Files : f = <<f[1], f[2]>> /\ f[1] \in Nat /\ f[2] \in Nat
      BY DEF Files
    <3> QED
      BY <2>2, <3>1 DEF Before
  <2>4. Before(p, q) => At(p).n < At(q).n
    BY <2>1, <2>2 DEF Ordered, Earlier, Before, At
  <2>5. Before(q, p) => At(q).n < At(p).n
    BY <2>1, <2>2 DEF Ordered, Earlier, Before, At
  <2> QED
    BY <2>2, <2>3, <2>4, <2>5
<1> QED
  BY <1>1, LoggerInvariant, PTL

\* A full file gets one more batch at most in each life of the process, and in
\* the first life only a day's first file does, which m_no++ opens twice
\* (log.cc:187-193).
THEOREM FilesStayBounded == Spec => FilesAreBounded
<1>1. ASSUME LoggerInv, [Next]_vars, NEW f \in DOMAIN files, Full(f), files'[f] # files[f]
      PROVE  f \notin again /\ (restarts = 0 => f[2] = 0)
  <2>1. pc[Writer] = "write" /\ f = handler
    <3>1. CASE UNCHANGED files
      BY <1>1, <3>1
    <3>2. CASE WriteBatch
      BY <1>1, <3>2 DEF WriteBatch, Appended
    <3>3. CASE Restart
      BY <1>1, <3>3 DEF Restart, Appended
    <3>4. UNCHANGED files \/ WriteBatch \/ Restart
      <4> USE DEF writerVars
      <4>1. ASSUME NEW t \in Loggers, Logger(t) PROVE UNCHANGED files
        BY <4>1 DEF Logger, Log, PushLine, LogExit
      <4>2. Timer => UNCHANGED files
        BY DEF Timer, AsyncLoop, SwapBuffer, HandOver, PushLogBuffer, HandOverExit,
               AsyncLoopExit
      <4>3. Loop => UNCHANGED files \/ WriteBatch
        BY DEF Loop, WriterLock, TakeBatch, Wait, OpenFile, WriterExit
      <4>4. SpuriousWakeup \/ Stop \/ Midnight \/ UNCHANGED vars => UNCHANGED files
        BY DEF SpuriousWakeup, Stop, Midnight, vars
      <4> QED
        BY <1>1, <4>1, <4>2, <4>3, <4>4 DEF Next
    <3> QED
      BY <3>1, <3>2, <3>3, <3>4
  <2> QED
    BY <1>1, <2>1 DEF LoggerInv, OpenIsLast
<1>2. LoggerInv /\ [Next]_vars =>
         [\A f \in DOMAIN files : Full(f) /\ files'[f] # files[f] =>
             f \notin again /\ (restarts = 0 => f[2] = 0)]_vars
  BY <1>1
<1> QED
  BY <1>2, LoggerInvariant, PTL DEF Spec, FilesAreBounded
=============================================================================
