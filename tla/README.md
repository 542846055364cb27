# Verification of MyTinyRPC

TLA+ models of the library under `src/tinyrpc`, TLC configurations that check
them on small instances, and TLAPS proofs of their main invariants.  Line
numbers are those of the sources; `PROJECT.json` maps every definition to the
lines it models.

    tlc -config EventLoop.cfg MCEventLoop      # and so on, one line per run
    tlapm EventLoopProofs.tla

## The system

MyTinyRPC is a reactor-style RPC library over protobuf.  A main thread accepts
connections, a pool of IO threads serves them, a client runs a loop of its own
for the length of a call.

| component | state | operations | talks to |
|---|---|---|---|
| EventLoop (`net/eventloop.cc`) | task queue under a mutex, epoll set, eventfd, stop flag | `loop`, `addTask`, `addEpollEvent`, `deleteEpollEvent`, `stop` | everything posts to it; it runs handlers of FdEvents |
| ScopeLocker, Mutex (`common/locker.h`) | a pthread mutex | construct, `unlock`, destruct | EventLoop, Timer, Logger |
| FdEvent, FdEventPool (`net/fd_event*.cc`) | mask and callbacks of each fd | `listen`, `cancel`, `handler`, `getFdEvent` | read by the loop when it registers and dispatches |
| Timer, TimeEvent (`net/timer.cc`, `time_event.cc`) | ordered map of events under a mutex, timerfd | `addTimeEvent`, `deleteTimeEvent`, `onTimer`, `resetArriveTime`, `setCancel` | an fd of a loop; any thread may add |
| TcpBuffer (`net/tcp/tcp_buffer.cc`) | a vector and two indices | `writeToBuffer`, `readFromBuffer`, `resizeBuffer`, `moveReadIndex`, `moveWriteIndex` | two in each connection |
| TcpConnection (`net/tcp/tcp_connection.cc`) | state, buffers, pending callbacks | `onRead`, `excute`, `onWrite`, `clear` | its loop, the coder, the dispatcher |
| TcpServer, TcpAcceptor (`net/tcp/tcp_server.cc`) | set of connections | `onAccept`, `clearClient` | IO thread pool, timer of the main loop |
| IOThread, IOThreadPool (`net/io_thread*.cc`) | threads, two semaphores, round-robin index | create, `start`, `getIOThread`, `join` | one EventLoop each |
| TcpClient (`net/tcp/tcp_client.cc`) | fd, loop, connection, error | `onConnect`, `writeMessage`, `readMessage`, `addTimerEvent`, `stop` | its connection |
| RpcChannel, RpcController, RpcClosure (`net/rpc`) | the call's id, code, cancellation | `CallMethod` | TcpClient, a timeout event, the user's closure |
| TinyPBCoder (`net/coder`) | none | `encode`, `decode` | the buffers |
| RpcDisPatcher (`net/rpc/rpc_dispatcher.cc`) | service map | `dispatch`, `registerService` | services |
| Logger, AsyncLogger (`common/log.cc`) | two levels of buffers, a writing thread | `pushLog`, `asyncLoop`, `pushLogBuffer`, `stop` | a timer event, a file |
| MsgUtil, Config, RunTime, util | thread-local id, parsed configuration | `GenMsgID`, ... | – |

What is hard in it:

* **A guard that releases twice.** `ScopeLocker::unlock()` does not clear
  `m_is_lock`, so the destructor releases the mutex again, perhaps somebody
  else's hold.  Every use of the guard in the library calls `unlock()`.
* **Wakeups.** A posted task is seen by a sleeping loop through an eventfd that
  is read empty by a handler, which itself is a task of the queue.
* **Order.** Handlers and posted callbacks go through one queue that is swapped
  out; masks are read when a callback runs, not when it is posted.
* **The timer** is armed outside the guard, from a copy of the map.
* **Lifetime.** A connection is made and destroyed in the main thread and lives
  in an IO thread, which has raw pointers to it in its batch.
* **Streams.** Requests come in pieces; buffers fill; sockets fill.
* **A call** ends by a response, a timeout or a failed connection, in any order.
* **Threads start and end** around a loop that others already hold a pointer to.
* **A log line** passes through three threads, two guards and a condition
  variable before it is in a file, whose name depends on the date, the size of
  the file before and the life of the process.
* **The table of FdEvents** is one vector for all threads, without a lock.

## Modules

| module | models | state and actions |
|---|---|---|
| `ScopeLocker` | `common/locker.h` | the mutex word; what construct, unlock and destruct do to it.  EventLoop instantiates it with its own mutex, the steps of each thread in between |
| `EventLoop` | `net/eventloop.cc`, `fd_event.cc`, `wakeup_fd_event.cc` | one action per step between two points at which another thread can act: lock, swap, each task, epoll_wait, each push, the end of the guard's scope; remote threads that add and delete fds and stop the loop.  A push that overlaps another access may be lost (`lost`) |
| `Timer` | `net/timer.cc`, `time_event.cc` | the guarded part of each call and the arming of the timerfd are separate steps; the clock ticks between them.  Once two threads have been in the map at once (`raced`), every access to it finds, and an insertion leaves, some of its events in some order (`Damaged`) |
| `BufferOps` | `TcpBuffer` | each member function as an operator on a buffer, with off-by-one and growth as in the code |
| `TcpBuffer` | a buffer and its callers | any sequence of calls |
| `ByteStream` | abstract specification of a buffer | a queue that may lose a whole receive and refuse a skip |
| `TcpServer` | `net/tcp/tcp_server.cc`, connection states, the round robin of the pool | main thread (accept in three steps, `clearClient` one client at a time), IO loops (swap, run, poll), handlers, peers that send, close and reset |
| `RpcServe` | `TcpConnection` on the server with `TinyPBCoder` and `RpcDisPatcher`, over `BufferOps` | each `read()` and `write()` is a step; the network delivers units one by one; the client decodes what has arrived.  Where bytes may end inside a length field (`MayLoop`), decode, on either side, may return or not (`DecodeLoops`, `ReceiveLoops`) |
| `RpcCall` | `RpcChannel`, `RpcController`, `RpcClosure`, `TcpClient` | one call: handlers of its loop in any batch order, the timeout, a peer that answers, refuses, closes or stays silent |
| `IOThread` | `net/io_thread.cc`, the pool | the owner (construct, start, join, destroy) and `Run()` over the two semaphores, composed with the whole of `EventLoop`, whose remote threads call the loop meanwhile |
| `AsyncLogger` | `common/log.cc`, asynchronous mode | `pushLog`, `asyncLoop` and `pushLogBuffer` between their lock steps, the writer with its condition variable, the choice of the file; midnight, and a restart of the process that keeps the files |
| `MsgUtil` | `common/msg_util.cc` | the counter on digits, as operators |
| `CallSetup` | `net/fd_event_pool.cc`, the constructors that look FdEvents up, `accept`, `GenMsgID` | one action per statement of `GetFdEventPool` and `getFdEvent`, in a client and in the accepting thread; descriptors are given lowest first and run out |
| `MC*` | – | instances for TLC |
| `EventLoopProofs`, `TcpBufferProofs`, `TcpServerProofs`, `TimerProofs`, `RpcCallProofs`, `RpcServeProofs`, `CallSetupProofs`, `AsyncLoggerProofs` | – | proofs about the module each is named after, and in the first also about `IOThread` |

How they compose.  `EventLoop` has the queue and its races in full.
`TcpServer` and `RpcCall` use a coarser loop with the same order of steps, in
which `addTask` is one step and nothing is lost: their properties are about
what handlers do to each other, and hold of the code only where the queue does
not lose a task.  `RpcServe` runs the operators of `BufferOps` on both buffers,
so what `TcpBuffer` shows of a buffer alone (a receive that fills it is lost)
has its effect there on requests.  `TcpServer` has the opening and closing that
`RpcServe` leaves out, and abstracts the bytes that `RpcServe` has.
`IOThread` adds an owner to `EventLoop`; that its loop still is one is a theorem
(`ThreadRunsLoop`).  `AsyncLogger` instantiates `ScopeLocker` twice, for the
mutex of the lines and for that of the batches.

Names of definitions follow the source, including its spelling (`Excute`,
`RpcDisPatcher`).

## Runs

Each property's comment says what it states.  "History" variables are read by
properties only.

| run | checks | instance and why it is enough |
|---|---|---|
| `loop_safety` | `TasksWakeLoop`, `StopWakesLoop`: a loop about to sleep has been or is about to be woken, except in an iteration that ran the wakeup handler.  `HandlerOnce`: no handler is queued twice.  `RegistrationCatchesUp`: epoll watches what FdEvent asks for, unless a registration is under way or was lost | two remote threads that add or delete once each and may stop the loop at any time, and one fd: two posters and the loop are what the guard's second release needs to let two accesses overlap |
| `io_thread` | `LoopIsThere`: nobody uses a loop that is not made yet or is deleted.  `CallsInOrder`: one thread's calls run in order and at most once.  `CallsAreRun`, `StopReturns`, `OwnerReturns`: the destructor of a started thread, and the join of a stopped one, return | the owner, which makes two calls in a row; an event array of one so that the eventfd can be left out.  A call before `start()`, a stop before the loop has begun, and a destructor while it sleeps are all reached |
| `timer` | `MapInOrder`, `ArmedWhilePending`, `ArmedUnlessOvertaken`: the timerfd is armed no later than the first event, unless a second thread overtook a reset.  `EventFires`: an event that is neither erased nor cancelled fires.  All but the types are claimed until two threads are in the map at once | an event due late and one due soon, added by the loop's thread and another: two events and two threads are enough for an arming to be overtaken |
| `buffer` | `IndicesInBounds`, `OnlySentBytes`, `IsLossyStream` (the buffer implements `ByteStream`) | initial size 6, calls of up to 2 bytes, at most 6 readable: it fills exactly, compacts, and grows with the read index off the front |
| `server` | `ClosedIsForgotten`: no epoll knows a closed connection.  `OpenIsWatched`.  `NeverRevived`: states only go forward.  `LeaverIsDestroyed` | two connections on two IO threads, a request each |
| `server_dangling` | **violated** `NoDanglingHandler` | one connection |
| `rpc_call` | `ClosureAtMostOnce`, `AnswerSettles`, `ClosureIsTold`, `ClosureRuns` | no constants: all behaviours of one call |
| `rpc_answer` | **violated** `AnswerRunsClosure` | the same |
| `serve` | `ServedInOrder`, `NothingForged`, `WholeIsServed`, `AnswerIsWritten` | three requests of two units; a buffer and a socket that two of them fill exactly; a pass can hold a whole packet and the head of the next, the only way for decode not to return |
| `serve_pieces` | **violated** `ArrivedIsServed` | one request |
| `logger` | `LinesInOrder`: once and in order, through every buffer and file.  `FilesAreBounded`: a full file gets a batch more only in the cases named.  `LinesAreWritten` | one thread and three lines, a file that one line fills, two days, one restart: a push that overlaps a swap, a signal that is missed, a file that is full on the first and on a later number, and full files found after a restart |
| `call_setup` | `EventIsOwn`: without a race, a lookup finds the FdEvent made for its fd.  `IdsAreConsecutive` | a client and the acceptor; a pool of two that five descriptors make grow twice; ids of two binary digits, which reach the limit twice |

Bounds: `MaxCalls` (EventLoop), `MaxChunk`, `MaxBytes` (TcpBuffer), `MaxRequests`
(TcpServer), `Calls` (RpcServe), `MaxLines`, `Days`, `MaxRestarts`
(AsyncLogger), `MaxFds` (CallSetup).  Each is a constant of its module, used in a
guard of what the environment does and of nothing the code does.  `MaxEvents`
(EventLoop, TcpServer) is the code's own array size.  Timer has no such bound:
times are counted from now on, and each event object is added once by its owner
and then, if it is repeated, by `onTimer` for ever.

`PoolSize`, `MaxFileSize`, `Base` and `IdLength` are the code's own constants
(128, a configured size, 10 and 20), made small.

Deadlock is checked in every run but that of Timer, which may stop once no event
is left; elsewhere the states in which the modelled program is really
finished have a stuttering step of their own.

### What the violated runs show

* `server_dangling`: tcp_server.cc:57.  The read handler closes the connection,
  `clearClient` in the main thread destroys it, and the write handler of the same
  batch runs on the raw pointer.
* `rpc_answer`: rpc_channel.cc:103, 110.  A response with an error code, or one
  that cannot be parsed, cancels the timeout and returns: the closure, which has
  a branch for failed calls, never runs.
* `serve_pieces`: tinypb_coder.cc:29.  `decode` consumes the whole buffer, so a
  packet that arrives in two reads is dropped, against README.md:203.

More deviations are part of what the passing properties say, as the exceptions
they name:

* locker.h:17.  T1 unlocks; T2 locks; T1's destructor releases T2's hold; T3
  locks.  Two threads are in one critical section: a task, a line or a batch may
  be lost (`lost` in `CallsAreRun`, `RegistrationCatchesUp`, `LinesAreWritten`)
  and a signal missed (`missed`), although README.md:133 presents posting as the
  way to avoid thread-safety problems.
* timer.cc:108.  `resetArriveTime` copies the map under the guard and arms the
  timerfd after it; an earlier event that another thread adds and arms for in
  between is overridden, and fires late (`overtaken` in `ArmedUnlessOvertaken`).
* eventloop.cc:204.  A wakeup is swallowed by the handler of an earlier one
  (`drained` in `TasksWakeLoop`).
* eventloop.cc:139.  A loop that was stopped never runs again, so that a later
  call of the same thread gets no answer (`ClosureRuns` asks only of loops that
  were not stopped).
* timer.cc:49.  The search of `deleteTimeEvent` assigns where it means to compare,
  so the first event with the same arrive time leaves the map, and an event that
  nobody deleted may never fire (`erased` in `EventFires`).
* time_event.cc:6.  `m_is_cancel` is not initialised, so an event that nobody
  cancelled may never fire (`cancelled` in `EventFires`), nor the timeout of a call
  (`ClosureRuns`).  `m_error_code` is not either (`ClosureIsTold`).
* tinypb_coder.cc:42.  `decode` checks for one byte of the length and reads four.  A
  whole packet is followed by one of which only the start byte and up to three bytes
  of the length, all zero, have arrived; if zero lies behind them, the length is 0,
  the packet seems to end at the end byte in front of it, and lines 77-80 begin the
  search behind that byte again, for ever.  The thread hangs, and the whole packet is
  never dispatched (`stuck` in `WholeIsServed`, "looping" in `AnswerIsWritten`).
* tcp_buffer.cc:86.  A receive that fills the buffer exactly is lost (the loss
  `ByteStream` allows, and `cut` in `WholeIsServed`).
* tcp_connection.cc:161.  Answers are sent again with every write, and block the
  connection once they outgrow the socket (`AnswerIsWritten`).
* io_thread.cc:22.  An IOThread that was never started cannot be destroyed or
  joined (`Started` in `OwnerReturns`).
* log.cc:189.  The first file of a day, and after a restart every full one, gets
  a batch after it is full (`FilesAreBounded`).
* fd_event_pool.cc:28.  A pool that grows while another thread is in it, or that
  is made twice, may give anything (`raced` in `EventIsOwn`).
* msg_util.cc:30.  After the second refill the limit is longer than any id, and
  the all-nines id is given for ever (`IdsAreConsecutive`).
* tcp_acceptor.cc:52.  No descriptor of the server is ever closed; the `accept`
  that finds none passes -1 on, and the lookup reads in front of the pool's
  vector.  `CallSetup` reaches that state and stops there.

### Fairness

* IOThread: threads are scheduled (weak fairness of each thread's steps), and a
  blocked lock is got in the end (strong fairness of the lock steps).
  `epoll_wait` returns within `g_epoll_max_timeout`.  The owner starts the thread,
  as `TcpServer::start` does, unless it joins or destroys it first.  Nobody is
  forced to make a call.
* AsyncLogger: the logging threads finish what they began, the repeated timer
  event fires again and again (`EventFires` of Timer), the writer runs.  Nobody
  is forced to log; `pthread_cond_wait` need not wake without a signal.
* Timer: the threads run, and time passes.
* TcpServer: IO loops and the main thread's timer run; nothing is assumed of a
  peer.
* RpcCall: the loop's thread runs and time passes.  The peer may be silent and
  the socket never writable.
* RpcServe: the IO thread runs, a socket with room is reported in the end, and
  the client, unless its decode does not return, empties its socket now and then, as
  its read loop does.  Without the last, the server can begin the same answers again
  for ever.

## Proofs

`EventLoopProofs` proves, for any set of remote threads, any fds and kinds, any
event array and any number of calls, from `ConstantsAssumption`:

* `TypeCorrect`: `Spec => []TypeOK`.  `TypeOK` is not inductive: the push of a
  handler needs to know that an event is left and is of a known kind.  The
  inductive invariant is `TypeInv == TypeOK /\ Collecting`.
* `TasksAreWoken`, `StopsAreWoken`: the two wakeup invariants.  They are
  inductive over `TypeInv`: a post sets the task before it enters "wake", a stop
  its flag before "stopwake", and only the loop's own wakeup handler, which sets
  `drained`, clears the eventfd.  Mutual exclusion is not used, which is why they
  hold although the mutex does not exclude.

For the queue, `EventLoopProofs` has a second inductive invariant, `QueueInv`.
It speaks of `Queue`, the batch the loop runs and the tasks pending behind it, so
that the swap in `loop()` changes nothing it says:

* `LoopPhases`: the loop sleeps with no task of its own queued;
* `InFlight`, `QueuedBefore`: a call that is being posted is newer than all that
  its thread has queued, and those are newer than what has run;
* `HandlersApart`: handlers in the queue are distinct, and differ from those that
  the rest of the event array will still bring.

From it follow `CallsRunInOrder`, `RegistrationsCatchUp` and `HandlersQueuedOnce`.
No part needs mutual exclusion: the model's overlapping push loses a task (`lost`),
and a subsequence of an ordered queue is ordered.

Of `IOThread` it proves, from `OwnerAssumption` as well:

* `ThreadRunsLoop`: `ThreadSpec => Spec`, the loop inside an IOThread implements
  EventLoop: every step of the owner and of `Run()` is a step of the loop or
  leaves it alone.  `EventLoop`'s theorems hold of it therefore;
  `DestructorWakesLoop` and `ThreadCallsInOrder` are two of them.
* `LoopAlwaysThere`: the inductive invariant `HandOver` says where the thread can
  be for each thing the owner has done, and that `m_init_sem` is posted only after
  the loop is made.

`TcpBufferProofs` proves, for any bytes, initial size and chunk sizes:

* `BufferInBounds`, `OnlySentBytesComeOut`.  The inductive invariant `BufferInv`
  adds to the indices the domain of the vector and says that the bytes between
  the indices were sent.  `ResizeGood`, `AdjustGood`, `StoredGood` and
  `GrownGood` are the facts about single operations.
* `BufferIsLossyStream`: the refinement of `ByteStream`.  What the abstract queue
  holds is the vector between the two indices.  `ResizeContents`,
  `AdjustContents`, `GrownContents`, `StoredContents` and `ReadContents` say what
  each operation does to it: moving and growing nothing, a receive an append, or
  nothing at all when it fills the buffer exactly.  `StepRefines` maps each step
  to one of `ByteStream` or to a stutter.

`TcpServerProofs` proves, for any finite set of connections, any number of IO
threads, size of the event array and number of requests (`ServerAssumption`; the
set is finite because the server never closes a descriptor):

* `ServerTypeCorrect`, and from `ServerInv` the theorems
  `ClosedConnectionForgotten`, `OpenConnectionWatched` and `ClosedStaysClosed`.
  `ServerInv` says that a connection's tasks are in its own thread's loop only
  and each once (`TasksInPlace`), that no handler of it is queued before its
  registration has run (`RegisteredFirst`), that it is unused until `onAccept`
  has set it Connected (`Constructed`), and that an open one listens for reads
  (`Listens`).  `RegisteredFirst` is why the main thread's late assignment of
  Connected does not revive a connection that its IO thread has closed.

`TimerProofs` proves, for any events, intervals and adding threads
(`TimerAssumption`):

* `TimerTypeCorrect`, `MapStaysInOrder`, `PendingIsArmed`, `ArmedInTime`.  The
  inductive invariant `TimerInv` adds `Phases`, what each thread holds where it
  is, and `OnePlace`: an event is in the map, in the list of `onTimer` or in the
  hands of one thread.  Without `OnePlace` a re-added event could meet itself in
  the map, and changing its arrival time would break the map's order.  The last
  three are proved for the time before two threads have been in the map at once
  (`raced`), and `OnePlace` holds no longer: from then on only types are left, by
  `DamagedMap`, which says that a damaged map holds events.  Whether two threads ever
  are in the map at once is up to the guard, which allows it (locker.h:17).
  `InsertedSeq`, `RemovedSeq`, `EmplacedMap`, `DeletedMap` and `SelectedMap` are
  the facts about the map; `AheadStep` says that whoever is about to arm the
  timerfd gets there.

`RpcCallProofs` proves, of all behaviours of one call:

* `CallTypeCorrect`, `ClosureRunsOnce`, `AnswerIsFinal`, `ClosureToldTruly`.  The
  inductive invariant `CallInv` has two parts.  `Settled`: the timeout's event
  leaves the timer for good, the request is delivered once, and the first of
  timeout and answer settles the call.  `Explained` says where each error code
  comes from; it needs that a batch holds the write handler at most once, and that
  a connection that failed has deregistered its fd, so that no answer follows.

`RpcServeProofs` proves, for any number of requests, initial size of the buffers
and room in the socket (`ServeAssumption`), and however the network cuts the
stream of heads and tails up:

* `ServeTypeCorrect`, `RequestsInOrder`, `RequestsAndAnswersAreReal`,
  `WholeRequestsAreServed`.  The inductive invariant `ServeInv` follows a request
  to its answer by the place of its two units in the client's stream (`Place`).
  `Stream`: the socket, and before it the unread part of `m_in_buffer`, are the
  rest of the stream, and outside a pass of `onRead` the buffer is empty.
  `Dispatched`: all that is behind them (`Gone`) was served, in order, or cut, or
  is among the bytes of a decode that does not return (`stuck`), and then the thread
  is there for ever (`Control`).
  `Answers`: `m_out_buffer` holds whole answers to requests that were served, or
  to nobody (id 0).  `Socket`: there answers are cut short, but the unit before a
  tail is always its own head, since every write begins at the front of
  `m_out_buffer` again; therefore what the client decodes is a whole answer.
* The lemma `DecodeFinds`: what `decode` returns, when it returns, are the whole
  packets among its units, each once and in order.  Like `EncodeAnswers` it is about a function defined by recursion;
  `RecursionExists` and `EncodeExists` show that there is one, and the property
  follows by taking the least number of units for which it fails (`LeastNat`).

`CallSetupProofs` proves, for any clients, initial pool size of at least two,
number of descriptors, base and length of ids (`SetupAssumption`,
`IdAssumption`):

* `SetupTypeCorrect`, and `LookupFindsOwnEvent`.  The invariant `PoolInOrder`
  holds while there is one pool that no thread was in while another grew it: its
  FdEvents are in their places, and a thread that has found its pool large enough
  still does when it reads.  One that grows the pool appends at its end, unless
  others are in it: then it has still to push, which is what sets `raced`.
* `IdsCountUp`: successive ids of a thread read as successive numbers, except
  where `IdsAreConsecutive` says otherwise.  `ValueOf` is defined by recursion on
  the digits; what is needed of it is shown by taking the least digit for which
  it fails (`LeastNat`, from the library's `WFMin`).

`AsyncLoggerProofs` proves, for any logging threads, lines, file size, days and
restarts (`ConstantsAssumption` of AsyncLogger):

* `LoggerTypeCorrect`, `LinesStayInOrder`, `FilesStayBounded`.  The inductive
  invariant `LoggerInv` follows a line from its thread to a file.  `Pipeline`: the
  lines in the writer's batch, the queue, the timer thread's hands and the buffer
  are each in order, come in that order, and come behind what files hold.
  `FilesMade`: a file holds no line that its thread has still to push.
  `FilesInOrder`: files, read by date and number, are in order.  `Numbers` and
  `OpenIsLast` tie `m_no` to the open file and say that it is the last this life
  has written; without them the file chosen after a midnight or a restart could
  be an earlier one.  Again no part needs mutual exclusion.

Assumptions on constants are those named in the modules; TLC evaluates them on
every instance.  They ask that names of threads differ, that sizes are positive
and bounds natural numbers.

Only model-checked:

* liveness (`CallsAreRun`, `StopReturns`, `OwnerReturns`, `EventFires`,
  `LeaverIsDestroyed`, `ClosureRuns`, `AnswerIsWritten`, `LinesAreWritten`):
  TLAPS has no rule for fairness that its backends could use here, as it has no
  ENABLED;
* the violated properties, which are false.

## Not modelled

* A crash, or a walk that does not end, as the outcome of overlapping accesses to a
  queue or to the timer's map (it would end the behaviour, and after it nothing is
  claimed), and the loss of tasks in `TcpServer` and `RpcCall`: what these say of
  every interleaving is of those in which `addTask` loses nothing.
* Bytes inside a packet: fields whose lengths contradict the packet, and data
  that happens to look like a start or end byte.  Where inside a packet the network
  cuts it is one choice, but that a cut in the length field is read over: of what
  may lie behind the bytes only a zero with an end byte in front (`MayLoop`) has an
  effect.  A byte in front of the vector is not taken for an end byte, and half an
  answer's length together with bytes of the next does not point to an end byte.
* A decode of `RpcCall`'s client that does not return: its peer's answer arrives as
  one packet, or is garbage.
* The logger's synchronous mode (it prints in the caller, and its buffer grows
  for ever, log.cc:49), the level filter and the text of a line.
* A failed `fopen` in the writer other than by the death of the process that it
  leads to.
* The destructor of `TcpClient`, which stops and deletes its thread's loop, a
  second call or a second connect on one client (after a failed one the fd is a
  new one, the FdEvent and the connection have the old number), and a client
  inside a server's handler.
* POSIX leaves a second `pthread_join` and the destruction of a semaphore that is
  waited for undefined; `IOThread` takes the one to return at once and the other to do nothing.
* Configuration, addresses, `RunTime`, `RpcInterface`, `StringCoder`, the
  generator: read once, constants, conversions or without a caller; see
  `PROJECT.json`.

## Plan

Done: EventLoop with ScopeLocker, IOThread over it, Timer, TcpBuffer with
ByteStream, TcpServer, RpcServe, RpcCall, AsyncLogger, CallSetup with MsgUtil;
every invariant and action property that holds of them is a theorem.

Next, two compositions: a client call against the real server (RpcCall with
RpcServe in place of its nondeterministic peer), to see that a served call ends
with its closure; and a second call on one TcpClient.
