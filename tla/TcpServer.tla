----------------------------- MODULE TcpServer -----------------------------
(***************************************************************************)
(* net/tcp/tcp_server.cc and the server side of net/tcp/tcp_connection.cc: *)
(* the life of the accepted connections, from onAccept in the main thread  *)
(* over the handlers in the IO threads to clearClient in the main thread.  *)
(*                                                                         *)
(* The loops are those of EventLoop: addTask is one step here, and the     *)
(* tasks that EventLoop's queue may lose are not lost here.  The loop of   *)
(* an IO thread runs its batch, sleeps in epoll_wait and queues a handler  *)
(* for every event that is ready.  Using a destroyed connection, or        *)
(* writing to a socket whose peer has reset it (SIGPIPE), ends the         *)
(* behaviour.                                                              *)
(***************************************************************************)
EXTENDS Naturals, Sequences, FiniteSets, SequencesExt

CONSTANTS
    Conns,       \* the connections that peers may open
    PoolSize,    \* IOThreadPool::m_size
    MaxEvents,   \* g_epoll_max_events
    MaxRequests  \* bound: what each peer sends

\* No descriptor of a connection is ever closed, so there are finitely many.
ASSUME ServerAssumption ==
    /\ IsFiniteSet(Conns)
    /\ PoolSize \in Nat \ {0} /\ MaxEvents \in Nat \ {0} /\ MaxRequests \in Nat

IOThreads == 0..(PoolSize - 1)

VARIABLES
    mainPc,      \* the main thread: "idle", "constructed", "connected", "clearing"
    current,     \* the connection onAccept is working on, as a set
    unswept,     \* the clients the iteration of clearClient has not reached
    clients,     \* m_clients
    index,       \* IOThreadPool::m_index
    owner,       \* the IO thread of each connection, PoolSize for none
    state,       \* TcpConnection::m_state, "Unborn" before and "Destroyed" after
    mask,        \* m_listen_events of the connection's FdEvent
    listenFds,   \* the connections known to the epoll of their loop
    interest,    \* the events epoll reports for them
    outBuffer,   \* m_out_buffer is readable
    queue,       \* m_pending_tasks of each IO thread
    batch,       \* tmp_tasks of each IO thread
    running,     \* the IO thread is running its batch, not about to swap
    \* the peers:
    peer,        \* "away", "open", "closed" or "reset"
    inbox,       \* requests in the socket
    sent,        \* requests sent
    fate         \* "running", "killed" by SIGPIPE, or "dangling"

mainVars == <<mainPc, current, unswept, clients, index, owner>>
loopVars == <<queue, batch, running>>
fdVars   == <<mask, listenFds, interest>>
peerVars == <<peer, inbox, sent>>
vars     == <<mainVars, state, fdVars, outBuffer, loopVars, peerVars, fate>>

Tasks == [op : {"ADD", "IN", "OUT"}, conn : Conns]
Task(op, c) == [op |-> op, conn |-> c]
-----------------------------------------------------------------------------
(* The main thread *)

\* Mutant of NextIndex: the index wraps one too late.
NextIndexLate == IF index > PoolSize THEN 0 ELSE index

\* IOThreadPool::getIOThread(): the threads in turn; PoolSize stands for -1 too.
NextIndex == IF index = PoolSize THEN 0 ELSE index

\* onAccept up to the end of TcpConnection's constructor, which listens for
\* reads and posts the registration to the IO thread's loop.
Accept(c) ==
    /\ mainPc = "idle"
    /\ peer[c] # "away" /\ state[c] = "Unborn"
    /\ owner' = [owner EXCEPT ![c] = NextIndex]
    /\ index' = NextIndex + 1
    /\ state' = [state EXCEPT ![c] = "NotConnected"]
    /\ mask' = [mask EXCEPT ![c] = {"IN"}]
    /\ queue' = [queue EXCEPT ![NextIndex] = Append(@, Task("ADD", c))]
    /\ mainPc' = "constructed" /\ current' = {c}
    /\ UNCHANGED <<unswept, clients, listenFds, interest, outBuffer, batch, running,
                   peerVars, fate>>

\* connection->setState(Connected), while the IO thread may be at work on it.
SetConnected ==
    /\ mainPc = "constructed"
    /\ state' = [c \in Conns |-> IF c \in current THEN "Connected" ELSE state[c]]
    /\ mainPc' = "connected"
    /\ UNCHANGED <<current, unswept, clients, index, owner, fdVars, outBuffer,
                   loopVars, peerVars, fate>>

Insert ==
    /\ mainPc = "connected"
    /\ clients' = clients \cup current
    /\ mainPc' = "idle" /\ current' = {}
    /\ UNCHANGED <<unswept, index, owner, state, fdVars, outBuffer, loopVars, peerVars,
                   fate>>

\* clearClient, a client at a time, in the order of the set of pointers.
ClearStart ==
    /\ mainPc = "idle"
    /\ mainPc' = "clearing" /\ unswept' = clients
    /\ UNCHANGED <<current, clients, index, owner, state, fdVars, outBuffer, loopVars,
                   peerVars, fate>>

\* Erasing the only shared_ptr destroys the connection; its fd stays open.
ClearOne ==
    /\ mainPc = "clearing"
    /\ \E c \in unswept :
          /\ unswept' = unswept \ {c}
          /\ IF state[c] = "Closed"
             THEN clients' = clients \ {c} /\ state' = [state EXCEPT ![c] = "Destroyed"]
             ELSE UNCHANGED <<clients, state>>
    /\ UNCHANGED <<mainPc, current, index, owner, fdVars, outBuffer, loopVars, peerVars,
                   fate>>

ClearEnd ==
    /\ mainPc = "clearing" /\ unswept = {}
    /\ mainPc' = "idle"
    /\ UNCHANGED <<current, unswept, clients, index, owner, state, fdVars, outBuffer,
                   loopVars, peerVars, fate>>

Main == (\E c \in Conns : Accept(c)) \/ SetConnected \/ Insert
            \/ ClearStart \/ ClearOne \/ ClearEnd
-----------------------------------------------------------------------------
(* The handlers of a connection, in its IO thread *)

\* ADD_TO_EPOLL with the mask m; a MOD or ADD.
AddToEpoll(c, m) ==
    /\ interest' = [interest EXCEPT ![c] = m]
    /\ listenFds' = listenFds \cup {c}

DelFromEpoll(c) ==
    /\ interest' = [interest EXCEPT ![c] = {}]
    /\ listenFds' = listenFds \ {c}

\* listen or cancel an event, and tell epoll.
Listen(c, m) == mask' = [mask EXCEPT ![c] = m] /\ AddToEpoll(c, m)

\* excute(): the complete requests are answered into the out buffer, and
\* listenWrite() is called whether or not there was one.
Excute(c) ==
    /\ inbox' = [inbox EXCEPT ![c] = 0]
    /\ \/ UNCHANGED outBuffer
       \/ inbox[c] > 0 /\ outBuffer' = [outBuffer EXCEPT ![c] = TRUE]
    /\ Listen(c, mask[c] \cup {"OUT"})
    /\ UNCHANGED state

\* Mutant of Clear: the state stays Connected.
ClearSilently(c) ==
    /\ inbox' = [inbox EXCEPT ![c] = 0]
    /\ mask' = [mask EXCEPT ![c] = {}]
    /\ DelFromEpoll(c)
    /\ UNCHANGED <<state, outBuffer>>

\* clear(): the connection is deregistered, then Closed.
Clear(c) ==
    /\ inbox' = [inbox EXCEPT ![c] = 0]
    /\ mask' = [mask EXCEPT ![c] = {}]
    /\ DelFromEpoll(c)
    /\ state' = [state EXCEPT ![c] = "Closed"]
    /\ UNCHANGED outBuffer

\* read() until the socket is empty.  It is closed at once when read() returns
\* 0 before a short read, which happens even with bytes there if they fill the
\* buffer exactly (see TcpBuffer); a reset is an error that is retried, then 0.
Readable(c) ==
    \/ (inbox[c] > 0 \/ peer[c] = "open") /\ Excute(c)
    \/ peer[c] \in {"closed", "reset"} /\ Clear(c)

\* Mutant of OnRead: without the test of m_state.
OnReadUnguarded(c) == Readable(c)

\* Nothing is done unless the connection is Connected.
OnRead(c) ==
    \/ state[c] = "Connected" /\ Readable(c)
    \/ state[c] # "Connected" /\ UNCHANGED <<state, fdVars, outBuffer, inbox>>

\* write(): everything is written and OUT is cancelled, or the socket is full.
\* The read index of the out buffer is not moved either way.
Writable(c) ==
    \/ Listen(c, mask[c] \ {"OUT"})
    \/ outBuffer[c] /\ UNCHANGED fdVars

\* Mutants of OnWrite: without the test of m_state; IN is cancelled too.
OnWriteUnguarded(c) == Writable(c) /\ UNCHANGED <<state, outBuffer, inbox>>
OnWriteDeaf(c) ==
    /\ IF state[c] = "Connected" THEN Listen(c, {}) ELSE UNCHANGED fdVars
    /\ UNCHANGED <<state, outBuffer, inbox>>

OnWrite(c) ==
    /\ IF state[c] = "Connected" THEN Writable(c) ELSE UNCHANGED fdVars
    /\ UNCHANGED <<state, outBuffer, inbox>>

\* Writing to a reset connection: ECONNRESET is retried and raises SIGPIPE.
Fate(t) ==
    IF t.op = "ADD" THEN fate
    ELSE IF state[t.conn] = "Destroyed" THEN "dangling"
    ELSE IF t.op = "OUT" /\ state[t.conn] = "Connected" /\ outBuffer[t.conn]
              /\ peer[t.conn] = "reset" THEN "killed"
    ELSE fate
-----------------------------------------------------------------------------
(* EventLoop::loop() of an IO thread *)

Swap(t) ==
    /\ ~running[t]
    /\ batch' = [batch EXCEPT ![t] = queue[t]]
    /\ queue' = [queue EXCEPT ![t] = <<>>]
    /\ running' = [running EXCEPT ![t] = TRUE]
    /\ UNCHANGED <<mainVars, state, fdVars, outBuffer, peerVars, fate>>

Run(t) ==
    /\ running[t] /\ batch[t] # <<>>
    /\ batch' = [batch EXCEPT ![t] = Tail(@)]
    /\ fate' = Fate(Head(batch[t]))
    /\ LET task == Head(batch[t]) IN
         \/ task.op = "ADD" /\ AddToEpoll(task.conn, mask[task.conn])
               /\ UNCHANGED <<mask, state, outBuffer, inbox>>
         \/ task.op = "IN" /\ OnRead(task.conn)
         \/ task.op = "OUT" /\ OnWrite(task.conn)
    /\ UNCHANGED <<mainVars, queue, running, peer, sent>>

\* What epoll reports for c: readiness to read and errors as they are (a reset
\* is also readable), writability always.
Reported(c) ==
    (interest[c] \cap {"OUT"})
        \cup (IF inbox[c] > 0 \/ peer[c] \in {"closed", "reset"}
              THEN interest[c] \cap {"IN"} ELSE {})
        \cup (IF peer[c] = "reset" THEN {"ERR"} ELSE {})

\* The fds epoll_wait returns: all that are ready, or as many as the array has
\* room for, with or without the eventfd.
Returned(t) ==
    LET ready == {c \in listenFds : owner[c] = t /\ Reported(c) # {}} IN
    {some \in SUBSET ready :
        /\ Cardinality(some) <= MaxEvents
        /\ some = ready \/ Cardinality(some) + 1 >= MaxEvents}

\* An error has no handler.
Handlers(some) == {h \in Tasks : h.conn \in some /\ h.op \in Reported(h.conn)}

\* epoll_wait returns: the fds come in any order, IN directly before OUT, and
\* those with an error are deleted before their handlers run.
Poll(t) ==
    /\ running[t] /\ batch[t] = <<>>
    /\ \E some \in Returned(t) :
         /\ \E new \in SetToSeqs(Handlers(some)) :
              /\ \A i \in DOMAIN new :
                    LET in == Task("IN", new[i].conn) IN
                    new[i].op = "OUT" /\ in \in Handlers(some) => i > 1 /\ new[i - 1] = in
              /\ queue' = [queue EXCEPT ![t] = @ \o new]
         /\ LET failed == {c \in some : "ERR" \in Reported(c)} IN
              /\ listenFds' = listenFds \ failed
              /\ interest' = [c \in Conns |-> IF c \in failed THEN {} ELSE interest[c]]
    /\ running' = [running EXCEPT ![t] = FALSE]
    /\ UNCHANGED <<mainVars, state, mask, outBuffer, batch, peerVars, fate>>

Loop(t) == Swap(t) \/ Run(t) \/ Poll(t)
-----------------------------------------------------------------------------
(* The peers *)

Connect(c) ==
    /\ peer[c] = "away" /\ peer' = [peer EXCEPT ![c] = "open"]
    /\ UNCHANGED <<inbox, sent>>

Send(c) ==
    /\ peer[c] = "open" /\ sent[c] < MaxRequests
    /\ sent' = [sent EXCEPT ![c] = @ + 1] /\ inbox' = [inbox EXCEPT ![c] = @ + 1]
    /\ UNCHANGED peer

Leave(c) ==
    /\ \/ peer[c] = "open" /\ peer' = [peer EXCEPT ![c] = "closed"]
       \/ peer[c] \in {"open", "closed"} /\ peer' = [peer EXCEPT ![c] = "reset"]
    /\ UNCHANGED <<inbox, sent>>

Peer(c) ==
    /\ Connect(c) \/ Send(c) \/ Leave(c)
    /\ UNCHANGED <<mainVars, state, fdVars, outBuffer, loopVars, fate>>
-----------------------------------------------------------------------------
Init ==
    /\ mainPc = "idle" /\ current = {} /\ unswept = {} /\ clients = {}
    /\ index = PoolSize /\ owner = [c \in Conns |-> PoolSize]
    /\ state = [c \in Conns |-> "Unborn"]
    /\ mask = [c \in Conns |-> {}] /\ listenFds = {} /\ interest = mask
    /\ outBuffer = [c \in Conns |-> FALSE]
    /\ queue = [t \in IOThreads |-> <<>>] /\ batch = queue
    /\ running = [t \in IOThreads |-> FALSE]
    /\ peer = [c \in Conns |-> "away"]
    /\ inbox = [c \in Conns |-> 0] /\ sent = inbox
    /\ fate = "running"

Next ==
    \/ /\ fate = "running"
       /\ Main \/ (\E t \in IOThreads : Loop(t)) \/ (\E c \in Conns : Peer(c))
    \/ fate # "running" /\ UNCHANGED vars

Spec == Init /\ [][Next]_vars

\* The threads are scheduled.  The main loop alternates between what epoll
\* reports: neither the listening socket nor the timer can starve the other.
Fairness ==
    /\ \A t \in IOThreads : WF_vars(fate = "running" /\ Loop(t))
    /\ WF_vars(fate = "running" /\ (SetConnected \/ Insert \/ ClearOne \/ ClearEnd))
    /\ SF_vars(fate = "running" /\ \E c \in Conns : Accept(c))
    /\ SF_vars(fate = "running" /\ ClearStart)

FairSpec == Spec /\ Fairness
-----------------------------------------------------------------------------
(* Properties *)

\* Every variable has its type.
TypeOK ==
    /\ mainPc \in {"idle", "constructed", "connected", "clearing"}
    /\ current \in SUBSET Conns /\ unswept \in SUBSET Conns /\ clients \in SUBSET Conns
    /\ index \in 0..PoolSize /\ owner \in [Conns -> 0..PoolSize]
    /\ state \in [Conns -> {"Unborn", "NotConnected", "Connected", "Closed", "Destroyed"}]
    /\ mask \in [Conns -> SUBSET {"IN", "OUT"}] /\ interest \in [Conns -> SUBSET {"IN", "OUT"}]
    /\ listenFds \in SUBSET Conns /\ outBuffer \in [Conns -> BOOLEAN]
    /\ queue \in [IOThreads -> Seq(Tasks)] /\ batch \in [IOThreads -> Seq(Tasks)]
    /\ running \in [IOThreads -> BOOLEAN]
    /\ peer \in [Conns -> {"away", "open", "closed", "reset"}]
    /\ inbox \in [Conns -> Nat] /\ sent \in [Conns -> Nat]
    /\ fate \in {"running", "killed", "dangling"}

\* A task of the connection is queued in its loop.
Queued(op, c) ==
    \E t \in IOThreads : Task(op, c) \in ToSet(batch[t]) \cup ToSet(queue[t])

\* The main thread's setState never revives a connection that an IO thread has
\* closed, although the loop knows the connection before it is Connected.
NeverRevived ==
    [][\A c \in Conns : state[c] \in {"Closed", "Destroyed"} =>
          state'[c] \in {"Closed", "Destroyed"}]_vars

\* A connection is closed in its IO thread after its last event was taken: no
\* epoll knows it, and only its write handler of the same batch may be left.
\* So nothing but that handler can reach it once clearClient destroys it.
ClosedIsForgotten ==
    \A c \in Conns : state[c] \in {"Closed", "Destroyed"} =>
        c \notin listenFds /\ ~Queued("IN", c) /\ ~Queued("ADD", c)

\* A connection whose peer has not reset it is watched for reads, or is about
\* to be registered: there is no moment at which its events are lost.  (A peer that resets
\* before the connection is Connected leaves it unwatched for ever: EPOLLERR
\* deletes the fd and onRead returns early.)
OpenIsWatched ==
    \A c \in Conns : state[c] \in {"NotConnected", "Connected"} /\ peer[c] # "reset" =>
        (c \in listenFds /\ "IN" \in interest[c]) \/ Queued("ADD", c)

\* A client that leaves is destroyed in the end, whenever it closes and whatever
\* it sent before, and when it resets a connection that was already Connected.
LeaverIsDestroyed ==
    \A c \in Conns :
        (\/ peer[c] = "closed"
         \/ peer[c] = "reset" /\ state[c] = "Connected" /\ c \in listenFds) ~>
            \/ state[c] = "Destroyed" \/ fate # "running"
            \/ peer[c] = "reset" /\ state[c] \in {"Unborn", "NotConnected"}

\* Claimed: destroying closed connections is safe, since clearClient only takes
\* those that are Closed (tcp_server.cc:45-46): no handler runs on a destroyed
\* connection.
NoDanglingHandler == fate # "dangling"
=============================================================================
