--------------------------- MODULE TcpServerProofs ---------------------------
(***************************************************************************)
(* Proofs about TcpServer, for any number of connections, IO threads and   *)
(* requests, and any size of epoll's array: its types, and what the main   *)
(* thread, the IO threads and the peers can rely on in each other.         *)
(***************************************************************************)
EXTENDS TcpServer, FiniteSetTheorems, TLAPS

-----------------------------------------------------------------------------
(* Sequences of distinct elements *)

\* The empty sequence has no element.
LEMMA NoneInEmpty == ToSet(<<>>) = {} /\ IsInjective(<<>>)
BY DEF ToSet, IsInjective

\* The rest of a sequence without repetitions lacks its head.
LEMMA TailOfDistinct ==
    ASSUME NEW S, NEW s \in Seq(S), s # <<>>
    PROVE  /\ Tail(s) \in Seq(S) /\ Head(s) \in S
           /\ ToSet(s) = ToSet(Tail(s)) \cup {Head(s)}
           /\ IsInjective(s) => IsInjective(Tail(s)) /\ Head(s) \notin ToSet(Tail(s))
<1>1. /\ Tail(s) \in Seq(S) /\ Head(s) \in S /\ Head(s) = s[1] /\ 1 \in DOMAIN s
      /\ \A i \in DOMAIN Tail(s) : i + 1 \in DOMAIN s /\ Tail(s)[i] = s[i + 1] /\ i + 1 # 1
      /\ \A i \in DOMAIN s : i = 1 \/ (i - 1 \in DOMAIN Tail(s) /\ s[i] = Tail(s)[i - 1])
  OBVIOUS
<1>2. ToSet(s) = ToSet(Tail(s)) \cup {Head(s)}
  <2>1. ASSUME NEW i \in DOMAIN s
        PROVE  s[i] \in ToSet(Tail(s)) \cup {Head(s)}
    BY <1>1 DEF ToSet
  <2>2. ASSUME NEW i \in DOMAIN Tail(s)
        PROVE  Tail(s)[i] \in ToSet(s)
    BY <1>1 DEF ToSet
  <2>3. Head(s) \in ToSet(s)
    BY <1>1 DEF ToSet
  <2> QED
    BY <2>1, <2>2, <2>3 DEF ToSet
<1>3. ASSUME IsInjective(s)
      PROVE  IsInjective(Tail(s)) /\ Head(s) \notin ToSet(Tail(s))
  <2>1. \A i, j \in DOMAIN Tail(s) : Tail(s)[i] = Tail(s)[j] => i + 1 = j + 1
    BY <1>1, <1>3 DEF IsInjective
  <2>2. \A i \in DOMAIN Tail(s) : Tail(s)[i] # Head(s)
    BY <1>1, <1>3 DEF IsInjective
  <2> QED
    BY <2>1, <2>2 DEF IsInjective, ToSet
<1> QED
  BY <1>1, <1>2, <1>3

\* What a sequence has after an element that it lacks is appended.
LEMMA AppendDistinct ==
    ASSUME NEW S, NEW s \in Seq(S), NEW x \in S
    PROVE  /\ ToSet(Append(s, x)) = ToSet(s) \cup {x}
           /\ IsInjective(s) /\ x \notin ToSet(s) => IsInjective(Append(s, x))
<1>1. DOMAIN Append(s, x) = DOMAIN s \cup {Len(s) + 1} /\ Append(s, x)[Len(s) + 1] = x
  OBVIOUS
<1>2. \A i \in DOMAIN s : Append(s, x)[i] = s[i]
  OBVIOUS
<1> QED
  BY <1>1, <1>2 DEF ToSet, IsInjective

\* What the concatenation of sequences has.
LEMMA ConcatDistinct ==
    ASSUME NEW S, NEW s \in Seq(S), NEW u \in Seq(S)
    PROVE  /\ ToSet(s \o u) = ToSet(s) \cup ToSet(u)
           /\ IsInjective(s) /\ IsInjective(u) /\ ToSet(s) \cap ToSet(u) = {} =>
                 IsInjective(s \o u)
<1>1. \A i \in DOMAIN (s \o u) :
          \/ i \in DOMAIN s /\ (s \o u)[i] = s[i]
          \/ i - Len(s) \in DOMAIN u /\ (s \o u)[i] = u[i - Len(s)]
  OBVIOUS
<1>2. /\ \A i \in DOMAIN s : i \in DOMAIN (s \o u) /\ (s \o u)[i] = s[i]
      /\ \A i \in DOMAIN u : i + Len(s) \in DOMAIN (s \o u) /\ (s \o u)[i + Len(s)] = u[i]
  OBVIOUS
<1>3. ToSet(s \o u) = ToSet(s) \cup ToSet(u)
  <2>1. ASSUME NEW i \in DOMAIN (s \o u)
        PROVE  (s \o u)[i] \in ToSet(s) \cup ToSet(u)
    BY <1>1 DEF ToSet
  <2>2. ASSUME NEW i \in DOMAIN s
        PROVE  s[i] \in ToSet(s \o u)
    BY <1>2 DEF ToSet
  <2>3. ASSUME NEW i \in DOMAIN u
        PROVE  u[i] \in ToSet(s \o u)
    BY <1>2 DEF ToSet
  <2> QED
    BY <2>1, <2>2, <2>3 DEF ToSet
<1>4. ASSUME IsInjective(s), IsInjective(u), ToSet(s) \cap ToSet(u) = {},
             NEW i \in DOMAIN (s \o u), NEW j \in DOMAIN (s \o u), (s \o u)[i] = (s \o u)[j]
      PROVE  i = j
  <2>0. \A m \in DOMAIN s, n \in DOMAIN u : s[m] # u[n]
    <3>1. ASSUME NEW m \in DOMAIN s, NEW n \in DOMAIN u, s[m] = u[n]
          PROVE  FALSE
      <4>1. s[m] \in ToSet(s) /\ u[n] \in ToSet(u)
        BY DEF ToSet
      <4> QED
        BY <1>4, <3>1, <4>1
    <3> QED
      BY <3>1
  <2>1. /\ \A m \in DOMAIN s, n \in DOMAIN u : s[m] # u[n]
        /\ \A m, n \in DOMAIN s : s[m] = s[n] => m = n
        /\ \A m, n \in DOMAIN u : u[m] = u[n] => m = n
    BY <1>4, <2>0 DEF IsInjective
  <2>2. \/ i \in DOMAIN s /\ (s \o u)[i] = s[i]
        \/ i - Len(s) \in DOMAIN u /\ (s \o u)[i] = u[i - Len(s)]
    BY <1>1
  <2>3. \/ j \in DOMAIN s /\ (s \o u)[j] = s[j]
        \/ j - Len(s) \in DOMAIN u /\ (s \o u)[j] = u[j - Len(s)]
    BY <1>1
  <2>4. (i \in DOMAIN s /\ j \in DOMAIN s)
            \/ (i - Len(s) \in DOMAIN u /\ j - Len(s) \in DOMAIN u)
    BY <1>4, <2>1, <2>2, <2>3
  <2>5. CASE i \in DOMAIN s /\ j \in DOMAIN s
    BY <1>2, <1>4, <2>1, <2>5
  <2>6. CASE i - Len(s) \in DOMAIN u /\ j - Len(s) \in DOMAIN u
    <3>1. (s \o u)[i] = u[i - Len(s)] /\ (s \o u)[j] = u[j - Len(s)]
      BY <2>6
    <3>2. i - Len(s) = j - Len(s)
      BY <1>4, <2>1, <2>6, <3>1
    <3> QED
      BY <3>2
  <2> QED
    BY <2>4, <2>5, <2>6
<1> QED
  BY <1>3, <1>4 DEF IsInjective

\* An ordering of a finite set is a sequence without repetitions.
LEMMA OrderingOf ==
    ASSUME NEW S, IsFiniteSet(S), NEW s \in SetToSeqs(S)
    PROVE  s \in Seq(S) /\ ToSet(s) \subseteq S /\ IsInjective(s)
<1>1. Cardinality(S) \in Nat
  BY FS_CardinalityType
<1>2. s \in [1..Cardinality(S) -> S]
  BY DEF SetToSeqs
<1> QED
  BY <1>1, <1>2 DEF SetToSeqs, ToSet, IsInjective

\* Finitely many connections have finitely many tasks.
LEMMA TasksFinite == IsFiniteSet(Tasks)
<1> DEFINE ops == {"ADD", "IN", "OUT"}
           f == [p \in ops \X Conns |-> Task(p[1], p[2])]
<1>1. IsFiniteSet(ops)
  <2>1. IsFiniteSet({"ADD"} \cup {"IN"})
    BY FS_Singleton, FS_AddElement
  <2>2. IsFiniteSet(({"ADD"} \cup {"IN"}) \cup {"OUT"})
    BY <2>1, FS_AddElement
  <2>3. ops = ({"ADD"} \cup {"IN"}) \cup {"OUT"}
    OBVIOUS
  <2> HIDE DEF ops
  <2> QED
    BY <2>2, <2>3
<1>2. IsFiniteSet(ops \X Conns)
  BY <1>1, ServerAssumption, FS_Product
<1>3. f \in Surjection(ops \X Conns, Tasks)
  <2>1. \A p \in ops \X Conns : f[p] \in Tasks
    BY DEF Task, Tasks
  <2>2. ASSUME NEW task \in Tasks
        PROVE  \E p \in ops \X Conns : f[p] = task
    <3>1. <<task.op, task.conn>> \in ops \X Conns
      BY DEF Tasks
    <3>2. f[<<task.op, task.conn>>] = Task(task.op, task.conn)
      BY <3>1
    <3>3. Task(task.op, task.conn) = task
      BY DEF Task, Tasks
    <3> QED
      BY <3>1, <3>2, <3>3
  <2> QED
    BY <2>1, <2>2 DEF Surjection
<1> QED
  BY <1>2, <1>3, FS_Surjection
-----------------------------------------------------------------------------
(* The types *)

\* getIOThread() returns a thread of the pool.
LEMMA NextIndexType == TypeOK => NextIndex \in IOThreads
BY ServerAssumption DEF TypeOK, NextIndex, IOThreads

\* A task made for a connection is a task.
LEMMA TaskType == \A op \in {"ADD", "IN", "OUT"}, c \in Conns : Task(op, c) \in Tasks
BY DEF Task, Tasks

\* The handlers a poll queues form a sequence of tasks without repetitions, of
\* fds that epoll knew for this thread and none of them a registration.
LEMMA HandlersType ==
    ASSUME TypeOK, NEW t \in IOThreads, NEW some \in Returned(t),
           NEW new \in SetToSeqs(Handlers(some))
    PROVE  /\ new \in Seq(Tasks) /\ IsInjective(new) /\ some \in SUBSET Conns
           /\ \A h \in ToSet(new) :
                 h.op # "ADD" /\ h \in Tasks /\ h.conn \in listenFds /\ owner[h.conn] = t
<1>1. Handlers(some) \subseteq Tasks /\ IsFiniteSet(Handlers(some))
  <2>1. Handlers(some) \in SUBSET Tasks
    BY DEF Handlers
  <2> QED
    BY <2>1, TasksFinite, FS_Subset
<1>2. new \in Seq(Handlers(some)) /\ ToSet(new) \subseteq Handlers(some) /\ IsInjective(new)
  BY <1>1, OrderingOf
<1>3. new \in Seq(Tasks)
  BY <1>1, <1>2
<1>4. some \subseteq listenFds /\ \A c \in some : owner[c] = t
  BY DEF Returned
<1>5. \A h \in Handlers(some) : h.op # "ADD" /\ h \in Tasks /\ h.conn \in some
  BY DEF Handlers, Reported
<1> QED
  BY <1>2, <1>3, <1>4, <1>5 DEF TypeOK

\* The initial state is well typed.
LEMMA ServerInitType == Init => TypeOK
<1> SUFFICES ASSUME Init PROVE TypeOK
  OBVIOUS
<1>1. queue \in [IOThreads -> Seq(Tasks)] /\ batch \in [IOThreads -> Seq(Tasks)]
  BY DEF Init
<1>2. index \in 0..PoolSize /\ owner \in [Conns -> 0..PoolSize]
  BY ServerAssumption DEF Init
<1> QED
  BY <1>1, <1>2 DEF Init, TypeOK

\* A step of the main thread keeps the types.
LEMMA MainType == ASSUME TypeOK, Main PROVE TypeOK'
<1>1. ASSUME NEW c \in Conns, Accept(c) PROVE TypeOK'
  <2>1. NextIndex \in IOThreads /\ NextIndex \in 0..PoolSize /\ NextIndex + 1 \in 0..PoolSize
    BY NextIndexType, ServerAssumption DEF IOThreads
  <2>2. Append(queue[NextIndex], Task("ADD", c)) \in Seq(Tasks)
    BY <2>1, TaskType DEF TypeOK
  <2>3. queue' \in [IOThreads -> Seq(Tasks)]
    BY <1>1, <2>1, <2>2 DEF Accept, TypeOK
  <2> HIDE DEF NextIndex
  <2> QED
    BY <1>1, <2>1, <2>3 DEF Accept, TypeOK, peerVars
<1>2. CASE SetConnected
  BY <1>2 DEF SetConnected, TypeOK, fdVars, loopVars, peerVars
<1>3. CASE Insert
  BY <1>3 DEF Insert, TypeOK, fdVars, loopVars, peerVars
<1>4. CASE ClearStart \/ ClearEnd
  BY <1>4 DEF ClearStart, ClearEnd, TypeOK, fdVars, loopVars, peerVars
<1>5. CASE ClearOne
  BY <1>5 DEF ClearOne, TypeOK, fdVars, loopVars, peerVars
<1> QED
  BY <1>1, <1>2, <1>3, <1>4, <1>5 DEF Main

\* What a task of an IO thread may change keeps its type.
LEMMA HandlerType ==
    ASSUME TypeOK, NEW c \in Conns,
           \/ AddToEpoll(c, mask[c]) /\ UNCHANGED <<mask, state, outBuffer, inbox>>
           \/ OnRead(c) \/ OnWrite(c)
    PROVE  /\ state' \in [Conns -> {"Unborn", "NotConnected", "Connected", "Closed", "Destroyed"}]
           /\ mask' \in [Conns -> SUBSET {"IN", "OUT"}]
           /\ interest' \in [Conns -> SUBSET {"IN", "OUT"}]
           /\ listenFds' \in SUBSET Conns /\ outBuffer' \in [Conns -> BOOLEAN]
           /\ inbox' \in [Conns -> Nat]
<1>1. CASE AddToEpoll(c, mask[c]) /\ UNCHANGED <<mask, state, outBuffer, inbox>>
  BY <1>1 DEF AddToEpoll, TypeOK
<1>2. CASE Excute(c)
  BY <1>2 DEF Excute, Listen, AddToEpoll, TypeOK
<1>3. CASE Clear(c)
  BY <1>3 DEF Clear, DelFromEpoll, TypeOK
<1>4. CASE Listen(c, mask[c] \ {"OUT"}) /\ UNCHANGED <<state, outBuffer, inbox>>
  BY <1>4 DEF Listen, AddToEpoll, TypeOK
<1>5. CASE UNCHANGED <<state, fdVars, outBuffer, inbox>>
  BY <1>5 DEF fdVars, TypeOK
<1> QED
  BY <1>1, <1>2, <1>3, <1>4, <1>5 DEF OnRead, Readable, OnWrite, Writable

\* A step of an IO thread keeps the types.
LEMMA IOThreadType == ASSUME TypeOK, NEW t \in IOThreads, Loop(t) PROVE TypeOK'
<1>1. CASE Swap(t)
  <2>1. batch' \in [IOThreads -> Seq(Tasks)] /\ queue' \in [IOThreads -> Seq(Tasks)]
    BY <1>1 DEF Swap, TypeOK
  <2> QED
    BY <1>1, <2>1 DEF Swap, TypeOK, mainVars, fdVars, peerVars
<1>2. CASE Run(t)
  <2>1. batch[t] \in Seq(Tasks) /\ batch[t] # <<>>
    BY <1>2 DEF Run, TypeOK
  <2>2. Head(batch[t]) \in Tasks /\ Tail(batch[t]) \in Seq(Tasks)
    BY <2>1, TailOfDistinct
  <2>3. Head(batch[t]).conn \in Conns
    BY <2>2 DEF Tasks
  <2>4. batch' \in [IOThreads -> Seq(Tasks)]
    BY <1>2, <2>2 DEF Run, TypeOK
  <2>5. fate' \in {"running", "killed", "dangling"}
    BY <1>2 DEF Run, Fate, TypeOK
  <2> QED
    BY <1>2, <2>3, <2>4, <2>5, HandlerType DEF Run, TypeOK, mainVars
<1>3. CASE Poll(t)
  <2>0. PICK some \in Returned(t) :
            /\ \E new \in SetToSeqs(Handlers(some)) : queue' = [queue EXCEPT ![t] = @ \o new]
            /\ \E failed \in SUBSET some :
                  /\ listenFds' = listenFds \ failed
                  /\ interest' = [c \in Conns |-> IF c \in failed THEN {} ELSE interest[c]]
    BY <1>3 DEF Poll
  <2>1. PICK new \in SetToSeqs(Handlers(some)) : queue' = [queue EXCEPT ![t] = @ \o new]
    BY <2>0
  <2>2. new \in Seq(Tasks)
    BY HandlersType
  <2>3. queue' \in [IOThreads -> Seq(Tasks)]
    BY <2>1, <2>2 DEF TypeOK
  <2>4. interest' \in [Conns -> SUBSET {"IN", "OUT"}] /\ listenFds' \in SUBSET Conns
    BY <2>0 DEF TypeOK
  <2> QED
    BY <1>3, <2>3, <2>4 DEF Poll, TypeOK, mainVars, peerVars
<1> QED
  BY <1>1, <1>2, <1>3 DEF Loop

\* Every step keeps the types.
LEMMA ServerTypeInductive == TypeOK /\ [Next]_vars => TypeOK'
<1> SUFFICES ASSUME TypeOK, [Next]_vars PROVE TypeOK'
  OBVIOUS
<1>1. ASSUME NEW c \in Conns, Peer(c) PROVE TypeOK'
  <2>1. /\ peer' \in [Conns -> {"away", "open", "closed", "reset"}]
        /\ inbox' \in [Conns -> Nat] /\ sent' \in [Conns -> Nat]
    <3>1. CASE Connect(c)
      BY <3>1 DEF Connect, TypeOK
    <3>2. CASE Send(c)
      BY <3>2 DEF Send, TypeOK
    <3>3. CASE Leave(c)
      BY <3>3 DEF Leave, TypeOK
    <3> QED
      BY <1>1, <3>1, <3>2, <3>3 DEF Peer
  <2> QED
    BY <1>1, <2>1 DEF Peer, TypeOK, mainVars, fdVars, loopVars
<1>2. CASE UNCHANGED vars
  BY <1>2 DEF vars, TypeOK, mainVars, fdVars, loopVars, peerVars
<1> QED
  BY <1>1, <1>2, MainType, IOThreadType DEF Next

\* Every variable of the server has its type, for any pool and any clients.
THEOREM ServerTypeCorrect == Spec => []TypeOK
BY ServerInitType, ServerTypeInductive, PTL DEF Spec
-----------------------------------------------------------------------------
(* The invariant *)

\* The tasks that thread t has still to run.
Held(t) == ToSet(batch[t]) \cup ToSet(queue[t])

\* Where tasks are: in the loop of the connection's thread, each at most once.
\* Handlers are queued at the end of an iteration only, when those of the
\* epoll_wait before have run.
TasksInPlace ==
    \A t \in IOThreads :
        /\ \A task \in Held(t) : owner[task.conn] = t /\ state[task.conn] # "Unborn"
        /\ IsInjective(batch[t]) /\ IsInjective(queue[t])
        /\ ToSet(batch[t]) \cap ToSet(queue[t]) = {}
        /\ running[t] => \A task \in ToSet(queue[t]) : task.op = "ADD"
        /\ ~running[t] => batch[t] = <<>>

\* A connection is not known to epoll, and has no handler, before its
\* registration has run.
RegisteredFirst ==
    \A c \in Conns :
        c \in listenFds \/ Queued("IN", c) \/ Queued("OUT", c) =>
            state[c] # "Unborn" /\ ~Queued("ADD", c)

\* The connection that onAccept is about to set Connected has seen no handler.
Constructed == mainPc = "constructed" => \A c \in current : state[c] = "NotConnected"

\* An open connection listens for reads.
Listens == \A c \in Conns : state[c] \in {"NotConnected", "Connected"} => "IN" \in mask[c]

ServerInv ==
    /\ TypeOK /\ TasksInPlace /\ RegisteredFirst /\ Constructed /\ Listens
    /\ ClosedIsForgotten /\ OpenIsWatched

\* It holds initially: nothing is queued and no connection is born.
LEMMA ServerInit == Init => ServerInv
<1> SUFFICES ASSUME Init PROVE ServerInv
  OBVIOUS
<1>1. \A t \in IOThreads : batch[t] = <<>> /\ queue[t] = <<>> /\ Held(t) = {}
  BY NoneInEmpty DEF Init, Held
<1>2. TasksInPlace
  BY <1>1, NoneInEmpty DEF TasksInPlace, Init
<1>3. \A op \in {"ADD", "IN", "OUT"}, c \in Conns : ~Queued(op, c)
  BY <1>1 DEF Queued, Held
<1> QED
  BY <1>2, <1>3, ServerInitType DEF Init, ServerInv, RegisteredFirst, Constructed, Listens,
     ClosedIsForgotten, OpenIsWatched

\* What a step that leaves the loops' tasks alone leaves alone.
LEMMA HeldUnchanged ==
    ASSUME UNCHANGED <<batch, queue>>
    PROVE  /\ \A t \in IOThreads : Held(t)' = Held(t)
           /\ \A op \in {"ADD", "IN", "OUT"}, c \in Conns : Queued(op, c)' = Queued(op, c)
BY DEF Held, Queued
\* Queued is about what the threads hold, which are tasks of connections.
LEMMA HeldTasks ==
    /\ \A op \in {"ADD", "IN", "OUT"}, c \in Conns :
          Queued(op, c) <=> \E t \in IOThreads : Task(op, c) \in Held(t)
    /\ TypeOK => \A t \in IOThreads : \A task \in Held(t) :
          /\ task.conn \in Conns /\ task.op \in {"ADD", "IN", "OUT"}
          /\ task = Task(task.op, task.conn)
<1>1. ASSUME TypeOK, NEW t \in IOThreads, NEW task \in Held(t)
      PROVE  task \in Tasks
  <2>1. batch[t] \in Seq(Tasks) /\ queue[t] \in Seq(Tasks)
    BY <1>1 DEF TypeOK
  <2> QED
    BY <1>1, <2>1 DEF Held, ToSet
<1>2. \A task \in Tasks : /\ task.conn \in Conns /\ task.op \in {"ADD", "IN", "OUT"}
                          /\ task = Task(task.op, task.conn)
  BY DEF Tasks, Task
<1> QED
  BY <1>1, <1>2 DEF Queued, Held

\* onAccept's constructor: the connection was unknown to every loop, and its
\* registration is the first task of it.
LEMMA AcceptKeeps ==
    ASSUME ServerInv, TypeOK', NEW c \in Conns, Accept(c)
    PROVE  ServerInv'
<1> DEFINE add == Task("ADD", c)
<1>0. PICK n \in IOThreads : n = NextIndex
  BY NextIndexType DEF ServerInv
<1>1. add \in Tasks /\ add.conn = c /\ add.op = "ADD"
  BY TaskType DEF Task
<1>2. \A t \in IOThreads : \A task \in Held(t) : task.conn # c
  BY DEF ServerInv, TasksInPlace, Accept
<1>3. /\ c \notin listenFds
      /\ \A op \in {"ADD", "IN", "OUT"} : ~Queued(op, c)
  BY <1>2 DEF ServerInv, RegisteredFirst, Accept, Queued, Held, Task
<1>4. batch' = batch /\ queue' = [queue EXCEPT ![n] = Append(@, add)]
  BY <1>0 DEF Accept
<1>5. /\ queue'[n] = Append(queue[n], add)
      /\ \A t \in IOThreads : t # n => queue'[t] = queue[t]
  BY <1>1, <1>4 DEF ServerInv, TypeOK
<1>6. /\ ToSet(queue'[n]) = ToSet(queue[n]) \cup {add} /\ IsInjective(queue'[n])
      /\ add \notin ToSet(batch[n])
  <2>1. queue[n] \in Seq(Tasks) /\ IsInjective(queue[n])
    BY <1>1 DEF ServerInv, TypeOK, TasksInPlace
  <2>2. add \notin ToSet(queue[n]) /\ add \notin ToSet(batch[n])
    BY <1>1, <1>2 DEF Held
  <2> QED
    BY <1>1, <1>5, <2>1, <2>2, AppendDistinct
<1>7. /\ Held(n)' = Held(n) \cup {add}
      /\ \A t \in IOThreads : t # n => Held(t)' = Held(t)
  BY <1>1, <1>4, <1>5, <1>6 DEF Held
<1>8. /\ owner'[c] = n /\ state'[c] = "NotConnected" /\ mask'[c] = {"IN"}
      /\ \A d \in Conns : d # c => /\ owner'[d] = owner[d] /\ state'[d] = state[d]
                                   /\ mask'[d] = mask[d]
      /\ UNCHANGED <<listenFds, interest, running, peer>>
      /\ mainPc' = "constructed" /\ current' = {c}
  BY <1>0 DEF Accept, ServerInv, TypeOK, peerVars
<1>9. \A op \in {"ADD", "IN", "OUT"}, d \in Conns :
          Queued(op, d)' <=> Queued(op, d) \/ (op = "ADD" /\ d = c)
  <2>1. \A op \in {"ADD", "IN", "OUT"}, d \in Conns : Task(op, d) = add <=> op = "ADD" /\ d = c
    BY DEF Task
  <2>2. ASSUME NEW op \in {"ADD", "IN", "OUT"}, NEW d \in Conns
        PROVE  Queued(op, d)' <=> \E t \in IOThreads : Task(op, d) \in Held(t)'
    BY DEF Queued, Held
  <2> HIDE DEF add
  <2> QED
    BY <1>7, <2>1, <2>2, HeldTasks
<1> HIDE DEF add
<1>10. TasksInPlace'
  <2> SUFFICES ASSUME NEW t \in IOThreads
               PROVE  /\ \A task \in Held(t)' : owner'[task.conn] = t
                                                /\ state'[task.conn] # "Unborn"
                      /\ IsInjective(batch'[t]) /\ IsInjective(queue'[t])
                      /\ ToSet(batch'[t]) \cap ToSet(queue'[t]) = {}
                      /\ running'[t] => \A task \in ToSet(queue'[t]) : task.op = "ADD"
                      /\ ~running'[t] => batch'[t] = <<>>
    BY DEF TasksInPlace
  <2>1. \A task \in Held(t)' : owner'[task.conn] = t /\ state'[task.conn] # "Unborn"
    <3>1. \A task \in Held(t) : task.conn \in Conns \ {c} /\ owner[task.conn] = t
                                /\ state[task.conn] # "Unborn"
      BY <1>2, HeldTasks DEF ServerInv, TasksInPlace
    <3>2. \A task \in Held(t)' : task \in Held(t) \/ (t = n /\ task.conn = c)
      BY <1>1, <1>7
    <3> QED
      BY <1>8, <3>1, <3>2
  <2> QED
    BY <1>1, <1>4, <1>5, <1>6, <1>8, <2>1 DEF ServerInv, TasksInPlace
<1>11. RegisteredFirst' /\ Constructed' /\ Listens'
  BY <1>3, <1>8, <1>9 DEF ServerInv, RegisteredFirst, Constructed, Listens
<1>12. ClosedIsForgotten' /\ OpenIsWatched'
  BY <1>8, <1>9 DEF ServerInv, ClosedIsForgotten, OpenIsWatched
<1> QED
  BY <1>10, <1>11, <1>12 DEF ServerInv
\* The rest of the main thread: a connection becomes Connected once, before
\* anything can close it, and only a closed one is destroyed.
LEMMA MainKeeps ==
    ASSUME ServerInv, TypeOK', Main
    PROVE  ServerInv'
<1>1. CASE \E c \in Conns : Accept(c)
  BY <1>1, AcceptKeeps
<1>2. CASE SetConnected \/ Insert \/ ClearStart \/ ClearOne \/ ClearEnd
  <2>1. UNCHANGED <<owner, fdVars, loopVars, peer>>
    BY <1>2 DEF SetConnected, Insert, ClearStart, ClearOne, ClearEnd, peerVars
  <2>2. \A c \in Conns :
            \/ state'[c] = state[c]
            \/ state[c] = "NotConnected" /\ state'[c] = "Connected"
            \/ state[c] = "Closed" /\ state'[c] = "Destroyed"
    BY <1>2, SMTT(60) DEF SetConnected, Insert, ClearStart, ClearOne, ClearEnd, ServerInv, TypeOK,
       Constructed
  <2>3. /\ \A t \in IOThreads : Held(t)' = Held(t)
        /\ \A op \in {"ADD", "IN", "OUT"}, c \in Conns : Queued(op, c)' = Queued(op, c)
    BY <2>1, HeldUnchanged DEF loopVars
  <2>4. TasksInPlace'
    BY <2>1, <2>2, <2>3, HeldTasks DEF ServerInv, TasksInPlace, loopVars
  <2>5. Constructed'
    BY <1>2 DEF SetConnected, Insert, ClearStart, ClearOne, ClearEnd, ServerInv, Constructed
  <2>6. RegisteredFirst' /\ Listens'
    BY <2>1, <2>2, <2>3 DEF ServerInv, RegisteredFirst, Listens, fdVars
  <2>7. ClosedIsForgotten' /\ OpenIsWatched'
    BY <2>1, <2>2, <2>3 DEF ServerInv, ClosedIsForgotten, OpenIsWatched, fdVars
  <2> QED
    BY <2>4, <2>5, <2>6, <2>7 DEF ServerInv
<1> QED
  BY <1>1, <1>2 DEF Main

\* A peer that resets its connection gives up being watched; nothing else of
\* the invariant is about the peers.
LEMMA PeerKeeps ==
    ASSUME ServerInv, TypeOK', NEW c \in Conns, Peer(c)
    PROVE  ServerInv'
<1>1. UNCHANGED <<mainVars, state, fdVars, loopVars>>
  BY DEF Peer
<1>2. \A d \in Conns : peer'[d] # "reset" => peer[d] # "reset"
  BY DEF Peer, Connect, Send, Leave, ServerInv, TypeOK
<1>3. /\ \A t \in IOThreads : Held(t)' = Held(t)
      /\ \A op \in {"ADD", "IN", "OUT"}, d \in Conns : Queued(op, d)' = Queued(op, d)
  BY <1>1, HeldUnchanged DEF loopVars
<1>4. TasksInPlace' /\ Constructed'
  BY <1>1, <1>3 DEF ServerInv, TasksInPlace, Constructed, mainVars, loopVars
<1>5. RegisteredFirst' /\ Listens'
  BY <1>1, <1>3 DEF ServerInv, RegisteredFirst, Listens, fdVars
<1>6. ClosedIsForgotten' /\ OpenIsWatched'
  BY <1>1, <1>2, <1>3 DEF ServerInv, ClosedIsForgotten, OpenIsWatched, fdVars
<1> QED
  BY <1>4, <1>5, <1>6 DEF ServerInv

\* The swap moves the tasks of a thread.
LEMMA SwapKeeps ==
    ASSUME ServerInv, TypeOK', NEW t \in IOThreads, Swap(t)
    PROVE  ServerInv'
<1>1. /\ batch[t] = <<>> /\ batch'[t] = queue[t] /\ queue'[t] = <<>> /\ running'[t]
      /\ \A u \in IOThreads : u # t => /\ batch'[u] = batch[u] /\ queue'[u] = queue[u]
                                       /\ running'[u] = running[u]
  BY DEF Swap, ServerInv, TypeOK, TasksInPlace
<1>2. \A u \in IOThreads : Held(u)' = Held(u)
  BY <1>1, NoneInEmpty DEF Held
<1>3. \A op \in {"ADD", "IN", "OUT"}, c \in Conns : Queued(op, c)' = Queued(op, c)
  <2> SUFFICES ASSUME NEW op \in {"ADD", "IN", "OUT"}, NEW c \in Conns
               PROVE  Queued(op, c)' = Queued(op, c)
    OBVIOUS
  <2>1. Queued(op, c)' <=> \E u \in IOThreads : Task(op, c) \in Held(u)'
    BY DEF Queued, Held
  <2> QED
    BY <1>2, <2>1, HeldTasks DEF Queued
<1>4. TasksInPlace'
  BY <1>1, <1>2, NoneInEmpty DEF Swap, ServerInv, TasksInPlace, mainVars
<1>5. RegisteredFirst' /\ Listens' /\ Constructed'
  BY <1>3 DEF Swap, ServerInv, RegisteredFirst, Listens, Constructed, fdVars, mainVars
<1>6. ClosedIsForgotten' /\ OpenIsWatched'
  BY <1>3 DEF Swap, ServerInv, ClosedIsForgotten, OpenIsWatched, fdVars, peerVars
<1> QED
  BY <1>4, <1>5, <1>6 DEF ServerInv
\* The task that thread t is about to run is taken from what it holds, and with
\* it the last task of its kind for the connection.
LEMMA TaskTaken ==
    ASSUME ServerInv, NEW t \in IOThreads, Run(t)
    PROVE  /\ Head(batch[t]) \in Held(t)
           /\ Held(t)' = Held(t) \ {Head(batch[t])}
           /\ \A u \in IOThreads : u # t => Held(u)' = Held(u)
           /\ \A op \in {"ADD", "IN", "OUT"}, c \in Conns :
                 Queued(op, c)' <=> Queued(op, c) /\ Task(op, c) # Head(batch[t])
           /\ batch'[t] = Tail(batch[t])
           /\ IsInjective(batch'[t]) /\ ToSet(batch'[t]) \subseteq ToSet(batch[t])
<1> DEFINE h == Head(batch[t])
<1>1. /\ batch[t] \in Seq(Tasks) /\ batch[t] # <<>> /\ IsInjective(batch[t])
      /\ ToSet(batch[t]) \cap ToSet(queue[t]) = {}
      /\ \A u \in IOThreads : \A task \in Held(u) : owner[task.conn] = u
  BY DEF Run, ServerInv, TypeOK, TasksInPlace
<1>2. /\ queue' = queue /\ batch'[t] = Tail(batch[t])
      /\ \A u \in IOThreads : u # t => batch'[u] = batch[u]
  BY DEF Run, ServerInv, TypeOK
<1>3. /\ ToSet(batch[t]) = ToSet(Tail(batch[t])) \cup {h} /\ h \notin ToSet(Tail(batch[t]))
      /\ IsInjective(Tail(batch[t]))
  BY <1>1, TailOfDistinct
<1>4. h \in Held(t) /\ Held(t)' = Held(t) \ {h}
      /\ \A u \in IOThreads : u # t => Held(u)' = Held(u)
  BY <1>1, <1>2, <1>3 DEF Held
<1>5. ASSUME NEW op \in {"ADD", "IN", "OUT"}, NEW c \in Conns
      PROVE  Queued(op, c)' <=> Queued(op, c) /\ Task(op, c) # h
  <2>1. Queued(op, c)' <=> \E u \in IOThreads : Task(op, c) \in Held(u)'
    BY DEF Queued, Held
  <2>2. \A u \in IOThreads : h \in Held(u) => u = t
    BY <1>1, <1>4
  <2> HIDE DEF h
  <2> QED
    BY <1>4, <2>1, <2>2, HeldTasks
<1> QED
  BY <1>2, <1>3, <1>4, <1>5

\* What the task may do: it is about its connection c only, which it registers,
\* leaves alone, listens for, or closes.
LEMMA RunEffect ==
    ASSUME ServerInv, NEW t \in IOThreads, Run(t),
           NEW op \in {"ADD", "IN", "OUT"}, NEW c \in Conns, Head(batch[t]) = Task(op, c)
    PROVE  /\ \A d \in Conns \ {c} :
                 /\ state'[d] = state[d] /\ mask'[d] = mask[d] /\ interest'[d] = interest[d]
                 /\ d \in listenFds' <=> d \in listenFds
           /\ \/ /\ op = "ADD" /\ c \in listenFds' /\ interest'[c] = mask[c]
                 /\ UNCHANGED <<mask, state>>
              \/ op # "ADD" /\ UNCHANGED <<state, fdVars>>
              \/ /\ op # "ADD" /\ state[c] = "Connected" /\ UNCHANGED state
                 /\ c \in listenFds' /\ interest'[c] = mask'[c]
                 /\ "IN" \in mask[c] => "IN" \in mask'[c]
              \/ /\ op = "IN" /\ state[c] = "Connected" /\ state'[c] = "Closed"
                 /\ c \notin listenFds'
<1>1. /\ op = "ADD" => AddToEpoll(c, mask[c]) /\ UNCHANGED <<mask, state>>
      /\ op = "IN" => OnRead(c)
      /\ op = "OUT" => OnWrite(c)
  BY DEF Run, Task
<1>2. CASE op = "ADD"
  BY <1>1, <1>2 DEF AddToEpoll, ServerInv, TypeOK
<1>3. CASE op # "ADD" /\ UNCHANGED <<state, fdVars>>
  BY <1>3 DEF fdVars
<1>4. CASE op = "IN" /\ state[c] = "Connected" /\ Excute(c)
  BY <1>4 DEF Excute, Listen, AddToEpoll, ServerInv, TypeOK
<1>5. CASE op = "IN" /\ state[c] = "Connected" /\ Clear(c)
  BY <1>5 DEF Clear, DelFromEpoll, ServerInv, TypeOK
<1>6. CASE op = "OUT" /\ state[c] = "Connected" /\ Listen(c, mask[c] \ {"OUT"}) /\ UNCHANGED state
  BY <1>6 DEF Listen, AddToEpoll, ServerInv, TypeOK
<1>7. op = "IN" => <1>3!1 \/ <1>4!1 \/ <1>5!1
  BY <1>1 DEF OnRead, Readable
<1>8. op = "OUT" => <1>3!1 \/ <1>6!1
  BY <1>1 DEF OnWrite, Writable
<1> QED
  BY <1>2, <1>3, <1>4, <1>5, <1>6, <1>7, <1>8
\* A handler or a registration keeps the invariant: the handlers of c come after
\* its registration, and the one that closes c is the last of its reads.
LEMMA RunKeeps ==
    ASSUME ServerInv, TypeOK', NEW t \in IOThreads, Run(t)
    PROVE  ServerInv'
<1>1. Head(batch[t]) \in Held(t)
  BY TaskTaken
<1>2. PICK op \in {"ADD", "IN", "OUT"}, c \in Conns : Head(batch[t]) = Task(op, c)
  BY <1>1, HeldTasks DEF ServerInv
<1> DEFINE h == Task(op, c)
<1>3. /\ Held(t)' = Held(t) \ {h}
      /\ \A u \in IOThreads : u # t => Held(u)' = Held(u)
      /\ \A o \in {"ADD", "IN", "OUT"}, d \in Conns :
            Queued(o, d)' <=> Queued(o, d) /\ ~(o = op /\ d = c)
      /\ batch'[t] = Tail(batch[t])
      /\ IsInjective(batch'[t]) /\ ToSet(batch'[t]) \subseteq ToSet(batch[t])
  <2>1. \A o \in {"ADD", "IN", "OUT"}, d \in Conns : Task(o, d) = h <=> o = op /\ d = c
    BY DEF Task
  <2> HIDE DEF h
  <2> QED
    BY <1>2, <2>1, TaskTaken DEF h
<1>4. /\ \A d \in Conns \ {c} :
            /\ state'[d] = state[d] /\ mask'[d] = mask[d] /\ interest'[d] = interest[d]
            /\ d \in listenFds' <=> d \in listenFds
      /\ \/ /\ op = "ADD" /\ c \in listenFds' /\ interest'[c] = mask[c]
            /\ UNCHANGED <<mask, state>>
         \/ op # "ADD" /\ UNCHANGED <<state, fdVars>>
         \/ /\ op # "ADD" /\ state[c] = "Connected" /\ UNCHANGED state
            /\ c \in listenFds' /\ interest'[c] = mask'[c]
            /\ "IN" \in mask[c] => "IN" \in mask'[c]
         \/ /\ op = "IN" /\ state[c] = "Connected" /\ state'[c] = "Closed"
            /\ c \notin listenFds'
  BY <1>2, RunEffect
<1>5. /\ UNCHANGED <<owner, current, mainPc, peer, running, queue>>
      /\ running[t] /\ \A u \in IOThreads : u # t => batch'[u] = batch[u]
  BY DEF Run, mainVars, ServerInv, TypeOK
<1>6. state[c] # "Unborn" /\ Queued(op, c) /\ (op # "ADD" => ~Queued("ADD", c))
  <2>1. h.conn = c
    BY DEF Task
  <2>2. state[c] # "Unborn" /\ Queued(op, c)
    BY <1>1, <1>2, <2>1, HeldTasks DEF ServerInv, TasksInPlace
  <2> QED
    BY <2>2 DEF ServerInv, RegisteredFirst
<1>7. \A d \in Conns : state'[d] # state[d] => state'[d] = "Closed" /\ state[d] = "Connected"
  BY <1>4
<1>8. TasksInPlace'
  <2>1. \A u \in IOThreads : \A task \in Held(u)' :
            owner'[task.conn] = u /\ state'[task.conn] # "Unborn"
    BY <1>3, <1>5, <1>7, HeldTasks DEF ServerInv, TasksInPlace
  <2> QED
    BY <1>3, <1>5, <2>1 DEF ServerInv, TasksInPlace
<1>9. RegisteredFirst'
  BY <1>3, <1>4, <1>6 DEF ServerInv, RegisteredFirst, fdVars
<1>10. Constructed' /\ Listens'
  BY <1>4, <1>5, <1>7 DEF ServerInv, Constructed, Listens, TypeOK, fdVars
<1>11. ClosedIsForgotten'
  BY <1>3, <1>4, <1>6 DEF ServerInv, ClosedIsForgotten, fdVars
<1>12. OpenIsWatched'
  BY <1>3, <1>4, <1>5, <1>6 DEF ServerInv, OpenIsWatched, Listens, fdVars
<1> QED
  BY <1>8, <1>9, <1>10, <1>11, <1>12 DEF ServerInv

\* The handlers of one epoll_wait are queued once the batch is done: for fds
\* that are registered, and behind registrations of others only.
LEMMA PollKeeps ==
    ASSUME ServerInv, TypeOK', NEW t \in IOThreads, Poll(t)
    PROVE  ServerInv'
<1>1. PICK some \in Returned(t) :
          /\ \E new \in SetToSeqs(Handlers(some)) : queue' = [queue EXCEPT ![t] = @ \o new]
          /\ listenFds' = listenFds \ {c \in some : "ERR" \in Reported(c)}
          /\ interest' = [c \in Conns |-> IF c \in {d \in some : "ERR" \in Reported(d)}
                                          THEN {} ELSE interest[c]]
  BY DEF Poll
<1>2. PICK new \in SetToSeqs(Handlers(some)) : queue' = [queue EXCEPT ![t] = @ \o new]
  BY <1>1
<1>3. /\ new \in Seq(Tasks) /\ IsInjective(new) /\ some \in SUBSET Conns
      /\ \A h \in ToSet(new) :
            h.op # "ADD" /\ h \in Tasks /\ h.conn \in listenFds /\ owner[h.conn] = t
  BY HandlersType DEF ServerInv
<1>4. /\ UNCHANGED <<mainVars, state, mask, batch, peer>>
      /\ running[t] /\ batch[t] = <<>> /\ ~running'[t]
      /\ \A u \in IOThreads : u # t => queue'[u] = queue[u] /\ running'[u] = running[u]
  BY <1>2 DEF Poll, ServerInv, TypeOK, peerVars
<1>5. /\ ToSet(queue'[t]) = ToSet(queue[t]) \cup ToSet(new) /\ IsInjective(queue'[t])
      /\ batch'[t] = <<>> /\ ToSet(batch'[t]) = {}
  <2>1. queue[t] \in Seq(Tasks) /\ IsInjective(queue[t]) /\ queue'[t] = queue[t] \o new
    BY <1>2 DEF ServerInv, TypeOK, TasksInPlace
  <2>2. ToSet(queue[t]) \cap ToSet(new) = {}
    BY <1>3, <1>4 DEF ServerInv, TasksInPlace
  <2> QED
    BY <1>3, <1>4, <2>1, <2>2, ConcatDistinct, NoneInEmpty
<1>6. Held(t)' = Held(t) \cup ToSet(new) /\ \A u \in IOThreads : u # t => Held(u)' = Held(u)
  BY <1>4, <1>5 DEF Held
<1>7. ASSUME NEW op \in {"ADD", "IN", "OUT"}, NEW c \in Conns
      PROVE  /\ Queued(op, c) => Queued(op, c)'
             /\ Queued(op, c)' => Queued(op, c) \/ (op # "ADD" /\ c \in listenFds)
  <2>1. Queued(op, c)' <=> \E u \in IOThreads : Task(op, c) \in Held(u)'
    BY DEF Queued, Held
  <2>2. Task(op, c) \in ToSet(new) => op # "ADD" /\ c \in listenFds
    BY <1>3 DEF Task
  <2> QED
    BY <1>6, <2>1, <2>2, HeldTasks
<1>8. TasksInPlace'
  <2>1. \A u \in IOThreads : \A task \in Held(u)' :
            owner'[task.conn] = u /\ state'[task.conn] # "Unborn"
    BY <1>3, <1>4, <1>6 DEF ServerInv, TasksInPlace, RegisteredFirst, mainVars, Tasks
  <2> QED
    BY <1>4, <1>5, <2>1 DEF ServerInv, TasksInPlace
<1>9. RegisteredFirst' /\ ClosedIsForgotten'
  BY <1>1, <1>4, <1>7 DEF ServerInv, RegisteredFirst, ClosedIsForgotten
<1>10. Constructed' /\ Listens'
  BY <1>4 DEF ServerInv, Constructed, Listens, mainVars
<1>11. OpenIsWatched'
  <2>1. \A c \in Conns : "ERR" \in Reported(c) => peer[c] = "reset"
    BY DEF Reported, ServerInv, TypeOK
  <2> QED
    BY <1>1, <1>4, <1>7, <2>1 DEF ServerInv, OpenIsWatched
<1> QED
  BY <1>8, <1>9, <1>10, <1>11 DEF ServerInv

\* Every step of the main thread, the IO threads and the peers keeps it.
LEMMA ServerInvInductive == ServerInv /\ [Next]_vars => ServerInv'
<1> SUFFICES ASSUME ServerInv, [Next]_vars PROVE ServerInv'
  OBVIOUS
<1>1. TypeOK'
  BY ServerTypeInductive DEF ServerInv
<1>2. CASE UNCHANGED vars
  BY <1>2 DEF vars, mainVars, fdVars, loopVars, peerVars, ServerInv, TypeOK, TasksInPlace,
     RegisteredFirst, Constructed, Listens, ClosedIsForgotten, OpenIsWatched, Queued, Held
<1> QED
  BY <1>1, <1>2, MainKeeps, SwapKeeps, RunKeeps, PollKeeps, PeerKeeps DEF Next, Loop

\* The invariant holds in every state of the server.
LEMMA ServerInvariant == Spec => []ServerInv
BY ServerInit, ServerInvInductive, PTL DEF Spec

\* A closed connection is known to no epoll and has no read or registration
\* left, whenever clearClient may come: the write handler of the batch that
\* closed it is the only thing that can still reach it.
THEOREM ClosedConnectionForgotten == Spec => []ClosedIsForgotten
<1>1. ServerInv => ClosedIsForgotten
  BY DEF ServerInv
<1> QED
  BY <1>1, ServerInvariant, PTL

\* From its construction to its close a connection that was not reset is
\* watched for reads, or its registration is queued.
THEOREM OpenConnectionWatched == Spec => []OpenIsWatched
<1>1. ServerInv => OpenIsWatched
  BY DEF ServerInv
<1> QED
  BY <1>1, ServerInvariant, PTL

\* The main thread's setState(Connected) never follows the close of the
\* connection by its IO thread.
THEOREM ClosedStaysClosed == Spec => NeverRevived
<1>1. ServerInv /\ [Next]_vars =>
          [\A c \in Conns : state[c] \in {"Closed", "Destroyed"} =>
              state'[c] \in {"Closed", "Destroyed"}]_vars
  <2> SUFFICES ASSUME ServerInv, Next, NEW c \in Conns, state[c] \in {"Closed", "Destroyed"}
               PROVE  state'[c] \in {"Closed", "Destroyed"}
    OBVIOUS
  <2>1. CASE Main
    BY <2>1 DEF Main, Accept, SetConnected, Insert, ClearStart, ClearOne, ClearEnd, ServerInv,
       TypeOK, Constructed
  <2>2. ASSUME NEW t \in IOThreads, Run(t) PROVE state'[c] \in {"Closed", "Destroyed"}
    <3>1. PICK op \in {"ADD", "IN", "OUT"}, d \in Conns : Head(batch[t]) = Task(op, d)
      BY <2>2, TaskTaken, HeldTasks DEF ServerInv
    <3> QED
      BY <2>2, <3>1, RunEffect
  <2>3. CASE UNCHANGED state
    BY <2>3
  <2> QED
    BY <2>1, <2>2, <2>3 DEF Next, Loop, Swap, Poll, Peer, vars
<1> QED
  BY <1>1, ServerInvariant, PTL DEF Spec, NeverRevived
==============================================================================
