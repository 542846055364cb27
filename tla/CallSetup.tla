----------------------------- MODULE CallSetup -----------------------------
(***************************************************************************)
(* What threads that open connections share: the table of FdEvents of      *)
(* net/fd_event_pool.cc, made at its first use and grown by whichever      *)
(* thread needs it larger, without a lock; and the message ids of          *)
(* common/msg_util.cc, which are each thread's own.                        *)
(*                                                                         *)
(* A client looks its fd up twice, in TcpClient() and in TcpConnection(),  *)
(* and waits for the connection on the one FdEvent and for data on the     *)
(* other; then CallMethod makes an id.  The server's main thread looks     *)
(* every accepted fd up once.  The bodies of the two functions are taken   *)
(* statement by statement.  A vector that grows while another thread reads *)
(* or grows it is undefined behaviour: here the reader may get a wild      *)
(* pointer and a push_back may be lost.                                    *)
(***************************************************************************)
EXTENDS MsgUtil, FiniteSets

CONSTANTS
    Clients,     \* threads that make calls
    Acceptor,    \* the thread that accepts
    PoolSize,    \* the size of a new pool, 128 in the code
    MaxFds       \* bound: descriptors that the process may have

ASSUME SetupAssumption ==
    /\ Acceptor \notin Clients
    /\ PoolSize \in Nat \ {0, 1} /\ MaxFds \in Nat

VARIABLES
    pc,          \* where each thread is
    fd,          \* the descriptor it sets up, -1 being NoFd
    pools,       \* the FdEventPools made so far
    current,     \* g_fd_event_pool, an index of pools or 0
    pool,        \* the pool whose getFdEvent a thread is in
    todo,        \* the i of each thread that grows a pool ...
    newSize,     \* ... and its new_size
    got,         \* the FdEvents a thread has looked up for this connection
    open,        \* the descriptors in use
    id,          \* t_msg_id_no of each thread
    limit,       \* the length of its t_max_msg_id_no
    raced        \* whether a pool grew while another thread was in it

idVars   == <<id, limit>>
poolVars == <<pools, current, raced>>
vars == <<pc, fd, poolVars, pool, todo, newSize, got, open, idVars>>
-----------------------------------------------------------------------------
Threads == Clients \cup {Acceptor}
Fds     == 0..(MaxFds - 1)
NoFd    == MaxFds

\* An FdEvent is known by its place in its pool, which holds its m_fd.
Wild == [pool |-> 0, at |-> 0]

Goto(t, where) == pc' = [pc EXCEPT ![t] = where]

\* The lookups that a connection of t makes.
Lookups(t) == IF t = Acceptor THEN 1 ELSE 2

\* Threads other than t that are in getFdEvent of the same pool.
InPool(t, p)  == {u \in Threads \ {t} : pool[u] = p /\ pc[u] \in {"test", "grow", "return"}}
Growing(t, p) == {u \in InPool(t, p) : pc[u] = "grow"}
-----------------------------------------------------------------------------
\* socket() or accept() gives the lowest free descriptor.  A client that gets
\* none has no connection, and its call fails to connect; the server goes on
\* with -1, and getFdEvent reads in front of its vector.
NewConnection(t) ==
    /\ pc[t] = "idle"
    /\ \/ /\ open = Fds
          /\ Goto(t, IF t = Acceptor THEN "undefined" ELSE "call")
          /\ fd' = [fd EXCEPT ![t] = NoFd]
          /\ UNCHANGED open
       \/ \E new \in Fds \ open :
             /\ \A f \in Fds \ open : new <= f
             /\ Goto(t, "pool")
             /\ fd' = [fd EXCEPT ![t] = new]
             /\ open' = open \cup {new}
    /\ got' = [got EXCEPT ![t] = <<>>]
    /\ UNCHANGED <<poolVars, pool, todo, newSize, idVars>>

\* GetFdEventPool: the pool that is there is taken ...
GetPool(t) ==
    /\ pc[t] = "pool"
    /\ IF current # 0 THEN pool' = [pool EXCEPT ![t] = current] /\ Goto(t, "test")
                      ELSE Goto(t, "create") /\ UNCHANGED pool
    /\ UNCHANGED <<fd, poolVars, todo, newSize, got, open, idVars>>

\* Mutant of CreatePool: the new pool is not kept.
CreateUnkept(t) ==
    /\ pc[t] = "create"
    /\ pools' = Append(pools, [size |-> PoolSize, events |-> [i \in 1..PoolSize |-> i - 1]])
    /\ Goto(t, "pool")
    /\ UNCHANGED <<fd, current, pool, todo, newSize, got, open, raced, idVars>>

\* ... or one is made, by each thread that found none.
CreatePool(t) ==
    /\ pc[t] = "create"
    /\ pools' = Append(pools, [size |-> PoolSize, events |-> [i \in 1..PoolSize |-> i - 1]])
    /\ current' = Len(pools) + 1
    /\ Goto(t, "pool")
    /\ UNCHANGED <<fd, pool, todo, newSize, got, open, raced, idVars>>

\* int new_size = fd * 1.5.  (The mutant has no place for the fd itself.)
NewSizeExact(f) == f
NewSize(f)      == (f * 3) \div 2

\* getFdEvent: the fd is within the size, or the pool grows to 1.5 times the fd.
TestSize(t) ==
    /\ pc[t] = "test"
    /\ IF fd[t] < pools[pool[t]].size
       THEN Goto(t, "return") /\ UNCHANGED <<todo, newSize>>
       ELSE /\ todo' = [todo EXCEPT ![t] = pools[pool[t]].size]
            /\ newSize' = [newSize EXCEPT ![t] = NewSize(fd[t])]
            /\ Goto(t, "grow")
    /\ UNCHANGED <<fd, poolVars, pool, got, open, idVars>>

\* push_back(new FdEvent(i)).
PushEvent(t) ==
    LET p == pool[t] IN
    /\ pc[t] = "grow" /\ todo[t] < newSize[t]
    /\ \/ pools' = [pools EXCEPT ![p].events = Append(@, todo[t])]
       \/ Growing(t, p) # {} /\ UNCHANGED pools
    /\ raced' = (raced \/ InPool(t, p) # {})
    /\ todo' = [todo EXCEPT ![t] = @ + 1]
    /\ UNCHANGED <<pc, fd, current, pool, newSize, got, open, idVars>>

\* m_size = new_size, when all are pushed.
SetSize(t) ==
    /\ pc[t] = "grow" /\ todo[t] >= newSize[t]
    /\ pools' = [pools EXCEPT ![pool[t]].size = newSize[t]]
    /\ Goto(t, "return")
    /\ UNCHANGED <<fd, current, raced, pool, todo, newSize, got, open, idVars>>

\* m_fd_event_pool[fd]; a client looks it up a second time.
ReturnEvent(t) ==
    LET p == pool[t]
        found == fd[t] < Len(pools[p].events)
    IN
    /\ pc[t] = "return"
    /\ \E e \in {Wild, [pool |-> p, at |-> fd[t] + 1]} :
          /\ e = Wild => ~found \/ Growing(t, p) # {}
          /\ e # Wild => found
          /\ got' = [got EXCEPT ![t] = Append(@, e)]
    /\ raced' = (raced \/ Growing(t, p) # {})
    /\ pool' = [pool EXCEPT ![t] = 0]
    /\ todo' = [todo EXCEPT ![t] = 0] /\ newSize' = [newSize EXCEPT ![t] = 0]
    /\ Goto(t, IF Len(got[t]) + 1 < Lookups(t) THEN "pool"
               ELSE IF t = Acceptor THEN "idle" ELSE "call")
    /\ UNCHANGED <<fd, pools, current, open, idVars>>

\* CallMethod of a new controller, which has no id: GenMsgID.  Reading the
\* random device may fail, which gives the empty id and changes nothing.
\* (Several threads may open the device; the descriptors that this loses are
\* not counted.)
GenMsgID(t) ==
    /\ pc[t] = "call"
    /\ \/ /\ Refills(id[t], limit[t])
          /\ \/ /\ \E new \in Random : id' = [id EXCEPT ![t] = new]
                /\ limit' = [limit EXCEPT ![t] = @ + IdLength]
             \/ UNCHANGED idVars
       \/ /\ ~Refills(id[t], limit[t])
          /\ id' = [id EXCEPT ![t] = NextId(@)]
          /\ UNCHANGED limit
    /\ Goto(t, "called")
    /\ UNCHANGED <<fd, poolVars, pool, todo, newSize, got, open>>

\* Another call, with a channel of its own.  The descriptor of a channel is
\* never closed, a channel and its timeout event keeping each other; a
\* TcpClient that is used without a channel closes it.
NextCall(t) ==
    /\ pc[t] = "called"
    /\ Goto(t, "idle")
    /\ \/ UNCHANGED open
       \/ open' = open \ {fd[t]}
    /\ UNCHANGED <<fd, poolVars, pool, todo, newSize, got, idVars>>
-----------------------------------------------------------------------------
Init ==
    /\ pc = [t \in Threads |-> "idle"] /\ fd = [t \in Threads |-> NoFd]
    /\ pools = <<>> /\ current = 0 /\ raced = FALSE
    /\ pool = [t \in Threads |-> 0]
    /\ todo = [t \in Threads |-> 0] /\ newSize = [t \in Threads |-> 0]
    /\ got = [t \in Threads |-> <<>>]
    /\ \E n \in 0..MaxFds : open = 0..(n - 1)         \* those the process has already
    /\ id = [t \in Threads |-> <<>>] /\ limit = [t \in Threads |-> 0]

Step(t) ==
    \/ NewConnection(t) \/ GetPool(t) \/ CreatePool(t) \/ TestSize(t) \/ PushEvent(t)
    \/ SetSize(t) \/ ReturnEvent(t) \/ GenMsgID(t) \/ NextCall(t)

\* After the read in front of the vector anything may follow: the model stops.
Undefined == pc[Acceptor] = "undefined" /\ UNCHANGED vars

Next == (pc[Acceptor] # "undefined" /\ \E t \in Threads : Step(t)) \/ Undefined

Spec == Init /\ [][Next]_vars
-----------------------------------------------------------------------------
(* Properties *)

\* Type invariant.
SetupTypeOK ==
    /\ pc \in [Threads -> {"idle", "pool", "create", "test", "grow", "return", "call",
                           "called", "undefined"}]
    /\ \A t \in Clients : pc[t] # "undefined"
    /\ fd \in [Threads -> Fds \cup {NoFd}] /\ open \subseteq Fds
    /\ current = Len(pools) /\ pool \in [Threads -> 0..Len(pools)]
    /\ pools \in Seq([size : Nat, events : Seq(Nat)])
    /\ todo \in [Threads -> Nat] /\ newSize \in [Threads -> Nat]
    /\ got \in [Threads -> Seq([pool : Nat, at : Nat])]
    /\ \A t \in Threads : Len(got[t]) <= Lookups(t)
    /\ id \in [Threads -> {<<>>} \cup Random]
    /\ limit \in [Threads -> {0, IdLength, 2 * IdLength}] /\ raced \in BOOLEAN

\* fd_event_pool.cc:28: as long as one pool was made and no thread was in it
\* while another grew it, every lookup finds an FdEvent, it is made for the fd
\* that was looked up, and both lookups of a client find the same one; however
\* often the pool has grown, and by whichever thread.
EventIsOwn ==
    (Len(pools) <= 1 /\ ~raced) =>
        \A t \in Threads : \A i, j \in DOMAIN got[t] :
            LET e == got[t][i] IN
            /\ e # Wild /\ e = got[t][j]
            /\ pools[e.pool].events[e.at] = fd[t]

\* msg_util.cc:77-88: the ids of a thread count up by one from a random start;
\* they start anew at the all-nines id, but only once: after the second start
\* the limit is longer than any id, and the all-nines id is given for ever.
IdsAreConsecutive ==
    [][\A t \in Clients :
          id'[t] # id[t] \/ limit'[t] # limit[t] \/ (pc[t] = "call" /\ pc'[t] = "called") =>
             \/ id[t] # <<>> /\ ValueOf(id'[t]) = ValueOf(id[t]) + 1
             \/ id[t] = <<>> /\ limit[t] = 0
             \/ Nines(id[t]) /\ limit[t] = IdLength
             \/ Nines(id[t]) /\ limit[t] = 2 * IdLength /\ id'[t] = id[t]]_vars
=============================================================================
