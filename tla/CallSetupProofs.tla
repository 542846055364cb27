-------------------------- MODULE CallSetupProofs --------------------------
(***************************************************************************)
(* Proofs about CallSetup, for any number of clients, descriptors and any  *)
(* size of the pool: the types, and that a lookup finds the FdEvent of its *)
(* own fd as long as nobody was in the pool while another grew it.         *)
(***************************************************************************)
EXTENDS CallSetup, WellFoundedInduction, TLAPS

\* The places of a thread in getFdEvent.
Inside == {"test", "grow", "return"}

\* What a thread holds at each place: a pool while it is in getFdEvent, and
\* fewer FdEvents than it needs until it has looked all up.
SetupPhases ==
    /\ \A t \in Threads :
          /\ pc[t] \in Inside => pool[t] # 0
          /\ pc[t] \in {"pool", "create"} \cup Inside => Len(got[t]) < Lookups(t)
    /\ pools = <<>> => \A t \in Threads : got[t] = <<>>

\* A thread has a limit from its first id on.
IdPhases == \A t \in Threads : id[t] = <<>> <=> limit[t] = 0

\* A thread that grows the one pool appends at the end, or is not alone in it
\* and has still to push; and its own fd will be within the pool.
GrowsInOrder(t) ==
    /\ fd[t] < newSize[t] /\ todo[t] <= newSize[t]
    /\ \/ todo[t] = Len(pools[1].events)
       \/ todo[t] < newSize[t] /\ InPool(t, 1) # {}

\* One pool, which no thread was in while another grew it: its FdEvents are in
\* their places, and whoever is to read it, or has read it, has an fd within it.
PoolInOrder ==
    LET events == pools[1].events
        size   == pools[1].size
    IN
    /\ \A i \in 1..Len(events) : events[i] = i - 1
    /\ 2 <= size /\ size <= Len(events)
    /\ size = Len(events) \/ \E t \in Threads : pc[t] = "grow"
    /\ \A t \in Threads : pc[t] = "grow" => GrowsInOrder(t)
    /\ \A t \in Threads : pc[t] = "return" => fd[t] < size
    /\ \A t \in Threads : \A i \in 1..Len(got[t]) :
          got[t][i] = [pool |-> 1, at |-> fd[t] + 1] /\ fd[t] < Len(events)

SetupInv ==
    /\ SetupTypeOK /\ SetupPhases /\ IdPhases
    /\ Len(pools) = 1 /\ ~raced => PoolInOrder

-----------------------------------------------------------------------------
(* Ids.                                                                     *)

\* A set of numbers that is not empty has a least member.
LEMMA LeastNat ==
    ASSUME NEW T, T \subseteq Nat, T # {}
    PROVE  \E n \in T : \A m \in T : n <= m
<1>1. PICK n \in T : \A m \in T : ~ (<<m, n>> \in OpToRel(<, Nat))
  BY NatLessThanWellFounded, WFMin
<1>2. \A m \in T : ~ (m < n)
  BY <1>1 DEF OpToRel
<1> QED
  BY <1>2

\* An id that is not all nines has a last digit that is no nine.
LastNotNine(d, i) ==
    i \in DOMAIN d /\ d[i] # Base - 1 /\ \A k \in (i + 1)..Len(d) : d[k] = Base - 1

LEMMA LastNotNineExists ==
    ASSUME NEW d \in Random, ~Nines(d)
    PROVE  \E i \in 1..IdLength : LastNotNine(d, i)
<1> DEFINE T == {n \in Nat : n < IdLength /\ d[IdLength - n] # Base - 1}
<1>1. IdLength \in Nat /\ DOMAIN d = 1..IdLength /\ Len(d) = IdLength
  BY IdAssumption DEF Random
<1>2. PICK j \in 1..IdLength : d[j] # Base - 1
  BY <1>1 DEF Nines
<1>3. IdLength - j \in T
  <2>1. IdLength - (IdLength - j) = j /\ IdLength - j \in Nat /\ IdLength - j < IdLength
    BY <1>1
  <2> QED
    BY <2>1, <1>2
<1>4. PICK n \in T : \A m \in T : n <= m
  BY <1>3, LeastNat
<1>5. ASSUME NEW k \in (IdLength - n + 1)..IdLength, d[k] # Base - 1
      PROVE  FALSE
  <2>1. IdLength - (IdLength - k) = k /\ IdLength - k \in Nat /\ IdLength - k < n
    BY <1>1, <1>4
  <2>3. IdLength - k < IdLength
    BY <2>1, <1>1, <1>4
  <2>2. IdLength - k \in T
    BY <2>1, <2>3, <1>5
  <2> QED
    BY <2>1, <2>2, <1>4
<1>6. LastNotNine(d, IdLength - n)
  BY <1>1, <1>4, <1>5 DEF LastNotNine
<1> QED
  BY <1>1, <1>4, <1>6

\* What NextId does to an id that is not all nines.
LEMMA NextIdSteps ==
    ASSUME NEW d \in Random, ~Nines(d)
    PROVE  \E i \in 1..IdLength :
              LastNotNine(d, i) /\ NextId(d) = [j \in 1..IdLength |->
                 IF j < i THEN d[j] ELSE IF j = i THEN d[j] + 1 ELSE 0]
<1> DEFINE i == CHOOSE j \in DOMAIN d :
                   d[j] # Base - 1 /\ \A k \in (j + 1)..Len(d) : d[k] = Base - 1
<1>1. DOMAIN d = 1..IdLength
  BY DEF Random
<1>2. LastNotNine(d, i)
  BY LastNotNineExists, <1>1 DEF LastNotNine
<1>3. NextId(d) = [j \in DOMAIN d |->
                      IF j < i THEN d[j] ELSE IF j = i THEN d[j] + 1 ELSE 0]
  BY DEF NextId
<1> QED
  BY <1>1, <1>2, <1>3 DEF LastNotNine

LEMMA NextIdType ==
    ASSUME NEW d \in Random
    PROVE  NextId(d) \in Random
<1>1. CASE Nines(d)
  BY <1>1 DEF NextId
<1>2. CASE ~Nines(d)
  <2>1. PICK i \in 1..IdLength :
              LastNotNine(d, i) /\ NextId(d) = [j \in 1..IdLength |->
                 IF j < i THEN d[j] ELSE IF j = i THEN d[j] + 1 ELSE 0]
    BY <1>2, NextIdSteps
  <2>2. \A j \in 1..IdLength : d[j] \in 0..(Base - 1)
    BY DEF Random, Digits
  <2>3. d[i] + 1 \in 0..(Base - 1) /\ 0 \in 0..(Base - 1)
    BY <2>1, <2>2, IdAssumption DEF LastNotNine
  <2> QED
    BY <2>1, <2>2, <2>3 DEF Random, Digits
<1> QED
  BY <1>1, <1>2

-----------------------------------------------------------------------------
(* The invariant.                                                           *)

\* A pool, and what happens to the pools when one of them changes.
Pools == [size : Nat, events : Seq(Nat)]

LEMMA PoolType ==
    ASSUME NEW s \in Seq(Pools), NEW p \in 1..Len(s)
    PROVE  s[p].size \in Nat /\ s[p].events \in Seq(Nat) /\ Len(s[p].events) \in Nat
<1>1. s[p] \in Pools
  OBVIOUS
<1> QED
  BY <1>1 DEF Pools

LEMMA PoolEventsSet ==
    ASSUME NEW s \in Seq(Pools), NEW p \in 1..Len(s), NEW x \in Seq(Nat)
    PROVE  LET u == [s EXCEPT ![p].events = x] IN
           u \in Seq(Pools) /\ Len(u) = Len(s) /\ u[p].events = x /\ u[p].size = s[p].size
<1> DEFINE r == [s[p] EXCEPT !.events = x]
<1>1. s[p] \in Pools
  OBVIOUS
<1>2. r \in Pools /\ r.events = x /\ r.size = s[p].size
  BY <1>1 DEF Pools
<1> HIDE DEF r
<1>3. [s EXCEPT ![p] = r] \in Seq(Pools) /\ Len([s EXCEPT ![p] = r]) = Len(s)
  BY <1>2
<1>4. [s EXCEPT ![p].events = x] = [s EXCEPT ![p] = r]
  BY DEF r
<1>5. [s EXCEPT ![p] = r][p] = r
  OBVIOUS
<1> QED
  BY ONLY <1>2, <1>3, <1>4, <1>5

LEMMA PoolSizeSet ==
    ASSUME NEW s \in Seq(Pools), NEW p \in 1..Len(s), NEW x \in Nat
    PROVE  LET u == [s EXCEPT ![p].size = x] IN
           u \in Seq(Pools) /\ Len(u) = Len(s) /\ u[p].size = x /\ u[p].events = s[p].events
<1> DEFINE r == [s[p] EXCEPT !.size = x]
<1>1. s[p] \in Pools
  OBVIOUS
<1>2. r \in Pools /\ r.size = x /\ r.events = s[p].events
  BY <1>1 DEF Pools
<1> HIDE DEF r
<1>3. [s EXCEPT ![p] = r] \in Seq(Pools) /\ Len([s EXCEPT ![p] = r]) = Len(s)
  BY <1>2
<1>4. [s EXCEPT ![p].size = x] = [s EXCEPT ![p] = r]
  BY DEF r
<1>5. [s EXCEPT ![p] = r][p] = r
  OBVIOUS
<1> QED
  BY ONLY <1>2, <1>3, <1>4, <1>5

LEMMA SetupInit == Init => SetupInv
<1> SUFFICES ASSUME Init PROVE SetupInv
  OBVIOUS
<1>1. pools = <<>> /\ Len(pools) = 0
  BY DEF Init
<1>2. open \subseteq Fds
  BY SetupAssumption DEF Init, Fds
<1>3. SetupTypeOK
  <2>1. pc \in [Threads -> {"idle", "pool", "create", "test", "grow", "return", "call",
                            "called", "undefined"}]
        /\ \A t \in Clients : pc[t] # "undefined"
    BY DEF Init, Threads
  <2>2. fd \in [Threads -> Fds \cup {NoFd}]
    BY DEF Init
  <2>3. current = Len(pools) /\ pool \in [Threads -> 0..Len(pools)]
        /\ pools \in Seq([size : Nat, events : Seq(Nat)])
    BY <1>1 DEF Init
  <2>4. todo \in [Threads -> Nat] /\ newSize \in [Threads -> Nat] /\ raced \in BOOLEAN
    BY DEF Init
  <2>5. got \in [Threads -> Seq([pool : Nat, at : Nat])]
        /\ \A t \in Threads : Len(got[t]) <= Lookups(t)
    BY DEF Init, Lookups
  <2>6. id \in [Threads -> {<<>>} \cup Random]
        /\ limit \in [Threads -> {0, IdLength, 2 * IdLength}]
    BY DEF Init
  <2> QED
    BY <1>2, <2>1, <2>2, <2>3, <2>4, <2>5, <2>6 DEF SetupTypeOK
<1>4. SetupPhases /\ IdPhases
  BY DEF Init, SetupPhases, IdPhases, Inside, Lookups
<1> QED
  BY <1>1, <1>3, <1>4 DEF SetupInv

\* A step that leaves the pool alone, and in which nobody starts or ends to grow
\* it or comes to read it, keeps the pool in order.
LEMMA OrderKept ==
    ASSUME PoolInOrder, UNCHANGED <<pools, todo, newSize>>,
           \A u \in Threads :
              /\ pc'[u] = "grow" <=> pc[u] = "grow"
              /\ pc'[u] = "return" => pc[u] = "return"
              /\ fd'[u] = fd[u] \/ pc'[u] \notin Inside
              /\ got'[u] = <<>> \/ (got'[u] = got[u] /\ fd'[u] = fd[u])
              /\ InPool(u, 1) \subseteq InPool(u, 1)'
    PROVE  PoolInOrder'
<1>1. /\ \A i \in 1..Len(pools'[1].events) : pools'[1].events[i] = i - 1
      /\ 2 <= pools'[1].size /\ pools'[1].size <= Len(pools'[1].events)
      /\ pools'[1].size = Len(pools'[1].events) \/ \E u \in Threads : pc'[u] = "grow"
  BY DEF PoolInOrder
<1>2. ASSUME NEW u \in Threads, pc'[u] = "grow"
      PROVE  GrowsInOrder(u)'
  BY <1>2 DEF PoolInOrder, GrowsInOrder, Inside
<1>3. \A u \in Threads : pc'[u] = "return" => fd'[u] < pools'[1].size
  BY DEF PoolInOrder, Inside
<1>4. ASSUME NEW u \in Threads, NEW i \in 1..Len(got'[u])
      PROVE  got'[u][i] = [pool |-> 1, at |-> fd'[u] + 1] /\ fd'[u] < Len(pools'[1].events)
  <2>1. CASE got'[u] = <<>>
    BY <2>1
  <2>2. CASE got'[u] = got[u] /\ fd'[u] = fd[u]
    BY <2>2 DEF PoolInOrder
  <2> QED
    BY <2>1, <2>2
<1> QED
  BY <1>1, <1>2, <1>3, <1>4 DEF PoolInOrder

\* A new connection keeps it: its thread is in no pool and forgets what it got.
LEMMA NewConnectionKeeps ==
    ASSUME SetupInv, NEW t \in Threads, NewConnection(t)
    PROVE  SetupInv'
<1> USE DEF SetupInv, NewConnection, Goto, poolVars, idVars
<1>1. SetupTypeOK'
  <2>1. pc' \in [Threads -> {"idle", "pool", "create", "test", "grow", "return", "call",
                             "called", "undefined"}]
        /\ \A u \in Clients : pc'[u] # "undefined"
    BY SetupAssumption, ZenonT(60) DEF SetupTypeOK, Threads
  <2>2. fd' \in [Threads -> Fds \cup {NoFd}] /\ open' \subseteq Fds
    BY ZenonT(60) DEF SetupTypeOK
  <2>3. got' \in [Threads -> Seq([pool : Nat, at : Nat])]
        /\ \A u \in Threads : Len(got'[u]) <= Lookups(u)
    BY DEF SetupTypeOK, Lookups
  <2> QED
    BY <2>1, <2>2, <2>3 DEF SetupTypeOK
<1>2. SetupPhases'
  BY SMTT(60) DEF SetupTypeOK, SetupPhases, Inside, Lookups
<1>3. IdPhases'
  BY DEF IdPhases
<1>4. ASSUME Len(pools') = 1 /\ ~raced' PROVE PoolInOrder'
  <2>1. PoolInOrder
    BY <1>4
  <2>2. \A u \in Threads :
           /\ pc'[u] = "grow" <=> pc[u] = "grow"
           /\ pc'[u] = "return" => pc[u] = "return"
           /\ fd'[u] = fd[u] \/ pc'[u] \notin Inside
           /\ got'[u] = <<>> \/ (got'[u] = got[u] /\ fd'[u] = fd[u])
    BY DEF SetupTypeOK, Inside
  <2>3. \A u \in Threads : InPool(u, 1) \subseteq InPool(u, 1)'
    BY DEF InPool, SetupTypeOK
  <2> QED
    BY <2>1, <2>2, <2>3, OrderKept
<1> QED
  BY <1>1, <1>2, <1>3, <1>4

\* A thread that takes the pool, or finds none, keeps it.
LEMMA GetPoolKeeps ==
    ASSUME SetupInv, NEW t \in Threads, GetPool(t)
    PROVE  SetupInv'
<1> USE DEF SetupInv, GetPool, Goto, poolVars, idVars
<1>1. SetupTypeOK'
  <2>1. pc' \in [Threads -> {"idle", "pool", "create", "test", "grow", "return", "call",
                             "called", "undefined"}]
        /\ \A u \in Clients : pc'[u] # "undefined"
    BY DEF SetupTypeOK, Threads
  <2>2. Len(pools) \in Nat /\ current \in 0..Len(pools)
    BY DEF SetupTypeOK
  <2>3. pool' \in [Threads -> 0..Len(pools)]
    BY <2>2 DEF SetupTypeOK
  <2> QED
    BY <2>1, <2>3 DEF SetupTypeOK
<1>2. SetupPhases' /\ IdPhases'
  BY DEF SetupTypeOK, SetupPhases, IdPhases, Inside
<1>3. ASSUME Len(pools') = 1 /\ ~raced' PROVE PoolInOrder'
  <2>1. PoolInOrder
    BY <1>3
  <2>2. \A u \in Threads :
           /\ pc'[u] = "grow" <=> pc[u] = "grow"
           /\ pc'[u] = "return" => pc[u] = "return"
           /\ fd'[u] = fd[u] /\ got'[u] = got[u]
    BY DEF SetupTypeOK
  <2>3. \A u \in Threads : InPool(u, 1) \subseteq InPool(u, 1)'
    BY DEF InPool, SetupTypeOK
  <2> QED
    BY <2>1, <2>2, <2>3, OrderKept
<1> QED
  BY <1>1, <1>2, <1>3

\* The first pool is in order when it is made, for nobody was in one before.
LEMMA CreatePoolKeeps ==
    ASSUME SetupInv, NEW t \in Threads, CreatePool(t)
    PROVE  SetupInv'
<1> USE DEF SetupInv, CreatePool, Goto, idVars
<1> DEFINE new == [size |-> PoolSize, events |-> [i \in 1..PoolSize |-> i - 1]]
<1>1. new.events \in Seq(Nat) /\ Len(new.events) = PoolSize /\ PoolSize \in Nat /\ 2 <= PoolSize
  BY SetupAssumption
<1>2. pools' = Append(pools, new) /\ new \in [size : Nat, events : Seq(Nat)]
  BY <1>1
<1>3. pools' \in Seq([size : Nat, events : Seq(Nat)]) /\ Len(pools') = Len(pools) + 1
      /\ Len(pools) \in Nat
  BY <1>2 DEF SetupTypeOK
<1>4. SetupTypeOK'
  <2>1. pc' \in [Threads -> {"idle", "pool", "create", "test", "grow", "return", "call",
                             "called", "undefined"}]
        /\ \A u \in Clients : pc'[u] # "undefined"
    BY DEF SetupTypeOK, Threads
  <2>2. pool' \in [Threads -> 0..Len(pools')] /\ current' = Len(pools')
    BY <1>3 DEF SetupTypeOK
  <2> QED
    BY <1>3, <2>1, <2>2 DEF SetupTypeOK
<1>5. SetupPhases' /\ IdPhases'
  <2>1. pools' # <<>>
    BY <1>3
  <2>2. \A u \in Threads :
           /\ pc'[u] \in Inside => pc[u] \in Inside /\ pool'[u] = pool[u]
           /\ pc'[u] \in {"pool", "create"} \cup Inside =>
                 pc[u] \in {"pool", "create"} \cup Inside /\ got'[u] = got[u]
    BY DEF SetupTypeOK, Inside
  <2> QED
    BY <2>1, <2>2 DEF SetupPhases, IdPhases
<1>6. ASSUME Len(pools') = 1 /\ ~raced' PROVE PoolInOrder'
  <2>1. Len(pools) = 0 /\ pools = <<>>
    BY <1>3, <1>6 DEF SetupTypeOK
  <2>2. pools'[1] = new
    BY <2>1, <1>2
  <2>3. \A u \in Threads : pc[u] \notin Inside /\ got[u] = <<>>
    BY <2>1 DEF SetupPhases, SetupTypeOK
  <2>4. \A u \in Threads : pc'[u] \notin Inside /\ got'[u] = <<>>
    BY <2>3 DEF SetupTypeOK, Inside
  <2>5. new.size = PoolSize /\ \A i \in 1..PoolSize : new.events[i] = i - 1
    OBVIOUS
  <2> HIDE DEF new
  <2> QED
    BY <1>1, <2>2, <2>4, <2>5, SMTT(60) DEF PoolInOrder, Inside
<1> QED
  BY <1>4, <1>5, <1>6

\* The test keeps it: new_size is beyond the fd, since the fd is 2 at least.
LEMMA TestSizeKeeps ==
    ASSUME SetupInv, NEW t \in Threads, TestSize(t)
    PROVE  SetupInv'
<1> USE DEF SetupInv, TestSize, Goto, poolVars, idVars
<1>1. pool[t] \in 1..Len(pools) /\ fd[t] \in Nat
  BY SetupAssumption DEF SetupTypeOK, SetupPhases, Inside, Fds, NoFd
<1>2. pools[pool[t]].size \in Nat
  <2>1. pools \in Seq(Pools)
    BY DEF SetupTypeOK, Pools
  <2> QED
    BY ONLY <1>1, <2>1, PoolType
<1>3. \A f \in Nat : NewSize(f) \in Nat /\ (f >= 2 => f < NewSize(f))
  BY DEF NewSize
<1>4. SetupTypeOK'
  <2>1. pc' \in [Threads -> {"idle", "pool", "create", "test", "grow", "return", "call",
                             "called", "undefined"}]
        /\ \A u \in Clients : pc'[u] # "undefined"
    BY DEF SetupTypeOK, Threads
  <2>2. todo' \in [Threads -> Nat] /\ newSize' \in [Threads -> Nat]
    BY <1>1, <1>2, <1>3, ZenonT(60) DEF SetupTypeOK
  <2> QED
    BY <2>1, <2>2 DEF SetupTypeOK
<1>5. SetupPhases' /\ IdPhases'
  BY DEF SetupTypeOK, SetupPhases, IdPhases, Inside
<1>6. ASSUME Len(pools') = 1 /\ ~raced' PROVE PoolInOrder'
  <2>1. PoolInOrder /\ pool[t] = 1
    BY <1>1, <1>6
  <2>2. \A u \in Threads : InPool(u, 1)' = InPool(u, 1)
    BY DEF InPool, SetupTypeOK
  <2>3. CASE fd[t] < pools[1].size
    <3>1. pc' = [pc EXCEPT ![t] = "return"] /\ UNCHANGED <<todo, newSize>>
      BY <2>1, <2>3
    <3>2. \A u \in Threads : pc'[u] = "grow" <=> pc[u] = "grow"
      BY <3>1 DEF SetupTypeOK
    <3>3. \A u \in Threads : pc'[u] = "grow" => GrowsInOrder(u)'
      BY <2>1, <2>2, <3>1, <3>2 DEF PoolInOrder, GrowsInOrder
    <3>4. \A u \in Threads : pc'[u] = "return" => fd'[u] < pools'[1].size
      BY <2>1, <2>3, <3>1 DEF PoolInOrder, SetupTypeOK
    <3> QED
      BY <2>1, <3>2, <3>3, <3>4 DEF PoolInOrder
  <2>4. CASE ~ (fd[t] < pools[1].size)
    <3>1. /\ pc' = [pc EXCEPT ![t] = "grow"]
          /\ todo' = [todo EXCEPT ![t] = pools[1].size]
          /\ newSize' = [newSize EXCEPT ![t] = NewSize(fd[t])]
      BY <2>1, <2>4
    <3>2. pc'[t] = "grow" /\ \A u \in Threads \ {t} :
             pc'[u] = pc[u] /\ todo'[u] = todo[u] /\ newSize'[u] = newSize[u]
      BY <3>1 DEF SetupTypeOK
    <3>3. fd'[t] < newSize'[t] /\ todo'[t] < newSize'[t] /\ todo'[t] = pools[1].size
          /\ todo'[t] <= newSize'[t]
      <4>1. fd[t] >= 2 /\ pools[1].size <= fd[t] /\ pools[1].size \in Nat
        BY <1>1, <1>2, <2>1, <2>4 DEF PoolInOrder
      <4>2. fd[t] < NewSize(fd[t]) /\ NewSize(fd[t]) \in Nat
        BY <1>1, <1>3, <4>1
      <4>3. todo'[t] = pools[1].size /\ newSize'[t] = NewSize(fd[t]) /\ fd'[t] = fd[t]
        BY <3>1 DEF SetupTypeOK
      <4> QED
        BY <1>1, <4>1, <4>2, <4>3
    <3>4. \A u \in Threads : pc[u] = "grow" => u \in InPool(t, 1)
      <4>1. \A u \in Threads : pc[u] = "grow" => pool[u] = 1 /\ u # t
        BY <1>6 DEF SetupPhases, SetupTypeOK, Inside
      <4> QED
        BY <4>1 DEF InPool
    <3>5. GrowsInOrder(t)'
      <4>1. pools[1].size = Len(pools[1].events) \/ InPool(t, 1) # {}
        BY <2>1, <3>4 DEF PoolInOrder
      <4> QED
        BY <2>2, <3>3, <4>1 DEF GrowsInOrder
    <3>6. \A u \in Threads : pc'[u] = "grow" => GrowsInOrder(u)'
      BY <2>1, <2>2, <3>2, <3>5 DEF PoolInOrder, GrowsInOrder
    <3>7. \A u \in Threads : pc'[u] = "return" => fd'[u] < pools'[1].size
      BY <2>1, <3>2 DEF PoolInOrder
    <3> QED
      BY <2>1, <3>2, <3>6, <3>7 DEF PoolInOrder
  <2> QED
    BY <2>3, <2>4
<1> QED
  BY <1>4, <1>5, <1>6

\* A push keeps it: whoever pushes was alone, and so pushes at the end.
LEMMA PushEventKeeps ==
    ASSUME SetupInv, NEW t \in Threads, PushEvent(t)
    PROVE  SetupInv'
<1> USE DEF SetupInv, PushEvent, idVars
<1> DEFINE p == pool[t]
<1>1. p \in 1..Len(pools)
  BY DEF SetupTypeOK, SetupPhases, Inside
<1>2. pools \in Seq(Pools) /\ todo[t] \in Nat
  BY DEF SetupTypeOK, Pools
<1> DEFINE more == Append(pools[p].events, todo[t])
           grown == [pools EXCEPT ![p].events = more]
<1>3. pools[p].size \in Nat /\ pools[p].events \in Seq(Nat) /\ more \in Seq(Nat)
  BY <1>1, <1>2, PoolType
<1>4. grown \in Seq(Pools) /\ Len(grown) = Len(pools)
       /\ grown[p].events = more /\ grown[p].size = pools[p].size
  <2> HIDE DEF more
  <2> QED
    BY ONLY <1>1, <1>2, <1>3, PoolEventsSet
<1>5. pools' = grown \/ (Growing(t, p) # {} /\ pools' = pools)
  OBVIOUS
<1>6. pools' \in Seq(Pools) /\ Len(pools') = Len(pools)
  BY <1>2, <1>4, <1>5
<1>7. SetupTypeOK'
  <2>1. todo' \in [Threads -> Nat] /\ raced' \in BOOLEAN
    BY <1>2 DEF SetupTypeOK
  <2>2. current' = Len(pools') /\ pool' \in [Threads -> 0..Len(pools')]
    BY <1>6 DEF SetupTypeOK
  <2> QED
    BY <1>6, <2>1, <2>2 DEF SetupTypeOK, Pools
<1>8. SetupPhases' /\ IdPhases'
  <2>1. pools' = <<>> => pools = <<>>
    BY <1>6 DEF SetupTypeOK
  <2> QED
    BY <2>1 DEF SetupPhases, IdPhases
<1>9. ASSUME Len(pools') = 1 /\ ~raced' PROVE PoolInOrder'
  <2>0. p = 1 /\ Len(pools) = 1
    BY <1>1, <1>6, <1>9
  <2>1. PoolInOrder /\ p = 1 /\ InPool(t, 1) = {}
    BY <1>9, <2>0, Zenon
  <2> DEFINE events == pools[1].events
  <2>2. todo[t] = Len(events) /\ todo[t] < newSize[t] /\ fd[t] < newSize[t]
    BY <2>1 DEF PoolInOrder, GrowsInOrder
  <2>3. pools' = grown
    BY <1>5, <2>1 DEF Growing
  <2>4. pools'[1].events = Append(events, Len(events)) /\ pools'[1].size = pools[1].size
    BY <2>2, <2>3, <2>1, <1>4
  <2>5. events \in Seq(Nat) /\ Len(events) \in Nat
    BY <1>3, <2>1
  <2>6. /\ Len(pools'[1].events) = Len(events) + 1
        /\ \A i \in 1..(Len(events) + 1) : pools'[1].events[i] = i - 1
    <3>1. \A i \in 1..Len(events) : events[i] = i - 1
      BY <2>1 DEF PoolInOrder
    <3> QED
      BY <2>4, <2>5, <3>1
  <2>7. \A u \in Threads : pc[u] = "grow" => u = t
    <3>1. \A u \in Threads : pc[u] = "grow" => pool[u] = 1
      BY <1>6, <1>9 DEF SetupPhases, SetupTypeOK, Inside
    <3> QED
      BY <2>1, <3>1 DEF InPool
  <2>8. \A u \in Threads : pc'[u] = "grow" => GrowsInOrder(u)'
    <3>1. todo'[t] = Len(events) + 1 /\ todo'[t] <= newSize[t]
      BY <2>2, <2>5 DEF SetupTypeOK
    <3> QED
      BY <2>2, <2>6, <2>7, <3>1 DEF GrowsInOrder
  <2>9. \A u \in Threads : \A i \in 1..Len(got[u]) :
           got[u][i] = [pool |-> 1, at |-> fd[u] + 1] /\ fd[u] < Len(events) + 1
    <3>1. \A u \in Threads : fd[u] \in Nat
      BY SetupAssumption DEF SetupTypeOK, Fds, NoFd
    <3> QED
      BY <2>1, <2>5, <3>1 DEF PoolInOrder
  <2>10. 2 <= pools[1].size /\ pools[1].size <= Len(events) + 1
    BY <1>3, <2>1, <2>5 DEF PoolInOrder
  <2> HIDE DEF events
  <2> QED
    BY <2>1, <2>4, <2>6, <2>8, <2>9, <2>10 DEF PoolInOrder
<1> QED
  BY <1>7, <1>8, <1>9

\* The new size keeps it: the pool has got that many, for nobody else pushed.
LEMMA SetSizeKeeps ==
    ASSUME SetupInv, NEW t \in Threads, SetSize(t)
    PROVE  SetupInv'
<1> USE DEF SetupInv, SetSize, Goto, idVars
<1> DEFINE p == pool[t]
           sized == [pools EXCEPT ![p].size = newSize[t]]
<1>1. p \in 1..Len(pools) /\ newSize[t] \in Nat /\ todo[t] \in Nat /\ pools \in Seq(Pools)
  BY DEF SetupTypeOK, SetupPhases, Inside, Pools
<1>2. sized \in Seq(Pools) /\ Len(sized) = Len(pools)
      /\ sized[p].size = newSize[t] /\ sized[p].events = pools[p].events
  BY ONLY <1>1, PoolSizeSet
<1>3. pools' = sized
  OBVIOUS
<1> HIDE DEF sized
<1>4. SetupTypeOK'
  <2>1. pc' \in [Threads -> {"idle", "pool", "create", "test", "grow", "return", "call",
                             "called", "undefined"}]
        /\ \A u \in Clients : pc'[u] # "undefined"
    BY DEF SetupTypeOK, Threads
  <2>2. current' = Len(pools') /\ pool' \in [Threads -> 0..Len(pools')]
    BY <1>2, <1>3 DEF SetupTypeOK
  <2> QED
    BY <1>2, <1>3, <2>1, <2>2 DEF SetupTypeOK, Pools
<1>5. SetupPhases' /\ IdPhases'
  <2>1. pools' # <<>>
    BY <1>1, <1>2, <1>3
  <2>2. \A u \in Threads : pc'[u] \in Inside => pc[u] \in Inside
    BY DEF SetupTypeOK, Inside
  <2>3. \A u \in Threads : pc'[u] \in {"pool", "create"} \cup Inside =>
                              pc[u] \in {"pool", "create"} \cup Inside
    BY DEF SetupTypeOK, Inside
  <2> QED
    BY <2>1, <2>2, <2>3 DEF SetupPhases, IdPhases
<1>6. ASSUME Len(pools') = 1 /\ ~raced' PROVE PoolInOrder'
  <2> DEFINE events == pools[1].events
  <2>1. PoolInOrder /\ p = 1
    BY <1>1, <1>2, <1>3, <1>6
  <2>2. Len(events) \in Nat /\ pools[1].size \in Nat
    BY ONLY <1>1, <2>1, PoolType
  <2>3. newSize[t] = Len(events) /\ fd[t] < newSize[t] /\ todo[t] = newSize[t]
    BY <1>1, <2>1, <2>2 DEF PoolInOrder, GrowsInOrder
  <2>4. pools'[1].events = events /\ pools'[1].size = Len(events)
    BY <1>2, <1>3, <2>1, <2>3
  <2>5. \A u \in Threads : InPool(u, 1)' = InPool(u, 1)
    BY DEF InPool, SetupTypeOK
  <2>6. \A u \in Threads : pc'[u] = "grow" => GrowsInOrder(u)'
    <3>1. \A u \in Threads : pc'[u] = "grow" => pc[u] = "grow"
      BY DEF SetupTypeOK
    <3> QED
      BY <2>1, <2>4, <2>5, <3>1 DEF PoolInOrder, GrowsInOrder
  <2>7. ASSUME NEW u \in Threads, pc'[u] = "return"
        PROVE  fd'[u] < Len(events)
    <3>1. CASE u = t
      BY <2>3, <3>1
    <3>2. CASE u # t
      <4>1. pc[u] = "return" /\ fd[u] \in Nat
        BY <2>7, <3>2, SetupAssumption DEF SetupTypeOK, Fds, NoFd
      <4> QED
        BY <2>1, <2>2, <4>1 DEF PoolInOrder
    <3> QED
      BY <3>1, <3>2
  <2>8. 2 <= Len(events) /\ \A i \in 1..Len(events) : events[i] = i - 1
    BY <2>1, <2>2 DEF PoolInOrder
  <2>9. \A u \in Threads : \A i \in 1..Len(got[u]) :
           got[u][i] = [pool |-> 1, at |-> fd[u] + 1] /\ fd[u] < Len(events)
    BY <2>1 DEF PoolInOrder
  <2> HIDE DEF events
  <2> QED
    BY <2>2, <2>4, <2>6, <2>7, <2>8, <2>9 DEF PoolInOrder
<1> QED
  BY <1>4, <1>5, <1>6

\* A lookup keeps it: nobody grows the pool, so the thread gets its own FdEvent.
LEMMA ReturnEventKeeps ==
    ASSUME SetupInv, NEW t \in Threads, ReturnEvent(t)
    PROVE  SetupInv'
<1> USE DEF SetupInv, ReturnEvent, Goto, idVars
<1> DEFINE p == pool[t]
           found == fd[t] < Len(pools[p].events)
<1>1. p \in 1..Len(pools) /\ pools \in Seq(Pools)
  BY DEF SetupTypeOK, SetupPhases, Inside, Pools
<1>2. PICK e \in {Wild, [pool |-> p, at |-> fd[t] + 1]} :
          /\ e = Wild => ~found \/ Growing(t, p) # {}
          /\ got' = [got EXCEPT ![t] = Append(@, e)]
  BY Zenon
<1>3. got[t] \in Seq([pool : Nat, at : Nat]) /\ fd[t] \in Nat /\ e \in [pool : Nat, at : Nat]
  <2>1. got[t] \in Seq([pool : Nat, at : Nat]) /\ fd[t] \in Nat /\ p \in Nat
    BY <1>1, SetupAssumption DEF SetupTypeOK, Fds, NoFd
  <2> QED
    BY <1>2, <2>1 DEF Wild
<1>4. Append(got[t], e) \in Seq([pool : Nat, at : Nat])
      /\ Len(Append(got[t], e)) = Len(got[t]) + 1
      /\ \A i \in 1..Len(got[t]) : Append(got[t], e)[i] = got[t][i]
      /\ Append(got[t], e)[Len(got[t]) + 1] = e /\ Len(got[t]) \in Nat
  BY <1>3
<1>5. Len(got[t]) + 1 <= Lookups(t)
  BY <1>3 DEF SetupPhases, Inside, Lookups
<1>6. SetupTypeOK'
  <2>1. pc' \in [Threads -> {"idle", "pool", "create", "test", "grow", "return", "call",
                             "called", "undefined"}]
        /\ \A u \in Clients : pc'[u] # "undefined"
    BY DEF SetupTypeOK, Threads
  <2>2. current' = Len(pools') /\ pool' \in [Threads -> 0..Len(pools')] /\ raced' \in BOOLEAN
    <3>1. 0 \in 0..Len(pools)
      BY <1>1
    <3> QED
      BY <3>1 DEF SetupTypeOK
  <2>3. todo' \in [Threads -> Nat] /\ newSize' \in [Threads -> Nat]
    BY DEF SetupTypeOK
  <2>4. got' \in [Threads -> Seq([pool : Nat, at : Nat])]
        /\ \A u \in Threads : Len(got'[u]) <= Lookups(u)
    BY <1>2, <1>4, <1>5 DEF SetupTypeOK
  <2> QED
    BY <2>1, <2>2, <2>3, <2>4 DEF SetupTypeOK
<1>7. SetupPhases' /\ IdPhases'
  <2>1. pools' # <<>>
    BY <1>1
  <2>2. \A u \in Threads \ {t} : pc'[u] = pc[u] /\ pool'[u] = pool[u] /\ got'[u] = got[u]
    BY <1>2 DEF SetupTypeOK
  <2>3. pc'[t] \notin Inside
        /\ (pc'[t] \in {"pool", "create"} => Len(got'[t]) < Lookups(t))
    BY <1>2, <1>4 DEF SetupTypeOK, Inside
  <2> QED
    BY <2>1, <2>2, <2>3 DEF SetupPhases, IdPhases
<1>8. ASSUME Len(pools') = 1 /\ ~raced' PROVE PoolInOrder'
  <2>1. p = 1
    BY <1>1, <1>8
  <2>2. PoolInOrder /\ Growing(t, 1) = {}
    BY <1>8, <2>1, Zenon
  <2> DEFINE events == pools[1].events
  <2>3. Len(events) \in Nat /\ pools[1].size \in Nat
    BY ONLY <1>1, <2>1, PoolType
  <2>4. fd[t] < Len(events)
    BY <1>3, <2>2, <2>3 DEF PoolInOrder
  <2>5. e = [pool |-> 1, at |-> fd[t] + 1]
    BY <1>2, <2>1, <2>2, <2>4
  <2>6. \A u \in Threads : pc[u] # "grow" /\ pc'[u] # "grow"
    <3>1. \A u \in Threads : pc[u] = "grow" => pool[u] = 1 /\ u # t
      BY <1>1, <1>8 DEF SetupPhases, SetupTypeOK, Inside
    <3>2. \A u \in Threads : pc[u] # "grow"
      BY <2>2, <3>1 DEF Growing, InPool
    <3> QED
      BY <3>2 DEF SetupTypeOK
  <2>7. \A u \in Threads : pc'[u] = "return" => fd'[u] < pools'[1].size
    BY <2>2 DEF PoolInOrder, SetupTypeOK
  <2>8. ASSUME NEW u \in Threads, NEW i \in 1..Len(got'[u])
        PROVE  got'[u][i] = [pool |-> 1, at |-> fd[u] + 1] /\ fd[u] < Len(events)
    <3>1. CASE u # t
      <4>1. got'[u] = got[u]
        BY <1>2, <3>1 DEF SetupTypeOK
      <4> QED
        BY <2>2, <4>1 DEF PoolInOrder
    <3>2. CASE u = t /\ i <= Len(got[t])
      <4>1. got'[t] = Append(got[t], e) /\ i \in 1..Len(got[t])
        BY <1>2, <1>4, <3>2 DEF SetupTypeOK
      <4> QED
        BY <1>4, <2>2, <2>4, <3>2, <4>1 DEF PoolInOrder
    <3>3. CASE u = t /\ ~ (i <= Len(got[t]))
      <4>1. got'[t] = Append(got[t], e)
        BY <1>2 DEF SetupTypeOK
      <4>2. i = Len(got[t]) + 1
        BY <1>4, <3>3, <4>1
      <4> QED
        BY <1>4, <2>4, <2>5, <3>3, <4>1, <4>2
    <3> QED
      BY <3>1, <3>2, <3>3
  <2> QED
    BY <2>2, <2>6, <2>7, <2>8 DEF PoolInOrder
<1> QED
  BY <1>6, <1>7, <1>8

\* An id keeps it: it is of the right length, and there is a limit.
LEMMA GenMsgIDKeeps ==
    ASSUME SetupInv, NEW t \in Threads, GenMsgID(t)
    PROVE  SetupInv'
<1> USE DEF SetupInv, GenMsgID, Goto, poolVars
<1>1. /\ id[t] \in {<<>>} \cup Random /\ limit[t] \in {0, IdLength, 2 * IdLength}
      /\ IdLength \in Nat /\ IdLength # 0 /\ (id[t] = <<>> <=> limit[t] = 0)
  BY IdAssumption DEF SetupTypeOK, IdPhases
<1>2. \A d \in Random : Len(d) = IdLength /\ d # <<>>
  BY <1>1 DEF Random
<1>3. /\ id' = [id EXCEPT ![t] = id'[t]] /\ limit' = [limit EXCEPT ![t] = limit'[t]]
      /\ id'[t] \in {<<>>} \cup Random /\ limit'[t] \in {0, IdLength, 2 * IdLength}
      /\ id'[t] = <<>> <=> limit'[t] = 0
  <2>1. CASE Refills(id[t], limit[t]) /\ UNCHANGED idVars
    BY <1>1, <2>1 DEF SetupTypeOK, idVars
  <2>2. ASSUME Refills(id[t], limit[t]), NEW new \in Random,
               id' = [id EXCEPT ![t] = new],
               limit' = [limit EXCEPT ![t] = limit[t] + IdLength]
        PROVE  /\ id' = [id EXCEPT ![t] = id'[t]]
               /\ limit' = [limit EXCEPT ![t] = limit'[t]]
               /\ id'[t] \in {<<>>} \cup Random /\ limit'[t] \in {0, IdLength, 2 * IdLength}
               /\ id'[t] = <<>> <=> limit'[t] = 0
    <3>1. limit[t] \in {0, IdLength}
      BY <1>1, <1>2, <2>2 DEF Refills
    <3>2. limit[t] + IdLength \in {IdLength, 2 * IdLength} /\ limit[t] + IdLength # 0
      BY <1>1, <3>1
    <3>3. id'[t] = new /\ limit'[t] = limit[t] + IdLength
      BY <2>2 DEF SetupTypeOK
    <3> QED
      BY <1>2, <2>2, <3>2, <3>3
  <2>3. CASE ~Refills(id[t], limit[t]) /\ id' = [id EXCEPT ![t] = NextId(@)]
             /\ UNCHANGED limit
    <3>1. id[t] \in Random
      BY <1>1, <2>3 DEF Refills
    <3>2. NextId(id[t]) \in Random
      BY <3>1, NextIdType
    <3>3. id'[t] = NextId(id[t]) /\ limit'[t] = limit[t]
      BY <2>3 DEF SetupTypeOK
    <3> QED
      BY <1>1, <1>2, <2>3, <3>1, <3>2, <3>3 DEF SetupTypeOK
  <2> QED
    BY <2>1, <2>2, <2>3
<1>4. SetupTypeOK'
  <2>1. pc' \in [Threads -> {"idle", "pool", "create", "test", "grow", "return", "call",
                             "called", "undefined"}]
        /\ \A u \in Clients : pc'[u] # "undefined"
    BY DEF SetupTypeOK, Threads
  <2>2. id' \in [Threads -> {<<>>} \cup Random]
        /\ limit' \in [Threads -> {0, IdLength, 2 * IdLength}]
    BY <1>3 DEF SetupTypeOK
  <2> QED
    BY <2>1, <2>2 DEF SetupTypeOK
<1>5. SetupPhases'
  BY DEF SetupTypeOK, SetupPhases, Inside
<1>6. IdPhases'
  BY <1>3 DEF SetupTypeOK, IdPhases
<1>7. ASSUME Len(pools') = 1 /\ ~raced' PROVE PoolInOrder'
  <2>1. PoolInOrder
    BY <1>7
  <2>2. \A u \in Threads :
           /\ pc'[u] = "grow" <=> pc[u] = "grow"
           /\ pc'[u] = "return" => pc[u] = "return"
           /\ fd'[u] = fd[u] /\ got'[u] = got[u]
    BY DEF SetupTypeOK
  <2>3. \A u \in Threads : InPool(u, 1) \subseteq InPool(u, 1)'
    BY DEF InPool, SetupTypeOK
  <2> QED
    BY <2>1, <2>2, <2>3, OrderKept
<1> QED
  BY <1>4, <1>5, <1>6, <1>7

LEMMA NextCallKeeps ==
    ASSUME SetupInv, NEW t \in Threads, NextCall(t)
    PROVE  SetupInv'
<1> USE DEF SetupInv, NextCall, Goto, poolVars, idVars
<1>1. SetupTypeOK'
  <2>1. pc' \in [Threads -> {"idle", "pool", "create", "test", "grow", "return", "call",
                             "called", "undefined"}]
        /\ \A u \in Clients : pc'[u] # "undefined"
    BY DEF SetupTypeOK, Threads
  <2>2. open' \subseteq Fds
    BY DEF SetupTypeOK
  <2> QED
    BY <2>1, <2>2 DEF SetupTypeOK
<1>2. SetupPhases' /\ IdPhases'
  BY DEF SetupTypeOK, SetupPhases, IdPhases, Inside
<1>3. ASSUME Len(pools') = 1 /\ ~raced' PROVE PoolInOrder'
  <2>1. PoolInOrder
    BY <1>3
  <2>2. \A u \in Threads :
           /\ pc'[u] = "grow" <=> pc[u] = "grow"
           /\ pc'[u] = "return" => pc[u] = "return"
           /\ fd'[u] = fd[u] /\ got'[u] = got[u]
    BY DEF SetupTypeOK
  <2>3. \A u \in Threads : InPool(u, 1) \subseteq InPool(u, 1)'
    BY DEF InPool, SetupTypeOK
  <2> QED
    BY <2>1, <2>2, <2>3, OrderKept
<1> QED
  BY <1>1, <1>2, <1>3

LEMMA SetupStep == SetupInv /\ [Next]_vars => SetupInv'
<1> SUFFICES ASSUME SetupInv, [Next]_vars PROVE SetupInv'
  OBVIOUS
<1>1. ASSUME NEW t \in Threads, Step(t) PROVE SetupInv'
  BY <1>1, NewConnectionKeeps, GetPoolKeeps, CreatePoolKeeps, TestSizeKeeps, PushEventKeeps,
     SetSizeKeeps, ReturnEventKeeps, GenMsgIDKeeps, NextCallKeeps DEF Step
<1>2. CASE UNCHANGED vars
  <2>1. SetupTypeOK' /\ SetupPhases' /\ IdPhases'
    BY <1>2 DEF vars, poolVars, idVars, SetupInv, SetupTypeOK, SetupPhases, IdPhases
  <2>2. Len(pools') = 1 /\ ~raced' => PoolInOrder'
    BY <1>2 DEF vars, poolVars, idVars, SetupInv, PoolInOrder, GrowsInOrder, InPool
  <2> QED
    BY <2>1, <2>2 DEF SetupInv
<1> QED
  BY <1>1, <1>2 DEF Next, Undefined

LEMMA SetupInvariant == Spec => []SetupInv
<1> QED
  BY SetupInit, SetupStep, PTL DEF Spec

\* Each thread is at one of its places, holds a pool that was made, and has as
\* many FdEvents, and an id of such a length, as it may have; for any number of
\* threads and descriptors.
THEOREM SetupTypeCorrect == Spec => []SetupTypeOK
<1>1. SetupInv => SetupTypeOK
  BY DEF SetupInv
<1> QED
  BY <1>1, SetupInvariant, PTL

-----------------------------------------------------------------------------
\* As long as one pool was made and nobody was in it while another thread grew
\* it, getFdEvent returns the FdEvent made for the fd it is asked for, and both
\* lookups of a client return the same one (fd_event_pool.cc:28); however large
\* the fd, however often the pool has grown, and by whichever thread.
THEOREM LookupFindsOwnEvent == Spec => []EventIsOwn
<1>1. SetupInv => EventIsOwn
  <2> SUFFICES ASSUME SetupInv, Len(pools) <= 1, ~raced,
                      NEW t \in Threads, NEW i \in DOMAIN got[t], NEW j \in DOMAIN got[t]
               PROVE  LET e == got[t][i] IN
                      /\ e # Wild /\ e = got[t][j]
                      /\ pools[e.pool].events[e.at] = fd[t]
    BY DEF EventIsOwn
  <2>1. got[t] \in Seq([pool : Nat, at : Nat]) /\ fd[t] \in Nat /\ Len(pools) \in Nat
    BY SetupAssumption DEF SetupInv, SetupTypeOK, Fds, NoFd
  <2>2. i \in 1..Len(got[t]) /\ j \in 1..Len(got[t])
    BY <2>1, SMTT(60)
  <2>3. Len(pools) = 1
    <3>1. pools # <<>>
      BY <2>2 DEF SetupInv, SetupPhases
    <3> QED
      BY <2>1, <3>1, SMTT(60) DEF SetupInv, SetupTypeOK
  <2>4. PoolInOrder
    BY <2>3 DEF SetupInv
  <2>5. /\ got[t][i] = [pool |-> 1, at |-> fd[t] + 1]
        /\ got[t][j] = [pool |-> 1, at |-> fd[t] + 1]
        /\ fd[t] < Len(pools[1].events)
    BY <2>2, <2>4 DEF PoolInOrder
  <2>6. Len(pools[1].events) \in Nat
    <3>1. pools \in Seq(Pools) /\ 1 \in 1..Len(pools)
      BY <2>3 DEF SetupInv, SetupTypeOK, Pools
    <3> QED
      BY ONLY <3>1, PoolType
  <2>7. pools[1].events[fd[t] + 1] = fd[t]
    <3>1. fd[t] + 1 \in 1..Len(pools[1].events) /\ (fd[t] + 1) - 1 = fd[t]
      BY <2>1, <2>5, <2>6
    <3>2. \A k \in 1..Len(pools[1].events) : pools[1].events[k] = k - 1
      BY <2>4 DEF PoolInOrder
    <3> QED
      BY ONLY <3>1, <3>2
  <2> QED
    BY <2>5, <2>7 DEF Wild
<1> QED
  BY <1>1, SetupInvariant, PTL

-----------------------------------------------------------------------------
(* The numbers that ids read as.                                            *)

\* The numbers that the first digits of d read as.
Reads(d, v, n) ==
    \A m \in 0..n : v[m] = IF m = 0 THEN 0 ELSE Base * v[m - 1] + d[m]

LEMMA Times == \A a, x, y \in Nat : a * x + y \in Nat /\ a * (x + 1) = a * x + a
<1> QED
  OBVIOUS

LEMMA ReadsExists ==
    ASSUME NEW d \in Random
    PROVE  \E v \in [0..IdLength -> Nat] : Reads(d, v, IdLength)
<1> DEFINE T == {n \in 0..IdLength : ~ \E v \in [0..n -> Nat] : Reads(d, v, n)}
<1>1. IdLength \in Nat /\ Base \in Nat /\ \A i \in 1..IdLength : d[i] \in Nat
  BY IdAssumption DEF Random, Digits
<1>2. ASSUME T # {} PROVE FALSE
  <2>0. T \subseteq Nat /\ T \subseteq 0..IdLength
    BY <1>1
  <2>1. PICK n \in T : \A m \in T : n <= m
    BY ONLY <2>0, <1>2, LeastNat
  <2>2. CASE n = 0
    <3>1. [m \in 0..0 |-> 0] \in [0..0 -> Nat] /\ Reads(d, [m \in 0..0 |-> 0], 0)
      BY DEF Reads
    <3> QED
      BY <2>1, <2>2, <3>1
  <2>3. CASE n # 0
    <3>1. n - 1 \in 0..IdLength /\ n \in 1..IdLength /\ ~ (n - 1 \in T)
      <4> HIDE DEF T
      <4> QED
        BY <1>1, <2>0, <2>1, <2>3
    <3>2. PICK v \in [0..(n - 1) -> Nat] : Reads(d, v, n - 1)
      BY <3>1
    <3> DEFINE w == [m \in 0..n |-> IF m = n THEN Base * v[n - 1] + d[n] ELSE v[m]]
    <3>3. Base * v[n - 1] + d[n] \in Nat
      <4>1. v[n - 1] \in Nat /\ d[n] \in Nat /\ Base \in Nat
        BY <1>1, <3>1, <3>2
      <4> QED
        BY ONLY <4>1, Times
    <3>4. w \in [0..n -> Nat]
      BY <1>1, <3>1, <3>3
    <3>5. ASSUME NEW m \in 0..n
          PROVE  w[m] = IF m = 0 THEN 0 ELSE Base * w[m - 1] + d[m]
      <4>1. CASE m = n
        <5>1. w[n] = Base * v[n - 1] + d[n] /\ w[n - 1] = v[n - 1]
          BY <1>1, <3>1
        <5> QED
          BY <2>3, <4>1, <5>1
      <4>2. CASE m # n
        <5>1. m \in 0..(n - 1) /\ w[m] = v[m]
          BY <1>1, <3>1, <4>2
        <5>2. m # 0 => w[m - 1] = v[m - 1]
          BY <1>1, <3>1, <4>2
        <5>3. v[m] = IF m = 0 THEN 0 ELSE Base * v[m - 1] + d[m]
          BY <3>2, <5>1 DEF Reads
        <5> QED
          BY <5>1, <5>2, <5>3
      <4> QED
        BY <4>1, <4>2
    <3> HIDE DEF w
    <3>6. Reads(d, w, n)
      BY <3>5 DEF Reads
    <3> QED
      BY <2>1, <3>4, <3>6
  <2> QED
    BY <2>2, <2>3
<1>3. IdLength \in 0..IdLength
  BY <1>1
<1> QED
  BY <1>2, <1>3

\* There is one way to read an id, which is the one ValueOf takes.
LEMMA ReadsOnce ==
    ASSUME NEW d, NEW v, NEW w, NEW l \in Nat, Reads(d, v, l), Reads(d, w, l)
    PROVE  v[l] = w[l]
<1> DEFINE T == {n \in 0..l : v[n] # w[n]}
<1>1. ASSUME T # {} PROVE FALSE
  <2>0. T \subseteq Nat /\ T \subseteq 0..l
    OBVIOUS
  <2>1. PICK n \in T : \A m \in T : n <= m
    BY ONLY <2>0, <1>1, LeastNat
  <2>2. n # 0 => v[n - 1] = w[n - 1]
    BY <2>1
  <2> QED
    BY <2>1, <2>2 DEF Reads
<1> QED
  BY <1>1

LEMMA ValueRead ==
    ASSUME NEW d \in Random
    PROVE  \E v \in [0..IdLength -> Nat] : Reads(d, v, IdLength) /\ ValueOf(d) = v[IdLength]
<1>1. IdLength \in Nat /\ Len(d) = IdLength
  BY IdAssumption DEF Random
<1>2. PICK v \in [0..IdLength -> Nat] : Reads(d, v, IdLength)
  BY ReadsExists
<1> DEFINE F(f) == [n \in 0..Len(d) |-> IF n = 0 THEN 0 ELSE Base * f[n - 1] + d[n]]
           value == CHOOSE f : f = F(f)
<1>3. v = F(v)
  BY <1>1, <1>2 DEF Reads
<1>4. value = F(value)
  BY <1>3
<1>5. ValueOf(d) = value[Len(d)]
  BY DEF ValueOf
<1> HIDE DEF value
<1>6. Reads(d, value, IdLength)
  BY <1>1, <1>4 DEF Reads
<1>7. v[IdLength] = value[IdLength]
  BY <1>1, <1>2, <1>6, ReadsOnce
<1> QED
  BY <1>1, <1>2, <1>5, <1>7

\* The number of the next id.
LEMMA NextIdCounts ==
    ASSUME NEW d \in Random, ~Nines(d)
    PROVE  ValueOf(NextId(d)) = ValueOf(d) + 1
<1> DEFINE e == NextId(d)
<1>1. IdLength \in Nat /\ Base \in Nat /\ Base # 0 /\ DOMAIN d = 1..IdLength
      /\ Len(d) = IdLength /\ \A k \in 1..IdLength : d[k] \in Nat
  BY IdAssumption DEF Random, Digits
<1>2. PICK i \in 1..IdLength :
         LastNotNine(d, i) /\ e = [j \in 1..IdLength |->
            IF j < i THEN d[j] ELSE IF j = i THEN d[j] + 1 ELSE 0]
  BY NextIdSteps
<1>3. PICK v \in [0..IdLength -> Nat] : Reads(d, v, IdLength) /\ ValueOf(d) = v[IdLength]
  BY ValueRead
<1>4. PICK w \in [0..IdLength -> Nat] : Reads(e, w, IdLength) /\ ValueOf(e) = w[IdLength]
  BY ValueRead, NextIdType
<1> DEFINE T == {n \in 0..IdLength : ~ (w[n] = IF n < i THEN v[n] ELSE v[n] + 1)}
<1>5. ASSUME T # {} PROVE FALSE
  <2>0. T \subseteq Nat /\ T \subseteq 0..IdLength
    BY <1>1
  <2>1. PICK n \in T : \A m \in T : n <= m
    BY ONLY <2>0, <1>5, LeastNat
  <2>2. n # 0
    <3>1. v[0] = 0 /\ w[0] = 0
      BY <1>1, <1>3, <1>4 DEF Reads
    <3> QED
      BY <1>2, <2>1, <3>1
  <2>3. n \in 1..IdLength /\ n - 1 \in 0..IdLength /\ v[n - 1] \in Nat /\ d[n] \in Nat
    BY <1>1, <2>1, <2>2
  <2>4. w[n - 1] = IF n - 1 < i THEN v[n - 1] ELSE v[n - 1] + 1
    BY <2>1, <2>3
  <2>5. v[n] = Base * v[n - 1] + d[n] /\ w[n] = Base * w[n - 1] + e[n]
    BY <1>3, <1>4, <2>2, <2>3 DEF Reads
  <2>6. Base * v[n - 1] \in Nat /\ Base * (v[n - 1] + 1) = Base * v[n - 1] + Base
    BY <1>1, <2>3, Times
  <2>7. CASE n < i
    <3>1. w[n - 1] = v[n - 1] /\ e[n] = d[n]
      BY <1>2, <2>3, <2>4, <2>7
    <3> QED
      BY <2>1, <2>5, <2>7, <3>1
  <2>8. CASE n = i
    <3>1. w[n - 1] = v[n - 1] /\ e[n] = d[n] + 1
      BY <1>2, <2>3, <2>4, <2>8
    <3>2. w[n] = v[n] + 1
      BY <2>3, <2>5, <2>6, <3>1
    <3> QED
      BY <2>1, <2>8, <3>2, <1>2
  <2>9. CASE n > i
    <3>1. w[n - 1] = v[n - 1] + 1 /\ e[n] = 0 /\ d[n] = Base - 1
      BY <1>1, <1>2, <2>3, <2>4, <2>9 DEF LastNotNine
    <3>2. w[n] = v[n] + 1
      BY <1>1, <2>3, <2>5, <2>6, <3>1
    <3> QED
      BY <2>1, <2>9, <3>2, <1>2
  <2> QED
    BY <1>2, <2>3, <2>7, <2>8, <2>9
<1>6. w[IdLength] = v[IdLength] + 1
  <2>1. IdLength \in 0..IdLength /\ ~ (IdLength < i)
    BY <1>1, <1>2
  <2> QED
    BY <1>5, <2>1
<1> QED
  BY <1>3, <1>4, <1>6

\* The ids of a thread count up by one from a random start, anew at the
\* all-nines id but only once (msg_util.cc:77-88): for ids of any length and
\* any base.
THEOREM IdsCountUp == Spec => IdsAreConsecutive
<1> DEFINE Consecutive(t) ==
              \/ id[t] # <<>> /\ ValueOf(id'[t]) = ValueOf(id[t]) + 1
              \/ id[t] = <<>> /\ limit[t] = 0
              \/ Nines(id[t]) /\ limit[t] = IdLength
              \/ Nines(id[t]) /\ limit[t] = 2 * IdLength /\ id'[t] = id[t]
           Changes(t) == id'[t] # id[t] \/ limit'[t] # limit[t]
                         \/ (pc[t] = "call" /\ pc'[t] = "called")
<1>1. ASSUME SetupInv, NEW t \in Threads, GenMsgID(t)
      PROVE  Consecutive(t)
  <2>1. /\ id[t] \in {<<>>} \cup Random /\ limit[t] \in {0, IdLength, 2 * IdLength}
        /\ id[t] = <<>> <=> limit[t] = 0
    BY <1>1 DEF SetupInv, SetupTypeOK, IdPhases
  <2>2. IdLength \in Nat /\ IdLength # 0 /\ \A d \in Random : Len(d) = IdLength /\ d # <<>>
    BY IdAssumption DEF Random
  <2>3. CASE id[t] = <<>>
    BY <2>1, <2>3
  <2>4. CASE id[t] # <<>> /\ Nines(id[t]) /\ limit[t] = IdLength
    BY <2>4
  <2>5. CASE id[t] # <<>> /\ Nines(id[t]) /\ limit[t] # IdLength
    <3>1. limit[t] = 2 * IdLength /\ ~Refills(id[t], limit[t])
      BY <2>1, <2>2, <2>5 DEF Refills
    <3>2. id'[t] = NextId(id[t])
      BY <1>1, <3>1 DEF GenMsgID, SetupInv, SetupTypeOK
    <3>3. NextId(id[t]) = id[t]
      BY <2>5 DEF NextId
    <3> QED
      BY <2>5, <3>1, <3>2, <3>3
  <2>6. CASE id[t] # <<>> /\ ~Nines(id[t])
    <3>1. id'[t] = NextId(id[t])
      BY <1>1, <2>6 DEF GenMsgID, SetupInv, SetupTypeOK, Refills
    <3>2. ValueOf(NextId(id[t])) = ValueOf(id[t]) + 1
      BY <2>1, <2>6, NextIdCounts
    <3> QED
      BY <2>6, <3>1, <3>2
  <2> QED
    BY <2>3, <2>4, <2>5, <2>6
<1> HIDE DEF Consecutive
<1>2. ASSUME SetupInv, NEW t \in Threads, NEW u \in Threads, Step(u), Changes(t)
      PROVE  GenMsgID(t)
  <2> USE DEF SetupInv, SetupTypeOK, Goto, idVars
  <2>1. ~ NewConnection(u) /\ ~ GetPool(u) /\ ~ CreatePool(u) /\ ~ TestSize(u)
    BY <1>2 DEF NewConnection, GetPool, CreatePool, TestSize
  <2>2. ~ PushEvent(u) /\ ~ SetSize(u) /\ ~ ReturnEvent(u) /\ ~ NextCall(u)
    BY <1>2 DEF PushEvent, SetSize, ReturnEvent, NextCall
  <2>3. GenMsgID(u)
    BY <1>2, <2>1, <2>2 DEF Step
  <2>4. u = t
    BY <1>2, <2>3 DEF GenMsgID
  <2> QED
    BY <2>3, <2>4
<1>3. ASSUME UNCHANGED vars, NEW t \in Threads
      PROVE  ~ Changes(t)
  BY <1>3 DEF vars, idVars
<1> HIDE DEF Changes
<1>4. ASSUME SetupInv, [Next]_vars, NEW t \in Clients, Changes(t)
      PROVE  Consecutive(t)
  <2>1. t \in Threads
    BY DEF Threads
  <2>2. \E u \in Threads : Step(u)
    BY <1>3, <1>4, <2>1 DEF Next, Undefined
  <2> QED
    BY <1>1, <1>2, <1>4, <2>1, <2>2
<1>5. SetupInv /\ [Next]_vars => \A t \in Clients : Changes(t) => Consecutive(t)
  BY <1>4
<1>6. SetupInv /\ [Next]_vars =>
         [\A t \in Clients :
             id'[t] # id[t] \/ limit'[t] # limit[t] \/ (pc[t] = "call" /\ pc'[t] = "called") =>
                \/ id[t] # <<>> /\ ValueOf(id'[t]) = ValueOf(id[t]) + 1
                \/ id[t] = <<>> /\ limit[t] = 0
                \/ Nines(id[t]) /\ limit[t] = IdLength
                \/ Nines(id[t]) /\ limit[t] = 2 * IdLength /\ id'[t] = id[t]]_vars
  BY <1>5 DEF Changes, Consecutive
<1> QED
  BY <1>6, SetupInvariant, PTL DEF Spec, IdsAreConsecutive
=============================================================================
