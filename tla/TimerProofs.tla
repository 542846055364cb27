---------------------------- MODULE TimerProofs ----------------------------
(***************************************************************************)
(* Proofs about Timer, for any number of events, threads and intervals:    *)
(* the types, and, as long as no two threads have been in the map at once, *)
(* that the map is in order and holds an event at most once, and that the  *)
(* timerfd is armed, early enough, while an event waits.                   *)
(***************************************************************************)
EXTENDS Timer, FiniteSetTheorems, SequenceTheorems, TLAPS

\* A thread is in addTimeEvent, with an event it has not inserted yet.
Adding(t) == pc[t] \in {"add", "insert"}

\* Where a thread is says what it holds: an event to add or to delete, the
\* head of a copy to arm for; only the loop's thread is ever in onTimer.
Phases ==
    \A t \in Threads :
        /\ pc[t] \in {"add", "insert", "dellock", "delete", "return"} => arg[t] # None
        /\ pc[t] = "settime" => snapshot[t] # None
        /\ t # LoopThread =>
              /\ pc[t] \notin {"timerlock", "select", "readd", "tasks"}
              /\ ret[t] = "idle"
              /\ pc[t] # "idle" => arg[t] # None

\* An added event is in one place only: the map, the list of onTimer, or the
\* hands of one thread that adds it.
OnePlace ==
    /\ \A i \in DOMAIN pending : pending[i] \in added
    /\ \A i \in DOMAIN readd : readd[i] \in added
    /\ \A i, j \in DOMAIN readd : readd[i] = readd[j] => i = j
    /\ \A t \in Threads : Adding(t) => arg[t] \in added
    /\ \A t, u \in Threads : Adding(t) /\ Adding(u) /\ arg[t] = arg[u] => t = u
    /\ \A t \in Threads, i \in DOMAIN readd : Adding(t) => arg[t] # readd[i]

TimerInv ==
    /\ TypeOK /\ Phases /\ (~raced => OnePlace) /\ MapInOrder
    /\ ArmedWhilePending /\ ArmedUnlessOvertaken

-----------------------------------------------------------------------------
(* What the operations do to the map.                                       *)

\* The map with e inserted behind its first i events, and without its i-th.
Inserted(s, e, i) == SubSeq(s, 1, i) \o <<e>> \o SubSeq(s, i + 1, Len(s))
Removed(s, i) == SubSeq(s, 1, i - 1) \o SubSeq(s, i + 1, Len(s))

\* Where each event is after an insertion.
LEMMA InsertedSeq ==
    ASSUME NEW S, NEW s \in Seq(S), NEW e \in S, NEW i \in 0..Len(s)
    PROVE  /\ Inserted(s, e, i) \in Seq(S) /\ Len(Inserted(s, e, i)) = Len(s) + 1
           /\ \A k \in 1..i : Inserted(s, e, i)[k] = s[k]
           /\ Inserted(s, e, i)[i + 1] = e
           /\ \A k \in (i + 1)..Len(s) : Inserted(s, e, i)[k + 1] = s[k]
<1> DEFINE u == Inserted(s, e, i)
           a == SubSeq(s, 1, i)
           b == SubSeq(s, i + 1, Len(s))
           c == a \o <<e>>
<1>1. Len(s) \in Nat /\ i \in Nat /\ i <= Len(s) /\ \A k \in 1..Len(s) : s[k] \in S
  OBVIOUS
<1>2. a \in Seq(S) /\ Len(a) = i /\ \A k \in 1..i : a[k] = s[k]
  <2>1. 1 \in Int /\ i \in Int /\ \A k \in 1..i : s[k] \in S
    BY <1>1
  <2>2. /\ a \in Seq(S) /\ Len(a) = IF 1 <= i THEN i - 1 + 1 ELSE 0
        /\ \A k \in 1..(i - 1 + 1) : a[k] = s[1 + k - 1]
    BY ONLY <2>1, SubSeqProperties
  <2> HIDE DEF a
  <2> QED
    BY <1>1, <2>2
<1>3. b \in Seq(S) /\ Len(b) = Len(s) - i /\ \A k \in 1..(Len(s) - i) : b[k] = s[i + k]
  <2>1. i + 1 \in Int /\ Len(s) \in Int /\ \A k \in (i + 1)..Len(s) : s[k] \in S
    BY <1>1
  <2>2. /\ b \in Seq(S) /\ Len(b) = IF i + 1 <= Len(s) THEN Len(s) - (i + 1) + 1 ELSE 0
        /\ \A k \in 1..(Len(s) - (i + 1) + 1) : b[k] = s[i + 1 + k - 1]
    BY ONLY <2>1, SubSeqProperties
  <2> HIDE DEF b
  <2> QED
    BY <1>1, <2>2
<1> HIDE DEF a, b
<1>4. c \in Seq(S) /\ Len(c) = i + 1 /\ \A k \in 1..(i + 1) : c[k] = IF k <= i THEN s[k] ELSE e
  <2>1. c = Append(a, e)
    BY <1>2
  <2> QED
    BY <1>1, <1>2, <2>1
<1> HIDE DEF c
<1>5. c \o b \in Seq(S) /\ Len(c \o b) = Len(c) + Len(b)
      /\ \A k \in 1..(Len(c) + Len(b)) :
            (c \o b)[k] = IF k <= Len(c) THEN c[k] ELSE b[k - Len(c)]
  BY ONLY <1>3, <1>4, ConcatProperties, Zenon
<1> HIDE DEF u
<1>6. /\ u \in Seq(S) /\ Len(u) = Len(c) + Len(b)
      /\ \A k \in 1..(Len(c) + Len(b)) : u[k] = IF k <= Len(c) THEN c[k] ELSE b[k - Len(c)]
  <2>1. u = c \o b
    BY DEF u, c, a, b, Inserted
  <2> QED
    BY ONLY <1>5, <2>1, Zenon
<1>7. \A k \in 1..(Len(s) + 1) :
         u[k] = IF k <= i THEN s[k] ELSE IF k = i + 1 THEN e ELSE s[k - 1]
  <2>0. Len(c) + Len(b) = Len(s) + 1 /\ Len(c) = i + 1 /\ Len(s) \in Nat /\ i \in Nat
    BY ONLY <1>1, <1>3, <1>4
  <2>1. \A k \in 1..(Len(s) + 1) : u[k] = IF k <= i + 1 THEN c[k] ELSE b[k - (i + 1)]
    BY ONLY <1>6, <2>0, Zenon
  <2>2. \A k \in 1..(Len(s) + 1) : k > i + 1 => b[k - (i + 1)] = s[k - 1]
    <3> SUFFICES ASSUME NEW k \in 1..(Len(s) + 1), k > i + 1
                 PROVE  b[k - (i + 1)] = s[k - 1]
      OBVIOUS
    <3>1. k - (i + 1) \in 1..(Len(s) - i) /\ i + (k - (i + 1)) = k - 1
      BY <1>1
    <3> QED
      BY ONLY <1>3, <3>1
  <2> QED
    BY ONLY <1>4, <2>0, <2>1, <2>2
<1>8. u \in Seq(S) /\ Len(u) = Len(s) + 1
  BY ONLY <1>1, <1>3, <1>4, <1>6
<1>9. (\A k \in 1..i : u[k] = s[k]) /\ u[i + 1] = e
  BY ONLY <1>1, <1>7
<1>10. \A k \in (i + 1)..Len(s) : u[k + 1] = s[k]
  <2> SUFFICES ASSUME NEW k \in (i + 1)..Len(s) PROVE u[k + 1] = s[k]
    OBVIOUS
  <2>1. k + 1 \in 1..(Len(s) + 1) /\ ~(k + 1 <= i) /\ k + 1 # i + 1 /\ (k + 1) - 1 = k
    BY <1>1
  <2> QED
    BY ONLY <1>7, <2>1
<1> QED
  BY ONLY <1>8, <1>9, <1>10, Zenon DEF u

\* And after a removal.
LEMMA RemovedSeq ==
    ASSUME NEW S, NEW s \in Seq(S), NEW i \in 1..Len(s), NEW u,
           u = Removed(s, i)
    PROVE  /\ u \in Seq(S) /\ Len(u) = Len(s) - 1
           /\ \A k \in 1..(Len(s) - 1) : u[k] = IF k < i THEN s[k] ELSE s[k + 1]
<1> DEFINE a == SubSeq(s, 1, i - 1)
           b == SubSeq(s, i + 1, Len(s))
<1>1. Len(s) \in Nat /\ i \in Nat /\ 1 <= i /\ i <= Len(s) /\ \A k \in 1..Len(s) : s[k] \in S
  OBVIOUS
<1>2. a \in Seq(S) /\ Len(a) = i - 1 /\ \A k \in 1..(i - 1) : a[k] = s[k]
  <2>1. 1 \in Int /\ i - 1 \in Int /\ \A k \in 1..(i - 1) : s[k] \in S
    BY <1>1
  <2>2. /\ a \in Seq(S) /\ Len(a) = IF 1 <= i - 1 THEN (i - 1) - 1 + 1 ELSE 0
        /\ \A k \in 1..((i - 1) - 1 + 1) : a[k] = s[1 + k - 1]
    BY ONLY <2>1, SubSeqProperties
  <2> HIDE DEF a
  <2> QED
    BY <1>1, <2>2
<1>3. b \in Seq(S) /\ Len(b) = Len(s) - i /\ \A k \in 1..(Len(s) - i) : b[k] = s[i + k]
  <2>1. i + 1 \in Int /\ Len(s) \in Int /\ \A k \in (i + 1)..Len(s) : s[k] \in S
    BY <1>1
  <2>2. /\ b \in Seq(S) /\ Len(b) = IF i + 1 <= Len(s) THEN Len(s) - (i + 1) + 1 ELSE 0
        /\ \A k \in 1..(Len(s) - (i + 1) + 1) : b[k] = s[i + 1 + k - 1]
    BY ONLY <2>1, SubSeqProperties
  <2> HIDE DEF b
  <2> QED
    BY <1>1, <2>2
<1> HIDE DEF a, b
<1>4. a \o b \in Seq(S) /\ Len(a \o b) = Len(a) + Len(b)
      /\ \A k \in 1..(Len(a) + Len(b)) :
            (a \o b)[k] = IF k <= Len(a) THEN a[k] ELSE b[k - Len(a)]
  BY ONLY <1>2, <1>3, ConcatProperties, Zenon
<1>5. /\ u \in Seq(S) /\ Len(u) = Len(a) + Len(b)
      /\ \A k \in 1..(Len(a) + Len(b)) : u[k] = IF k <= Len(a) THEN a[k] ELSE b[k - Len(a)]
  <2>1. u = a \o b
    BY DEF a, b, Removed
  <2> QED
    BY ONLY <1>4, <2>1, Zenon
<1>6. \A k \in 1..(Len(s) - 1) : u[k] = IF k < i THEN s[k] ELSE s[k + 1]
  <2>0. Len(a) + Len(b) = Len(s) - 1 /\ Len(a) = i - 1 /\ Len(s) \in Nat /\ i \in Nat
    BY ONLY <1>1, <1>2, <1>3
  <2>1. \A k \in 1..(Len(s) - 1) : u[k] = IF k <= i - 1 THEN a[k] ELSE b[k - (i - 1)]
    BY ONLY <1>5, <2>0, Zenon
  <2>2. \A k \in 1..(Len(s) - 1) : k >= i => b[k - (i - 1)] = s[k + 1]
    <3> SUFFICES ASSUME NEW k \in 1..(Len(s) - 1), k >= i
                 PROVE  b[k - (i - 1)] = s[k + 1]
      OBVIOUS
    <3>1. k - (i - 1) \in 1..(Len(s) - i) /\ i + (k - (i - 1)) = k + 1
      BY <1>1
    <3> QED
      BY ONLY <1>3, <3>1
  <2> QED
    BY ONLY <1>1, <1>2, <2>0, <2>1, <2>2
<1>7. u \in Seq(S) /\ Len(u) = Len(s) - 1
  BY ONLY <1>1, <1>2, <1>3, <1>5
<1> QED
  BY ONLY <1>6, <1>7, Zenon

\* The map without its first n events.
LEMMA RestSeq ==
    ASSUME NEW S, NEW s \in Seq(S), NEW n \in 0..Len(s), NEW u,
           u = SubSeq(s, n + 1, Len(s))
    PROVE  /\ u \in Seq(S) /\ Len(u) = Len(s) - n
           /\ \A k \in 1..(Len(s) - n) : u[k] = s[n + k]
<1>1. n + 1 \in Int /\ Len(s) \in Int /\ n \in Nat /\ \A k \in (n + 1)..Len(s) : s[k] \in S
  OBVIOUS
<1>2. /\ u \in Seq(S) /\ Len(u) = IF n + 1 <= Len(s) THEN Len(s) - (n + 1) + 1 ELSE 0
      /\ \A k \in 1..(Len(s) - (n + 1) + 1) : u[k] = s[n + 1 + k - 1]
  <2> DEFINE v == SubSeq(s, n + 1, Len(s))
  <2>1. /\ v \in Seq(S) /\ Len(v) = IF n + 1 <= Len(s) THEN Len(s) - (n + 1) + 1 ELSE 0
        /\ \A k \in 1..(Len(s) - (n + 1) + 1) : v[k] = s[n + 1 + k - 1]
    BY ONLY <1>1, SubSeqProperties
  <2>2. u = v
    OBVIOUS
  <2> HIDE DEF v
  <2> QED
    BY <2>1, <2>2
<1> QED
  BY <1>1, <1>2

-----------------------------------------------------------------------------
(* Types and phases.                                                        *)

\* A map of events stays one, and as long as no two threads have been in it at
\* once it is what it should be.
LEMMA DamagedMap ==
    ASSUME NEW S, NEW s \in Seq(S), NEW m \in Damaged(s)
    PROVE  m \in Seq(S) /\ (~raced => m = s)
<1>1. CASE raced
  <2>1. PICK w \in Walks(Len(s)) : m = [i \in DOMAIN w |-> s[w[i]]]
    BY <1>1 DEF Damaged
  <2>2. PICK k \in 0..Len(s) : w \in [1..k -> 1..Len(s)]
    BY DEF Walks
  <2>3. k \in Nat /\ \A i \in 1..k : s[w[i]] \in S
    BY <2>2
  <2> QED
    BY <1>1, <2>1, <2>2, <2>3
<1>2. CASE ~raced
  BY <1>2 DEF Damaged
<1> QED
  BY <1>1, <1>2

\* The map after emplace: e is in it, behind events that are due no later and
\* before events that are due later, or as overdue.
LEMMA EmplacedMap ==
    ASSUME TypeOK, NEW e \in TimeEvents, pending' \in Emplaced(e)
    PROVE  /\ pending' \in Seq(TimeEvents) /\ Len(pending') = Len(pending) + 1
           /\ \E i \in 0..Len(pending) :
                /\ \A k \in 1..i : pending'[k] = pending[k] /\ due[pending[k]] <= due[e]
                /\ pending'[i + 1] = e
                /\ \A k \in (i + 1)..Len(pending) : pending'[k + 1] = pending[k]
                /\ \A j \in (i + 1)..Len(pending) :
                      due[pending[j]] > due[e] \/ due[pending[j]] + due[e] = 0
<1>1. PICK i \in 0..Len(pending) :
        /\ pending' = SubSeq(pending, 1, i) \o <<e>> \o SubSeq(pending, i + 1, Len(pending))
        /\ \A j \in 1..i : due[pending[j]] <= due[e]
        /\ \A j \in (i + 1)..Len(pending) :
              due[pending[j]] > due[e] \/ due[pending[j]] + due[e] = 0
  BY DEF Emplaced
<1>2. pending \in Seq(TimeEvents)
  BY DEF TypeOK
<1>3. /\ pending' \in Seq(TimeEvents) /\ Len(pending') = Len(pending) + 1
      /\ \A k \in 1..i : pending'[k] = pending[k]
      /\ pending'[i + 1] = e
      /\ \A k \in (i + 1)..Len(pending) : pending'[k + 1] = pending[k]
  <2>1. pending' = Inserted(pending, e, i)
    BY <1>1 DEF Inserted
  <2>2. e \in TimeEvents /\ i \in 0..Len(pending)
    OBVIOUS
  <2>3. /\ Inserted(pending, e, i) \in Seq(TimeEvents)
        /\ Len(Inserted(pending, e, i)) = Len(pending) + 1
    BY ONLY <1>2, <2>2, InsertedSeq
  <2>4. /\ \A k \in 1..i : Inserted(pending, e, i)[k] = pending[k]
        /\ Inserted(pending, e, i)[i + 1] = e
        /\ \A k \in (i + 1)..Len(pending) : Inserted(pending, e, i)[k + 1] = pending[k]
    BY ONLY <1>2, <2>2, InsertedSeq
  <2> QED
    BY ONLY <2>1, <2>3, <2>4
<1> QED
  BY <1>1, <1>3

\* The map after the search and erase of deleteTimeEvent.
LEMMA DeletedMap ==
    ASSUME TypeOK, NEW t \in Threads, Delete(t)
    PROVE  /\ pending' \in Seq(TimeEvents) /\ erased' \in SUBSET TimeEvents
           /\ ~raced =>
                \/ UNCHANGED pending
                \/ \E i \in DOMAIN pending :
                      /\ Len(pending') = Len(pending) - 1
                      /\ \A k \in 1..(Len(pending) - 1) :
                            pending'[k] = IF k < i THEN pending[k] ELSE pending[k + 1]
<1>1. pending \in Seq(TimeEvents) /\ erased \in SUBSET TimeEvents
  BY DEF TypeOK
<1>2. PICK map \in Damaged(pending) :
        \/ pending' = map /\ UNCHANGED erased
        \/ \E i \in DOMAIN map :
              /\ pending' = SubSeq(map, 1, i - 1) \o SubSeq(map, i + 1, Len(map))
              /\ erased' = erased \cup {map[i]}
  BY DEF Delete
<1>3. map \in Seq(TimeEvents) /\ (~raced => map = pending)
  BY <1>1, <1>2, DamagedMap
<1>4. CASE pending' = map /\ UNCHANGED erased
  BY <1>1, <1>3, <1>4
<1>5. ASSUME NEW i \in DOMAIN map,
             pending' = SubSeq(map, 1, i - 1) \o SubSeq(map, i + 1, Len(map)),
             erased' = erased \cup {map[i]}
      PROVE  /\ pending' \in Seq(TimeEvents) /\ erased' \in SUBSET TimeEvents
             /\ Len(pending') = Len(map) - 1
             /\ \A k \in 1..(Len(map) - 1) :
                   pending'[k] = IF k < i THEN map[k] ELSE map[k + 1]
  <2>1. i \in 1..Len(map) /\ map[i] \in TimeEvents
    BY <1>3
  <2>2. pending' = Removed(map, i)
    BY <1>5 DEF Removed
  <2>3. /\ pending' \in Seq(TimeEvents) /\ Len(pending') = Len(map) - 1
        /\ \A k \in 1..(Len(map) - 1) :
              pending'[k] = IF k < i THEN map[k] ELSE map[k + 1]
    BY ONLY <1>3, <2>1, <2>2, RemovedSeq, SMTT(60)
  <2> QED
    BY <1>1, <1>5, <2>1, <2>3
<1>6. CASE ~(pending' = map /\ UNCHANGED erased)
  <2>1. PICK i \in DOMAIN map :
          /\ pending' = SubSeq(map, 1, i - 1) \o SubSeq(map, i + 1, Len(map))
          /\ erased' = erased \cup {map[i]}
    BY <1>2, <1>6
  <2>2. /\ pending' \in Seq(TimeEvents) /\ erased' \in SUBSET TimeEvents
        /\ Len(pending') = Len(map) - 1
        /\ \A k \in 1..(Len(map) - 1) :
              pending'[k] = IF k < i THEN map[k] ELSE map[k + 1]
    BY <1>5, <2>1
  <2>3. ~raced => i \in DOMAIN pending /\ Len(pending') = Len(pending) - 1
                  /\ \A k \in 1..(Len(pending) - 1) :
                        pending'[k] = IF k < i THEN pending[k] ELSE pending[k + 1]
    BY ONLY <1>3, <2>1, <2>2, Zenon
  <2> QED
    BY ONLY <2>2, <2>3, Zenon
<1> QED
  BY <1>4, <1>6

\* What onTimer takes from the map and what it keeps.
LEMMA SelectedMap ==
    ASSUME TypeOK, SelectDue
    PROVE  /\ pending' \in Seq(TimeEvents) /\ readd' \in Seq(TimeEvents) /\ tasks' = readd'
           /\ ~raced =>
                \E n \in 0..Len(pending) :
                  /\ Len(pending') = Len(pending) - n
                  /\ \A k \in 1..(Len(pending) - n) : pending'[k] = pending[n + k]
                  /\ \E place \in [DOMAIN readd' -> 1..n] :
                        /\ \A i, j \in DOMAIN readd' : i < j => place[i] < place[j]
                        /\ \A i \in DOMAIN readd' : readd'[i] = pending[place[i]]
<1>0. PICK map \in Damaged(pending) : \E n \in 0..Len(map) :
        /\ LET kept == {i \in 1..n : ~cancelled[map[i]]} IN
           \E place \in [1..Cardinality(kept) -> kept] :
              /\ \A i, j \in DOMAIN place : i < j => place[i] < place[j]
              /\ readd' = [i \in DOMAIN place |-> map[place[i]]]
        /\ tasks' = readd'
        /\ pending' = SubSeq(map, n + 1, Len(map))
  BY DEF SelectDue
<1>1. map \in Seq(TimeEvents) /\ (~raced => map = pending)
  BY <1>0, DamagedMap DEF TypeOK
<1>2. PICK n \in 0..Len(map) :
        /\ LET kept == {i \in 1..n : ~cancelled[map[i]]} IN
           \E place \in [1..Cardinality(kept) -> kept] :
              /\ \A i, j \in DOMAIN place : i < j => place[i] < place[j]
              /\ readd' = [i \in DOMAIN place |-> map[place[i]]]
        /\ tasks' = readd'
        /\ pending' = SubSeq(map, n + 1, Len(map))
  BY <1>0
<1>3. /\ pending' \in Seq(TimeEvents) /\ Len(pending') = Len(map) - n
      /\ \A k \in 1..(Len(map) - n) : pending'[k] = map[n + k]
  BY ONLY <1>1, <1>2, RestSeq
<1> DEFINE kept == {i \in 1..n : ~cancelled[map[i]]}
<1>4. n \in Nat /\ Cardinality(kept) \in Nat
  <2>1. n \in Nat
    BY <1>1
  <2>2. IsFiniteSet(1..n)
    BY <2>1, FS_Interval
  <2>3. kept \subseteq 1..n
    OBVIOUS
  <2> QED
    BY <2>1, <2>2, <2>3, FS_Subset, FS_CardinalityType
<1>5. PICK place \in [1..Cardinality(kept) -> kept] :
        /\ \A i, j \in DOMAIN place : i < j => place[i] < place[j]
        /\ readd' = [i \in DOMAIN place |-> map[place[i]]]
  BY <1>2
<1>6. (\A k \in kept : k \in 1..n) /\ n <= Len(map) /\ Len(map) \in Nat
  BY <1>1, <1>4
<1> HIDE DEF kept
<1>7. \A i \in 1..Cardinality(kept) : place[i] \in 1..n /\ map[place[i]] \in TimeEvents
  <2> SUFFICES ASSUME NEW i \in 1..Cardinality(kept)
               PROVE  place[i] \in 1..n /\ map[place[i]] \in TimeEvents
    OBVIOUS
  <2>1. place[i] \in kept
    BY <1>5
  <2>2. place[i] \in 1..n
    BY <1>6, <2>1
  <2>3. place[i] \in 1..Len(map)
    BY <1>4, <1>6, <2>2
  <2> QED
    BY <1>1, <2>2, <2>3
<1>8. /\ readd' \in Seq(TimeEvents) /\ DOMAIN readd' = 1..Cardinality(kept)
      /\ \A i \in DOMAIN readd' : readd'[i] = map[place[i]]
  BY <1>4, <1>5, <1>7
<1>9. /\ place \in [DOMAIN readd' -> 1..n]
      /\ \A i, j \in DOMAIN readd' : i < j => place[i] < place[j]
  BY <1>5, <1>7, <1>8
<1>10. CASE raced
  BY <1>2, <1>3, <1>8, <1>10
<1>11. CASE ~raced
  <2>1. map = pending
    BY <1>1, <1>11
  <2> QED
    BY <1>2, <1>3, <1>8, <1>9, <2>1
<1> QED
  BY <1>10, <1>11

\* The initial state is well typed.
LEMMA InitType == Init => TypeOK /\ Phases
<1> SUFFICES ASSUME Init PROVE TypeOK /\ Phases
  OBVIOUS
<1>1. Phases
  BY DEF Init, Phases
<1>2. pending \in Seq(TimeEvents) /\ readd \in Seq(TimeEvents) /\ tasks \in Seq(TimeEvents)
  BY DEF Init
<1>3. pc \in [Threads -> Places] /\ ret \in [Threads -> {"idle", "readd", "tasks"}]
  BY DEF Init, Places
<1> QED
  BY <1>1, <1>2, <1>3 DEF Init, TypeOK

\* A call keeps the types and phases.
LEMMA CallType ==
    ASSUME TypeOK, Phases, NEW t \in Threads,
           AddTimeEvent(t) \/ DeleteTimeEvent(t) \/ SetCancel(t)
    PROVE  TypeOK' /\ Phases'
<1>1. CASE AddTimeEvent(t)
  <2>1. PICK e \in TimeEvents \ added :
          /\ Call(t, e, "add")
          /\ added' = added \cup {e}
          /\ due' = [due EXCEPT ![e] = Interval[e]]
          /\ last' = None /\ UNCHANGED <<cancelled, asked>>
    BY <1>1 DEF AddTimeEvent
  <2>2. due' \in [TimeEvents -> Nat] /\ added' \in SUBSET TimeEvents
    BY <2>1, TimerAssumption DEF TypeOK
  <2>3. pc' \in [Threads -> Places] /\ ret' \in [Threads -> {"idle", "readd", "tasks"}]
        /\ arg' \in [Threads -> TimeEvents \cup {None}]
    BY <2>1 DEF TypeOK, Call, Callers, Goto, Places
  <2>4. Phases'
    BY <2>1, TimerAssumption DEF TypeOK, Phases, Call, Callers, Goto
  <2> QED
    BY <2>1, <2>2, <2>3, <2>4 DEF TypeOK, Call, timerVars, batchVars
<1>2. CASE DeleteTimeEvent(t)
  <2>1. PICK e \in added \ asked :
          /\ Call(t, e, "dellock")
          /\ cancelled' = [cancelled EXCEPT ![e] = TRUE]
          /\ asked' = asked \cup {e}
          /\ last' = None /\ UNCHANGED <<added, due>>
    BY <1>2 DEF DeleteTimeEvent
  <2>2. e \in TimeEvents
    BY DEF TypeOK
  <2>3. pc' \in [Threads -> Places] /\ ret' \in [Threads -> {"idle", "readd", "tasks"}]
        /\ arg' \in [Threads -> TimeEvents \cup {None}]
    BY <2>1, <2>2 DEF TypeOK, Call, Callers, Goto, Places
  <2>4. Phases'
    BY <2>1, <2>2, TimerAssumption DEF TypeOK, Phases, Call, Callers, Goto
  <2> QED
    BY <2>1, <2>2, <2>3, <2>4 DEF TypeOK, Call, timerVars, batchVars
<1>3. CASE SetCancel(t)
  <2>1. PICK e \in added \ asked :
          /\ cancelled' = [cancelled EXCEPT ![e] = TRUE]
          /\ asked' = asked \cup {e}
          /\ last' = None
    BY <1>3 DEF SetCancel
  <2> QED
    BY <1>3, <2>1 DEF SetCancel, TypeOK, Phases, timerVars, batchVars, callVars
<1> QED
  BY <1>1, <1>2, <1>3

\* So does what a thread does in addTimeEvent, deleteTimeEvent and
\* resetArriveTime.
LEMMA StepType ==
    ASSUME TypeOK, Phases, NEW t \in Threads, Step(t)
    PROVE  TypeOK' /\ Phases'
<1> USE DEF timerVars, batchVars
<1>1. CASE TakeGuard(t)
  <2>1. PICK step \in {<<"add", "insert">>, <<"dellock", "delete">>,
                       <<"reset", "copy">>, <<"timerlock", "select">>} :
          pc[t] = step[1] /\ Enter(t, step[2])
    BY <1>1 DEF TakeGuard
  <2>2. pc' \in [Threads -> Places] /\ mutex' \in BOOLEAN /\ raced' \in BOOLEAN
    BY <2>1 DEF TypeOK, Enter, Goto, Places, Lock!Construct
  <2>3. Phases'
    BY <1>1, <2>1 DEF TakeGuard, TypeOK, Phases, Enter, Goto
  <2> QED
    BY <1>1, <2>2, <2>3 DEF TakeGuard, TypeOK
<1>2. CASE Insert(t)
  <2>1. arg[t] \in TimeEvents
    BY <1>2 DEF Insert, Phases, TypeOK
  <2>2. pending' \in Seq(TimeEvents)
    <3>1. CASE raced
      <4>1. Append(pending, arg[t]) \in Seq(TimeEvents)
        BY <2>1 DEF TypeOK
      <4> QED
        BY <1>2, <3>1, <4>1, DamagedMap DEF Insert
    <3>2. CASE ~raced
      BY <1>2, <2>1, <3>2, EmplacedMap DEF Insert
    <3> QED
      BY <3>1, <3>2
  <2>3. pc' \in [Threads -> Places] /\ mutex' \in BOOLEAN
    BY <1>2 DEF Insert, TypeOK, Goto, Places, Lock!Unlock
  <2>4. Phases'
    BY <1>2 DEF Insert, TypeOK, Phases, Goto
  <2> QED
    BY <1>2, <2>2, <2>3, <2>4 DEF Insert, TypeOK
<1>3. CASE Delete(t)
  <2>1. pending' \in Seq(TimeEvents) /\ erased' \in SUBSET TimeEvents
    BY <1>3, DeletedMap
  <2>2. pc' \in [Threads -> Places] /\ mutex' \in BOOLEAN
    BY <1>3 DEF Delete, TypeOK, Goto, Places, Lock!Unlock
  <2>3. Phases'
    BY <1>3 DEF Delete, TypeOK, Phases, Goto
  <2>4. UNCHANGED <<due, cancelled, added, armed, readable, queued, ret, arg, snapshot,
                    dueAtNow, readd, tasks, asked, overtaken, raced>> /\ last' = None
    BY <1>3 DEF Delete
  <2> QED
    BY <2>1, <2>2, <2>3, <2>4 DEF TypeOK
<1>4. CASE CopyMap(t)
  <2>0. PICK map \in Damaged(pending) :
          /\ snapshot' = [snapshot EXCEPT ![t] = IF map = <<>> THEN None ELSE Head(map)]
          /\ pc' = [pc EXCEPT ![t] = IF map = <<>> THEN "resetexit" ELSE "settime"]
    BY <1>4 DEF CopyMap, Goto
  <2>1. map # <<>> => Head(map) \in TimeEvents
    <3>1. map \in Seq(TimeEvents)
      BY <2>0, DamagedMap DEF TypeOK
    <3> QED
      BY <3>1
  <2>2. snapshot' \in [Threads -> TimeEvents \cup {None}] /\ pc' \in [Threads -> Places]
    BY <2>0, <2>1 DEF TypeOK, Places
  <2>3. Phases'
    BY <1>4, <2>0, <2>1, TimerAssumption DEF CopyMap, TypeOK, Phases
  <2> QED
    BY <1>4, <2>2, <2>3 DEF CopyMap, TypeOK, Lock!Unlock
<1>5. CASE SetTime(t)
  <2>1. snapshot[t] \in TimeEvents
    BY <1>5 DEF SetTime, Phases, TypeOK
  <2>2. armed' \in Nat /\ overtaken' \in BOOLEAN
    BY <1>5, <2>1 DEF SetTime, ArmFor, TypeOK
  <2>3. pc' \in [Threads -> Places]
    BY <1>5 DEF SetTime, TypeOK, Goto, Places
  <2>4. Phases'
    BY <1>5 DEF SetTime, TypeOK, Phases, Goto
  <2> QED
    BY <1>5, <2>2, <2>3, <2>4 DEF SetTime, TypeOK
<1>6. CASE ResetExit(t)
  <2>1. snapshot' \in [Threads -> TimeEvents \cup {None}] /\ pc' \in [Threads -> Places]
    BY <1>6 DEF ResetExit, TypeOK, Goto, Places
  <2>2. Phases'
    BY <1>6 DEF ResetExit, TypeOK, Phases, Goto
  <2> QED
    BY <1>6, <2>1, <2>2 DEF ResetExit, TypeOK, Lock!Destruct
<1>7. CASE Return(t)
  <2>1. arg' \in [Threads -> TimeEvents \cup {None}] /\ pc' \in [Threads -> Places]
    BY <1>7 DEF Return, TypeOK, Goto, Places
  <2>2. Phases'
    BY <1>7 DEF Return, TypeOK, Phases, Goto
  <2> QED
    BY <1>7, <2>1, <2>2 DEF Return, TypeOK, Lock!Destruct
<1> QED
  BY <1>1, <1>2, <1>3, <1>4, <1>5, <1>6, <1>7 DEF Step

\* So does onTimer, and the clock.
LEMMA OnTimerType ==
    ASSUME TypeOK, Phases,
           \/ Dispatch \/ OnTimer \/ SelectDue \/ Readd \/ ReaddDone
           \/ RunCallback \/ TimerExit \/ Tick
    PROVE  TypeOK' /\ Phases'
<1> USE DEF timerVars, batchVars, callVars
<1>0. LoopThread \in Threads
  BY DEF Threads
<1>1. CASE Dispatch
  BY <1>1 DEF Dispatch, TypeOK, Phases
<1>2. CASE OnTimer
  <2>1. pc' \in [Threads -> Places] /\ dueAtNow' \in SUBSET TimeEvents
    BY <1>2 DEF OnTimer, TypeOK, Goto, Places
  <2>2. Phases'
    BY <1>0, <1>2 DEF OnTimer, TypeOK, Phases, Goto
  <2> QED
    BY <1>2, <2>1, <2>2 DEF OnTimer, TypeOK
<1>3. CASE SelectDue
  <2>1. pending' \in Seq(TimeEvents) /\ readd' \in Seq(TimeEvents) /\ tasks' \in Seq(TimeEvents)
    BY <1>3, SelectedMap
  <2>2. pc' \in [Threads -> Places] /\ mutex' \in BOOLEAN /\ dueAtNow' \in SUBSET TimeEvents
    BY <1>3 DEF SelectDue, TypeOK, Goto, Places, Lock!Unlock
  <2>3. Phases'
    BY <1>0, <1>3 DEF SelectDue, TypeOK, Phases, Goto
  <2>4. UNCHANGED <<due, cancelled, added, armed, readable, queued, ret, arg, snapshot,
                    asked, erased, overtaken, raced>> /\ last' = None
    BY <1>3 DEF SelectDue
  <2> QED
    BY <2>1, <2>2, <2>3, <2>4 DEF TypeOK
<1>4. CASE Readd
  <2>1. Head(readd) \in TimeEvents /\ Tail(readd) \in Seq(TimeEvents)
    BY <1>4 DEF Readd, TypeOK
  <2>2. /\ due' \in [TimeEvents -> Nat] /\ pc' \in [Threads -> Places]
        /\ arg' \in [Threads -> TimeEvents \cup {None}]
        /\ ret' \in [Threads -> {"idle", "readd", "tasks"}]
    <3>1. CASE Head(readd) \in Repeated
      <4>1. /\ due' = [due EXCEPT ![Head(readd)] = Interval[Head(readd)]]
            /\ arg' = [arg EXCEPT ![LoopThread] = Head(readd)]
            /\ ret' = [ret EXCEPT ![LoopThread] = "readd"]
            /\ pc' = [pc EXCEPT ![LoopThread] = "add"]
        BY <1>4, <3>1 DEF Readd, Goto
      <4>2. Interval[Head(readd)] \in Nat
        BY <2>1, TimerAssumption
      <4> QED
        BY <2>1, <4>1, <4>2 DEF TypeOK, Places
    <3>2. CASE Head(readd) \notin Repeated
      BY <1>4, <3>2 DEF Readd, TypeOK
    <3> QED
      BY <3>1, <3>2
  <2>3. Phases'
    BY <1>0, <1>4, <2>1, TimerAssumption DEF Readd, TypeOK, Phases, Goto
  <2> QED
    BY <1>4, <2>1, <2>2, <2>3 DEF Readd, TypeOK
<1>5. CASE ReaddDone
  <2>1. pc' \in [Threads -> Places]
    BY <1>5 DEF ReaddDone, TypeOK, Goto, Places
  <2>2. Phases'
    BY <1>0, <1>5 DEF ReaddDone, TypeOK, Phases, Goto
  <2> QED
    BY <1>5, <2>1, <2>2 DEF ReaddDone, TypeOK
<1>6. CASE RunCallback
  <2>1. Head(tasks) \in TimeEvents /\ Tail(tasks) \in Seq(TimeEvents)
    BY <1>6 DEF RunCallback, TypeOK
  <2> QED
    BY <1>6, <2>1 DEF RunCallback, TypeOK, Phases
<1>7. CASE TimerExit
  <2>1. pc' \in [Threads -> Places]
    BY <1>7 DEF TimerExit, TypeOK, Goto, Places
  <2>2. Phases'
    BY <1>0, <1>7 DEF TimerExit, TypeOK, Phases, Goto
  <2> QED
    BY <1>7, <2>1, <2>2 DEF TimerExit, TypeOK, Lock!Destruct
<1>8. CASE Tick
  <2>1. due' \in [TimeEvents -> Nat] /\ armed' \in Nat /\ readable' \in BOOLEAN
    BY <1>8 DEF Tick, TypeOK
  <2> QED
    BY <1>8, <2>1 DEF Tick, TypeOK, Phases
<1> QED
  BY <1>1, <1>2, <1>3, <1>4, <1>5, <1>6, <1>7, <1>8

-----------------------------------------------------------------------------
(* The order of the map, and one place for each event.                      *)

\* The first conjunct of MapInOrder.
Ordered ==
    \A i, j \in DOMAIN pending :
        i < j => pending[i] # pending[j] /\ due[pending[i]] <= due[pending[j]]

\* A step that neither changes the map, the list of onTimer and the arrive
\* times nor puts an event into a thread's hands.
LEMMA QuietPlaces ==
    ASSUME ~raced, OnePlace, MapInOrder, UNCHANGED <<pending, readd, added, due>>,
           \A t \in Threads : Adding(t)' => Adding(t) /\ arg'[t] = arg[t]
    PROVE  OnePlace' /\ MapInOrder'
<1>1. OnePlace'
  BY DEF OnePlace
<1>2. \A t \in Threads : pc'[t] \in {"add", "insert"} => ~InMap(arg'[t])
  BY DEF MapInOrder, Adding
<1>3. MapInOrder'
  BY <1>2 DEF MapInOrder, InMap
<1> QED
  BY <1>1, <1>3

\* A map from which events were only taken is still in order.
LEMMA TakenOrder ==
    ASSUME Ordered, UNCHANGED due,
           NEW g \in [DOMAIN pending' -> DOMAIN pending],
           \A k, l \in DOMAIN pending' : k < l => g[k] < g[l],
           \A k \in DOMAIN pending' : pending'[k] = pending[g[k]]
    PROVE  /\ Ordered'
           /\ \A k \in DOMAIN pending' : \E i \in DOMAIN pending : pending'[k] = pending[i]
<1>1. \A k \in DOMAIN pending' : g[k] \in DOMAIN pending
  OBVIOUS
<1> QED
  BY <1>1 DEF Ordered

\* What deleteTimeEvent erases and onTimer takes leaves the map in order.
LEMMA DeletePlaces ==
    ASSUME TypeOK, Phases, ~raced, OnePlace, MapInOrder, NEW t \in Threads, Delete(t)
    PROVE  OnePlace' /\ MapInOrder'
<1>1. /\ UNCHANGED <<readd, added, due, arg>> /\ pc[t] = "delete"
      /\ pc' = [pc EXCEPT ![t] = "return"]
  BY DEF Delete, Goto, batchVars
<1>2. \A u \in Threads : Adding(u)' => Adding(u) /\ arg'[u] = arg[u]
  BY <1>1 DEF TypeOK, Adding
<1>3. CASE UNCHANGED pending
  BY <1>1, <1>2, <1>3, QuietPlaces
<1>4. CASE ~UNCHANGED pending
  <2>1. PICK i \in DOMAIN pending :
          /\ Len(pending') = Len(pending) - 1
          /\ \A k \in 1..(Len(pending) - 1) :
                pending'[k] = IF k < i THEN pending[k] ELSE pending[k + 1]
    BY <1>4, DeletedMap
  <2>2. pending \in Seq(TimeEvents) /\ pending' \in Seq(TimeEvents)
    BY DeletedMap DEF TypeOK
  <2> DEFINE g == [k \in DOMAIN pending' |-> IF k < i THEN k ELSE k + 1]
  <2>3. g \in [DOMAIN pending' -> DOMAIN pending]
    BY <2>1, <2>2
  <2>4. \A k, l \in DOMAIN pending' : k < l => g[k] < g[l]
    BY <2>1, <2>2
  <2>5. \A k \in DOMAIN pending' : pending'[k] = pending[g[k]]
    BY <2>1, <2>2
  <2> HIDE DEF g
  <2>6. Ordered'
        /\ \A k \in DOMAIN pending' : \E j \in DOMAIN pending : pending'[k] = pending[j]
    BY <1>1, <2>3, <2>4, <2>5, TakenOrder DEF MapInOrder, Ordered
  <2>7. OnePlace'
    BY <1>1, <1>2, <2>6 DEF OnePlace
  <2>8. MapInOrder'
    <3>1. \A u \in Threads : Adding(u)' => \A k \in DOMAIN pending' : pending'[k] # arg'[u]
      BY <1>2, <2>6 DEF MapInOrder, InMap, Adding
    <3>2. \A j \in DOMAIN readd' : \A k \in DOMAIN pending' : pending'[k] # readd'[j]
      BY <1>1, <2>6 DEF MapInOrder, InMap
    <3> QED
      BY <2>6, <3>1, <3>2 DEF MapInOrder, Ordered, InMap, Adding
  <2> QED
    BY <2>7, <2>8
<1> QED
  BY <1>3, <1>4

\* An event is inserted where the order of the map wants it.
LEMMA InsertPlaces ==
    ASSUME TypeOK, Phases, ~raced, OnePlace, MapInOrder, NEW t \in Threads, Insert(t)
    PROVE  OnePlace' /\ MapInOrder'
<1>1. /\ UNCHANGED <<readd, added, due, arg>> /\ pc[t] = "insert"
      /\ \A u \in Threads : Adding(u)' => Adding(u) /\ u # t
  BY DEF Insert, Goto, batchVars, TypeOK, Adding
<1>2. PICK e \in TimeEvents : e = arg[t] /\ e \in added /\ pending' \in Emplaced(e)
  BY DEF Insert, Phases, TypeOK, OnePlace, Adding
<1>3. PICK i \in 0..Len(pending) :
        /\ \A k \in 1..i : pending'[k] = pending[k] /\ due[pending[k]] <= due[e]
        /\ pending'[i + 1] = e
        /\ \A k \in (i + 1)..Len(pending) : pending'[k + 1] = pending[k]
        /\ \A j \in (i + 1)..Len(pending) :
              due[pending[j]] > due[e] \/ due[pending[j]] + due[e] = 0
  BY <1>2, EmplacedMap
<1>4. /\ pending \in Seq(TimeEvents) /\ pending' \in Seq(TimeEvents)
      /\ Len(pending') = Len(pending) + 1
  BY <1>2, EmplacedMap DEF TypeOK
<1>5. \A j \in DOMAIN pending : pending[j] # e /\ due[pending[j]] \in Nat
  BY <1>1, <1>2, <1>4 DEF MapInOrder, InMap, TypeOK
<1>6. \A k \in DOMAIN pending' :
        \/ k \in 1..i /\ k \in DOMAIN pending
        \/ k = i + 1
        \/ /\ k - 1 \in (i + 1)..Len(pending) /\ k - 1 \in DOMAIN pending
           /\ pending'[k] = pending[k - 1]
  <2> SUFFICES ASSUME NEW k \in DOMAIN pending', k > i + 1
               PROVE  /\ k - 1 \in (i + 1)..Len(pending) /\ k - 1 \in DOMAIN pending
                      /\ pending'[k] = pending[k - 1]
    BY <1>4
  <2>1. k - 1 \in (i + 1)..Len(pending) /\ k - 1 \in DOMAIN pending /\ (k - 1) + 1 = k
    BY <1>4
  <2> QED
    BY <1>3, <2>1
<1>7. \A k \in DOMAIN pending' :
         pending'[k] = e \/ \E j \in DOMAIN pending : pending'[k] = pending[j]
  BY <1>3, <1>6
<1>8. Ordered'
  <2> SUFFICES ASSUME NEW a \in DOMAIN pending', NEW b \in DOMAIN pending', a < b
               PROVE  pending'[a] # pending'[b] /\ due[pending'[a]] <= due[pending'[b]]
    BY <1>1 DEF Ordered
  <2>1. a \in Int /\ b \in Int /\ i \in Int /\ due[e] \in Nat
    BY <1>2, <1>4 DEF TypeOK
  <2>2. CASE b \in 1..i
    <3>1. a \in 1..i /\ a \in DOMAIN pending /\ b \in DOMAIN pending
      BY <1>4, <1>6, <2>1, <2>2
    <3> QED
      BY <1>3, <2>2, <3>1 DEF MapInOrder
  <2>3. CASE b = i + 1
    <3>1. a \in 1..i /\ a \in DOMAIN pending
      BY <1>4, <1>6, <2>1, <2>3
    <3> QED
      BY <1>3, <1>5, <2>3, <3>1
  <2>4. CASE b > i + 1
    <3>1. /\ b - 1 \in (i + 1)..Len(pending) /\ b - 1 \in DOMAIN pending
          /\ pending'[b] = pending[b - 1]
      BY <1>6, <2>1, <2>4
    <3>2. CASE a \in 1..i
      <4>1. a \in DOMAIN pending /\ a < b - 1 /\ pending'[a] = pending[a]
        BY <1>3, <1>6, <2>1, <2>4, <3>2
      <4> QED
        BY <3>1, <4>1 DEF MapInOrder
    <3>3. CASE a = i + 1
      BY <1>3, <1>5, <2>1, <3>1, <3>3
    <3>4. CASE a > i + 1
      <4>1. a - 1 \in DOMAIN pending /\ a - 1 < b - 1 /\ pending'[a] = pending[a - 1]
        BY <1>6, <2>1, <3>4
      <4> QED
        BY <3>1, <4>1 DEF MapInOrder
    <3> QED
      BY <1>6, <2>1, <3>2, <3>3, <3>4
  <2> QED
    BY <1>6, <2>1, <2>2, <2>3, <2>4
<1>9. \A u \in Threads : Adding(u)' =>
         arg'[u] # e /\ \A j \in DOMAIN pending : pending[j] # arg'[u]
  BY <1>1, <1>2 DEF OnePlace, MapInOrder, InMap, Adding
<1>10. \A j \in DOMAIN readd' :
          readd'[j] # e /\ \A k \in DOMAIN pending : pending[k] # readd'[j]
  BY <1>1, <1>2 DEF OnePlace, MapInOrder, InMap, Adding
<1>11. OnePlace'
  <2>1. \A k \in DOMAIN pending' : pending'[k] \in added'
    BY <1>1, <1>2, <1>7 DEF OnePlace
  <2> QED
    BY <1>1, <2>1 DEF OnePlace
<1>12. MapInOrder'
  <2>1. \A u \in Threads : Adding(u)' => \A k \in DOMAIN pending' : pending'[k] # arg'[u]
    BY <1>7, <1>9
  <2>2. \A j \in DOMAIN readd' : \A k \in DOMAIN pending' : pending'[k] # readd'[j]
    BY <1>7, <1>10
  <2> QED
    BY <1>8, <2>1, <2>2 DEF MapInOrder, Ordered, InMap, Adding
<1> QED
  BY <1>11, <1>12

\* The events onTimer keeps are in the map no more.
LEMMA SelectPlaces ==
    ASSUME TypeOK, Phases, ~raced, OnePlace, MapInOrder, SelectDue
    PROVE  OnePlace' /\ MapInOrder'
<1>1. /\ UNCHANGED <<added, due, arg>> /\ pc[LoopThread] = "select"
      /\ pc' = [pc EXCEPT ![LoopThread] = "readd"]
  BY DEF SelectDue, Goto
<1>2. \A u \in Threads : Adding(u)' => Adding(u)
  BY <1>1 DEF TypeOK, Adding
<1>3. PICK n \in 0..Len(pending) :
        /\ Len(pending') = Len(pending) - n
        /\ \A k \in 1..(Len(pending) - n) : pending'[k] = pending[n + k]
        /\ \E place \in [DOMAIN readd' -> 1..n] :
              /\ \A i, j \in DOMAIN readd' : i < j => place[i] < place[j]
              /\ \A i \in DOMAIN readd' : readd'[i] = pending[place[i]]
  BY SelectedMap
<1>4. PICK place \in [DOMAIN readd' -> 1..n] :
        /\ \A i, j \in DOMAIN readd' : i < j => place[i] < place[j]
        /\ \A i \in DOMAIN readd' : readd'[i] = pending[place[i]]
  BY <1>3
<1>5. /\ pending \in Seq(TimeEvents) /\ pending' \in Seq(TimeEvents) /\ readd' \in Seq(TimeEvents)
      /\ n \in Nat /\ n <= Len(pending)
  BY SelectedMap DEF TypeOK
<1>6. \A i \in DOMAIN readd' : place[i] \in 1..n /\ place[i] \in DOMAIN pending
  BY <1>5
<1> DEFINE g == [k \in DOMAIN pending' |-> n + k]
<1>7. g \in [DOMAIN pending' -> DOMAIN pending]
  BY <1>3, <1>5
<1>8. \A k \in DOMAIN pending' : g[k] > n
  BY <1>3, <1>5
<1>9. \A k, l \in DOMAIN pending' : k < l => g[k] < g[l]
  BY <1>3, <1>5
<1>10. \A k \in DOMAIN pending' : pending'[k] = pending[g[k]]
  BY <1>3, <1>5
<1> HIDE DEF g
<1>11. Ordered'
       /\ \A k \in DOMAIN pending' : \E j \in DOMAIN pending : pending'[k] = pending[j]
  BY <1>1, <1>7, <1>9, <1>10, TakenOrder DEF MapInOrder, Ordered
<1>12. \A i \in DOMAIN readd', k \in DOMAIN pending' : pending'[k] # readd'[i]
  <2> SUFFICES ASSUME NEW i \in DOMAIN readd', NEW k \in DOMAIN pending'
               PROVE  pending'[k] # readd'[i]
    OBVIOUS
  <2>1. place[i] \in DOMAIN pending /\ g[k] \in DOMAIN pending /\ place[i] < g[k]
    BY <1>5, <1>6, <1>7, <1>8
  <2> QED
    BY <1>4, <1>10, <2>1 DEF MapInOrder
<1>13. \A i, j \in DOMAIN readd' : readd'[i] = readd'[j] => i = j
  <2> SUFFICES ASSUME NEW i \in DOMAIN readd', NEW j \in DOMAIN readd', i < j
               PROVE  readd'[i] # readd'[j]
    BY <1>5
  <2>1. place[i] \in DOMAIN pending /\ place[j] \in DOMAIN pending /\ place[i] < place[j]
    BY <1>4, <1>6
  <2> QED
    BY <1>4, <2>1 DEF MapInOrder
<1>14. \A u \in Threads : Adding(u)' =>
          /\ \A k \in DOMAIN pending' : pending'[k] # arg'[u]
          /\ \A i \in DOMAIN readd' : arg'[u] # readd'[i]
  BY <1>1, <1>2, <1>4, <1>6, <1>11 DEF MapInOrder, InMap, Adding
<1>15. OnePlace'
  <2>1. \A k \in DOMAIN pending' : pending'[k] \in added'
    BY <1>1, <1>11 DEF OnePlace
  <2>2. \A i \in DOMAIN readd' : readd'[i] \in added'
    BY <1>1, <1>4, <1>6 DEF OnePlace
  <2>3. \A t, u \in Threads : Adding(t)' /\ Adding(u)' /\ arg'[t] = arg'[u] => t = u
    BY <1>1, <1>2 DEF OnePlace
  <2> QED
    BY <1>1, <1>2, <1>13, <1>14, <2>1, <2>2, <2>3 DEF OnePlace
<1>16. MapInOrder'
  BY <1>11, <1>12, <1>14 DEF MapInOrder, Ordered, InMap, Adding
<1> QED
  BY <1>15, <1>16

\* A new event is nowhere yet.
LEMMA AddPlaces ==
    ASSUME TypeOK, Phases, ~raced, OnePlace, MapInOrder, NEW t \in Threads, AddTimeEvent(t)
    PROVE  OnePlace' /\ MapInOrder'
<1>1. PICK e \in TimeEvents \ added :
        /\ Call(t, e, "add")
        /\ added' = added \cup {e}
        /\ due' = [due EXCEPT ![e] = Interval[e]]
  BY DEF AddTimeEvent
<1>2. /\ UNCHANGED <<pending, readd>> /\ pc' = [pc EXCEPT ![t] = "add"]
      /\ arg' = [arg EXCEPT ![t] = e] /\ ~Adding(t)
  BY <1>1 DEF Call, Callers, Goto, batchVars, Adding
<1>3. \A u \in Threads : Adding(u)' =>
          IF u = t THEN arg'[u] = e ELSE Adding(u) /\ arg'[u] = arg[u]
  BY <1>2 DEF TypeOK, Adding
<1>4. \A u \in Threads : Adding(u) => arg[u] # e
  BY <1>1 DEF OnePlace
<1>5. \A i \in DOMAIN pending : pending[i] # e /\ due'[pending[i]] = due[pending[i]]
  BY <1>1 DEF OnePlace, TypeOK
<1>6. \A i \in DOMAIN readd : readd[i] # e
  BY <1>1 DEF OnePlace
<1>7. OnePlace'
  BY <1>1, <1>2, <1>3, <1>4, <1>6 DEF OnePlace
<1>8. MapInOrder'
  <2>1. Ordered'
    BY <1>2, <1>5 DEF MapInOrder, Ordered
  <2>2. \A u \in Threads : Adding(u)' => \A k \in DOMAIN pending : pending[k] # arg'[u]
    BY <1>3, <1>5 DEF MapInOrder, InMap, Adding
  <2> QED
    BY <1>2, <2>1, <2>2 DEF MapInOrder, Ordered, InMap, Adding
<1> QED
  BY <1>7, <1>8

\* A repeated event goes from the list of onTimer to the hands of its thread.
LEMMA ReaddPlaces ==
    ASSUME TypeOK, Phases, ~raced, OnePlace, MapInOrder, Readd
    PROVE  OnePlace' /\ MapInOrder'
<1> DEFINE e == Head(readd)
<1>0. LoopThread \in Threads /\ ~Adding(LoopThread)
  BY DEF Threads, Readd, Adding
<1>1. /\ readd \in Seq(TimeEvents) /\ readd # <<>> /\ readd' = Tail(readd)
      /\ UNCHANGED <<pending, added>>
  BY DEF Readd, TypeOK
<1>2. 1 \in DOMAIN readd /\ e = readd[1] /\ e \in TimeEvents
  BY <1>1
<1>3. \A i \in DOMAIN readd' :
         i + 1 \in DOMAIN readd /\ readd'[i] = readd[i + 1] /\ i \in Nat /\ i + 1 # 1
  BY <1>1
<1> HIDE DEF e
<1>4. \A i \in DOMAIN readd' : readd'[i] # e
  BY <1>2, <1>3 DEF OnePlace
<1>5. \A i \in DOMAIN pending : pending[i] # e
  BY <1>2 DEF MapInOrder, InMap
<1>6. \A u \in Threads : Adding(u) => arg[u] # e
  BY <1>2 DEF OnePlace
<1>7. /\ \A i \in DOMAIN readd' : readd'[i] \in added'
      /\ \A i, j \in DOMAIN readd' : readd'[i] = readd'[j] => i = j
      /\ \A i \in DOMAIN readd' : \A k \in DOMAIN pending : pending[k] # readd'[i]
      /\ \A u \in Threads, i \in DOMAIN readd' : Adding(u) => arg[u] # readd'[i]
  <2>1. \A i, j \in DOMAIN readd' : readd'[i] = readd'[j] => i = j
    <3> SUFFICES ASSUME NEW i \in DOMAIN readd', NEW j \in DOMAIN readd', readd'[i] = readd'[j]
                 PROVE  i = j
      OBVIOUS
    <3>1. i + 1 = j + 1 /\ i \in Nat /\ j \in Nat
      BY <1>3 DEF OnePlace
    <3> QED
      BY <3>1
  <2> QED
    BY <1>1, <1>3, <2>1 DEF OnePlace, MapInOrder, InMap
<1>8. CASE e \in Repeated
  <2>1. /\ due' = [due EXCEPT ![e] = Interval[e]]
        /\ arg' = [arg EXCEPT ![LoopThread] = e]
        /\ pc' = [pc EXCEPT ![LoopThread] = "add"]
    BY <1>8 DEF Readd, Goto, e
  <2>2. \A u \in Threads : Adding(u)' =>
            IF u = LoopThread THEN arg'[u] = e ELSE Adding(u) /\ arg'[u] = arg[u]
    BY <1>0, <2>1 DEF TypeOK, Adding
  <2>3. \A i \in DOMAIN pending : due'[pending[i]] = due[pending[i]]
    BY <1>5, <2>1 DEF TypeOK
  <2>4. OnePlace'
    <3>1. \A u \in Threads : Adding(u)' => arg'[u] \in added'
      BY <1>1, <1>2, <2>2 DEF OnePlace
    <3>2. \A t, u \in Threads : Adding(t)' /\ Adding(u)' /\ arg'[t] = arg'[u] => t = u
      BY <1>6, <2>2 DEF OnePlace
    <3>3. \A u \in Threads, i \in DOMAIN readd' : Adding(u)' => arg'[u] # readd'[i]
      BY <1>4, <1>7, <2>2
    <3> QED
      BY <1>1, <1>7, <3>1, <3>2, <3>3 DEF OnePlace
  <2>5. Ordered'
    BY <1>1, <2>3 DEF MapInOrder, Ordered
  <2>6. \A u \in Threads : Adding(u)' => \A k \in DOMAIN pending : pending[k] # arg'[u]
    BY <1>5, <2>2 DEF MapInOrder, InMap, Adding
  <2>7. MapInOrder'
    BY <1>1, <1>7, <2>5, <2>6 DEF MapInOrder, Ordered, InMap, Adding
  <2> QED
    BY <2>4, <2>7
<1>9. CASE e \notin Repeated
  <2>1. UNCHANGED <<due, pc, arg>>
    BY <1>9 DEF Readd, e, callVars
  <2>2. OnePlace'
    BY <1>1, <1>7, <2>1 DEF OnePlace, Adding
  <2>3. MapInOrder'
    BY <1>1, <1>7, <2>1 DEF MapInOrder, InMap
  <2> QED
    BY <2>2, <2>3
<1> QED
  BY <1>8, <1>9

\* Time brings all arrive times closer by the same.
LEMMA TickPlaces ==
    ASSUME TypeOK, ~raced, OnePlace, MapInOrder, Tick
    PROVE  OnePlace' /\ MapInOrder'
<1>1. /\ UNCHANGED <<pending, readd, added, pc, arg>>
      /\ due' = [e \in TimeEvents |-> IF due[e] > 0 THEN due[e] - 1 ELSE 0]
  BY DEF Tick, batchVars, callVars
<1>2. OnePlace'
  BY <1>1 DEF OnePlace, Adding
<1>3. \A i \in DOMAIN pending : pending[i] \in TimeEvents /\ due[pending[i]] \in Nat
  BY DEF TypeOK
<1>4. \A i, j \in DOMAIN pending :
         due[pending[i]] <= due[pending[j]] => due'[pending[i]] <= due'[pending[j]]
  BY <1>1, <1>3
<1>5. MapInOrder'
  BY <1>1, <1>4 DEF MapInOrder, InMap
<1> QED
  BY <1>2, <1>5

\* Every step keeps the order and the places.
LEMMA PlacesStep ==
    ASSUME TypeOK, Phases, ~raced, OnePlace, MapInOrder, [Next]_vars
    PROVE  OnePlace' /\ MapInOrder'
<1> USE DEF timerVars, batchVars, callVars
<1>0. LoopThread \in Threads /\ \A t \in Adders : t \in Threads
  BY DEF Threads
<1>1. ASSUME NEW t \in Threads, Step(t) PROVE OnePlace' /\ MapInOrder'
  <2>1. CASE TakeGuard(t)
    <3>1. PICK step \in {<<"add", "insert">>, <<"dellock", "delete">>,
                         <<"reset", "copy">>, <<"timerlock", "select">>} :
            pc[t] = step[1] /\ pc' = [pc EXCEPT ![t] = step[2]]
      BY <2>1 DEF TakeGuard, Enter, Goto
    <3>2. UNCHANGED <<pending, readd, added, due, arg>>
      BY <2>1 DEF TakeGuard
    <3>3. \A u \in Threads : Adding(u)' => Adding(u) /\ arg'[u] = arg[u]
      BY <3>1, <3>2 DEF TypeOK, Adding
    <3> QED
      BY <3>2, <3>3, QuietPlaces
  <2>2. CASE Insert(t)
    BY <2>2, InsertPlaces
  <2>3. CASE Delete(t)
    BY <2>3, DeletePlaces
  <2>4. CASE CopyMap(t) \/ SetTime(t) \/ ResetExit(t)
    <3>1. UNCHANGED <<pending, readd, added, due, arg>>
      BY <2>4 DEF CopyMap, SetTime, ResetExit
    <3>2. \A u \in Threads : Adding(u)' => Adding(u) /\ arg'[u] = arg[u]
      BY <2>4, <3>1 DEF CopyMap, SetTime, ResetExit, Goto, TypeOK, Adding
    <3> QED
      BY <3>1, <3>2, QuietPlaces
  <2>5. CASE Return(t)
    <3>1. UNCHANGED <<pending, readd, added, due>>
      BY <2>5 DEF Return
    <3>2. \A u \in Threads : Adding(u)' => Adding(u) /\ arg'[u] = arg[u]
      BY <2>5 DEF Return, Goto, TypeOK, Adding
    <3> QED
      BY <3>1, <3>2, QuietPlaces
  <2> QED
    BY <1>1, <2>1, <2>2, <2>3, <2>4, <2>5 DEF Step
<1>2. CASE Dispatch \/ OnTimer \/ ReaddDone \/ RunCallback \/ TimerExit \/ UNCHANGED vars
  <2>1. UNCHANGED <<pending, readd, added, due, arg>>
    BY <1>2 DEF Dispatch, OnTimer, ReaddDone, RunCallback, TimerExit, vars
  <2>2. \A u \in Threads : Adding(u)' => Adding(u) /\ arg'[u] = arg[u]
    BY <1>2, <2>1
    DEF Dispatch, OnTimer, ReaddDone, RunCallback, TimerExit, vars, Goto, TypeOK, Adding
  <2> QED
    BY <2>1, <2>2, QuietPlaces
<1>3. ASSUME NEW t \in Threads, DeleteTimeEvent(t) \/ SetCancel(t)
      PROVE  OnePlace' /\ MapInOrder'
  <2>1. UNCHANGED <<pending, readd, added, due>>
    BY <1>3 DEF DeleteTimeEvent, SetCancel, Call
  <2>2. \A u \in Threads : Adding(u)' => Adding(u) /\ arg'[u] = arg[u]
    BY <1>3 DEF DeleteTimeEvent, SetCancel, Call, Goto, TypeOK, Adding
  <2> QED
    BY <2>1, <2>2, QuietPlaces
<1>4. CASE SelectDue \/ Readd \/ Tick
  BY <1>4, SelectPlaces, ReaddPlaces, TickPlaces
<1> QED
  BY <1>0, <1>1, <1>2, <1>3, <1>4, AddPlaces DEF Next, LoopStep

\* And every step keeps the types and the phases.
LEMMA TypeStep ==
    ASSUME TypeOK, Phases, [Next]_vars
    PROVE  TypeOK' /\ Phases'
<1>1. LoopThread \in Threads /\ \A t \in Adders : t \in Threads
  BY DEF Threads
<1>2. CASE UNCHANGED vars
  BY <1>2 DEF vars, timerVars, batchVars, callVars, history, TypeOK, Phases
<1> QED
  BY <1>1, <1>2, CallType, StepType, OnTimerType DEF Next, LoopStep

-----------------------------------------------------------------------------
(* The timerfd.                                                             *)

\* Somebody is on the way to arming it.
Ahead == OnTimerAhead \/ \E t \in Threads : Resetting(t)

\* Whoever is on the way gets there: a step that arms nothing, and is not the
\* look at an empty map, leaves somebody on the way.
LEMMA AheadStep ==
    ASSUME TypeOK, Phases, ~raced, [Next]_vars, Ahead,
           \A t \in Threads : ~SetTime(t),
           \A t \in Threads : CopyMap(t) => pending # <<>>
    PROVE  Ahead'
<1> USE DEF timerVars, batchVars, callVars
<1>0. LoopThread \in Threads /\ \A t \in Adders : t \in Threads
  BY DEF Threads
<1>1. ASSUME NEW t \in Threads, Step(t) PROVE Ahead'
  <2>1. CASE TakeGuard(t)
    <3>1. PICK step \in {<<"add", "insert">>, <<"dellock", "delete">>,
                         <<"reset", "copy">>, <<"timerlock", "select">>} :
            pc[t] = step[1] /\ pc' = [pc EXCEPT ![t] = step[2]]
      BY <2>1 DEF TakeGuard, Enter, Goto
    <3>2. UNCHANGED <<queued, arg, ret>>
      BY <2>1 DEF TakeGuard
    <3> QED
      BY <1>0, <3>1, <3>2 DEF TypeOK, Ahead, OnTimerAhead, Resetting
  <2>2. CASE Insert(t)
    <3>1. \/ pc' = [pc EXCEPT ![t] = "reset"]
          \/ pc' = [pc EXCEPT ![t] = "return"]
      BY <2>2 DEF Insert, Goto
    <3>2. UNCHANGED <<queued, arg, ret>> /\ pc[t] = "insert"
      BY <2>2 DEF Insert
    <3> QED
      BY <1>0, <3>1, <3>2 DEF TypeOK, Ahead, OnTimerAhead, Resetting
  <2>3. CASE Delete(t)
    <3>1. UNCHANGED <<queued, arg, ret>> /\ pc[t] = "delete"
          /\ pc' = [pc EXCEPT ![t] = "return"]
      BY <2>3 DEF Delete, Goto
    <3> QED
      BY <1>0, <3>1 DEF TypeOK, Ahead, OnTimerAhead, Resetting
  <2>4. CASE CopyMap(t)
    <3>1. UNCHANGED <<queued, arg, ret>> /\ pc[t] = "copy"
          /\ pc' = [pc EXCEPT ![t] = "settime"]
      BY <2>4 DEF CopyMap, Goto, Damaged
    <3> QED
      BY <1>0, <3>1 DEF TypeOK, Ahead, OnTimerAhead, Resetting
  <2>5. CASE ResetExit(t)
    <3>1. /\ UNCHANGED <<queued, arg, ret>> /\ pc[t] = "resetexit"
          /\ pc' = [pc EXCEPT ![t] = IF arg[t] # None THEN "return" ELSE "tasks"]
      BY <2>5 DEF ResetExit, Goto
    <3> QED
      BY <1>0, <3>1 DEF TypeOK, Ahead, OnTimerAhead, Resetting
  <2>6. CASE Return(t)
    <3>1. /\ UNCHANGED <<queued, ret>> /\ pc[t] = "return"
          /\ arg' = [arg EXCEPT ![t] = None] /\ pc' = [pc EXCEPT ![t] = ret[t]]
      BY <2>6 DEF Return, Goto
    <3> QED
      BY <1>0, <3>1 DEF TypeOK, Ahead, OnTimerAhead, Resetting
  <2> QED
    BY <1>1, <2>1, <2>2, <2>3, <2>4, <2>5, <2>6 DEF Step
<1>2. ASSUME NEW t \in Threads, AddTimeEvent(t) \/ DeleteTimeEvent(t)
      PROVE  Ahead'
  <2>1. PICK e, where : Call(t, e, where)
    BY <1>2 DEF AddTimeEvent, DeleteTimeEvent
  <2>2. /\ pc[t] = "idle" \/ (t = LoopThread /\ pc[t] = "tasks")
        /\ UNCHANGED queued
        /\ pc' = [pc EXCEPT ![t] = where] /\ arg' = [arg EXCEPT ![t] = e]
        /\ ret' = [ret EXCEPT ![t] = pc[t]]
    BY <2>1 DEF Call, Callers, Goto
  <2> QED
    BY <1>0, <2>2 DEF TypeOK, Ahead, OnTimerAhead, Resetting
<1>3. CASE Dispatch
  BY <1>3 DEF Dispatch, Ahead, OnTimerAhead
<1>4. CASE OnTimer
  BY <1>0, <1>4 DEF OnTimer, Goto, TypeOK, Ahead, OnTimerAhead
<1>5. CASE SelectDue
  BY <1>0, <1>5 DEF SelectDue, Goto, TypeOK, Ahead, OnTimerAhead
<1>6. CASE Readd
  <2>1. CASE Head(readd) \in Repeated
    <3>1. Head(readd) # None
      BY <1>6, TimerAssumption DEF Readd, TypeOK
    <3>2. /\ pc' = [pc EXCEPT ![LoopThread] = "add"]
          /\ arg' = [arg EXCEPT ![LoopThread] = Head(readd)]
          /\ ret' = [ret EXCEPT ![LoopThread] = "readd"]
      BY <1>6, <2>1 DEF Readd, Goto
    <3> QED
      BY <1>0, <3>1, <3>2 DEF TypeOK, Ahead, OnTimerAhead
  <2>2. CASE Head(readd) \notin Repeated
    BY <1>6, <2>2 DEF Readd, Ahead, OnTimerAhead
  <2> QED
    BY <2>1, <2>2
<1>7. CASE ReaddDone
  BY <1>0, <1>7 DEF ReaddDone, Goto, TypeOK, Ahead, Resetting
<1>8. CASE TimerExit
  BY <1>0, <1>8 DEF TimerExit, Goto, TypeOK, Ahead, OnTimerAhead, Resetting
<1>9. CASE RunCallback \/ Tick \/ UNCHANGED vars \/ \E t \in Threads : SetCancel(t)
  <2>1. UNCHANGED <<queued, pc, arg, ret>>
    BY <1>9 DEF RunCallback, Tick, SetCancel, vars
  <2> QED
    BY <2>1 DEF Ahead, OnTimerAhead, Resetting
<1> QED
  BY <1>0, <1>1, <1>2, <1>3, <1>4, <1>5, <1>6, <1>7, <1>8, <1>9 DEF Next, LoopStep

\* The timerfd stays armed or readable until it is set again or read.
LEMMA WatchStep ==
    ASSUME TypeOK, [Next]_vars, \A t \in Threads : ~SetTime(t), armed > 0 \/ readable
    PROVE  armed' > 0 \/ readable' \/ Ahead'
<1>0. LoopThread \in Threads /\ \A t \in Adders : t \in Threads
  BY DEF Threads
<1>1. CASE OnTimer
  BY <1>0, <1>1 DEF OnTimer, Goto, TypeOK, Ahead, OnTimerAhead
<1>2. CASE Tick
  <2>1. readable \/ armed = 1 => readable'
    BY <1>2, Zenon DEF Tick
  <2>2. armed > 0 /\ armed # 1 => armed' > 0
    BY <1>2 DEF Tick, TypeOK
  <2> QED
    BY <2>1, <2>2
<1>3. CASE ~OnTimer /\ ~Tick
  <2>1. UNCHANGED timerVars
    <3>1. ASSUME NEW t \in Threads, Step(t) PROVE UNCHANGED timerVars
      BY <3>1 DEF Step, TakeGuard, Insert, Delete, CopyMap, ResetExit, Return
    <3>2. ASSUME NEW t \in Threads, AddTimeEvent(t) \/ DeleteTimeEvent(t) \/ SetCancel(t)
          PROVE  UNCHANGED timerVars
      BY <3>2 DEF AddTimeEvent, DeleteTimeEvent, SetCancel, Call
    <3>3. CASE Dispatch \/ SelectDue \/ Readd \/ ReaddDone \/ RunCallback \/ TimerExit
      BY <3>3 DEF Dispatch, SelectDue, Readd, ReaddDone, RunCallback, TimerExit
    <3>4. CASE UNCHANGED vars
      BY <3>4 DEF vars
    <3> QED
      BY <1>0, <1>3, <3>1, <3>2, <3>3, <3>4 DEF Next, LoopStep
  <2> QED
    BY <2>1 DEF timerVars
<1> QED
  BY <1>1, <1>2, <1>3

\* What the properties read of a step that is not timerfd_settime, and neither
\* an insertion, a removal nor the clock.
Frame ==
    /\ UNCHANGED <<armed, overtaken, pending>>
    /\ \A i \in DOMAIN pending : due'[pending[i]] = due[pending[i]]

LEMMA FrameStep ==
    ASSUME TypeOK, Phases, ~raced, OnePlace, MapInOrder, [Next]_vars,
           \A t \in Threads : ~SetTime(t) /\ ~Insert(t) /\ ~Delete(t), ~SelectDue, ~Tick
    PROVE  Frame
<1> USE DEF timerVars, batchVars, callVars
<1>0. LoopThread \in Threads /\ \A t \in Adders : t \in Threads
  BY DEF Threads
<1>1. ASSUME NEW t \in Threads, Step(t) PROVE Frame
  BY <1>1 DEF Step, TakeGuard, CopyMap, ResetExit, Return, Frame
<1>2. ASSUME NEW t \in Threads, DeleteTimeEvent(t) \/ SetCancel(t) PROVE Frame
  BY <1>2 DEF DeleteTimeEvent, SetCancel, Call, Frame
<1>3. ASSUME NEW t \in Threads, AddTimeEvent(t) PROVE Frame
  <2>1. PICK e \in TimeEvents \ added :
          due' = [due EXCEPT ![e] = Interval[e]] /\ UNCHANGED <<armed, overtaken, pending>>
    BY <1>3 DEF AddTimeEvent, Call
  <2>2. \A i \in DOMAIN pending : pending[i] # e
    BY <2>1 DEF OnePlace
  <2> QED
    BY <2>1, <2>2 DEF TypeOK, Frame
<1>4. CASE Readd
  <2>1. \A i \in DOMAIN pending : pending[i] # Head(readd)
    <3>1. 1 \in DOMAIN readd /\ Head(readd) = readd[1]
      BY <1>4 DEF Readd, TypeOK
    <3> QED
      BY <3>1 DEF MapInOrder, InMap
  <2>2. \/ due' = [due EXCEPT ![Head(readd)] = Interval[Head(readd)]]
        \/ due' = due
    BY <1>4 DEF Readd
  <2>3. UNCHANGED <<armed, overtaken, pending>>
    BY <1>4 DEF Readd
  <2> QED
    BY <2>1, <2>2, <2>3 DEF TypeOK, Frame
<1>5. CASE Dispatch \/ OnTimer \/ ReaddDone \/ RunCallback \/ TimerExit
  BY <1>5 DEF Dispatch, OnTimer, ReaddDone, RunCallback, TimerExit, Frame
<1>6. CASE UNCHANGED vars
  BY <1>6 DEF vars, history, Frame
<1> QED
  BY <1>0, <1>1, <1>2, <1>3, <1>4, <1>5, <1>6 DEF Next, LoopStep

\* Nobody takes back that two threads were in the map at once.
LEMMA RacedStays == ASSUME TypeOK, [Next]_vars, raced PROVE raced'
<1>1. ASSUME NEW t \in Threads, Step(t) PROVE raced'
  BY <1>1 DEF Step, TakeGuard, Enter, Insert, Delete, CopyMap, SetTime, ResetExit, Return
<1>2. ASSUME NEW t \in Threads, AddTimeEvent(t) \/ DeleteTimeEvent(t) \/ SetCancel(t)
      PROVE  raced'
  BY <1>2 DEF AddTimeEvent, DeleteTimeEvent, SetCancel, Call
<1>3. CASE \/ Dispatch \/ OnTimer \/ SelectDue \/ Readd \/ ReaddDone
           \/ RunCallback \/ TimerExit \/ Tick
  BY <1>3 DEF Dispatch, OnTimer, SelectDue, Readd, ReaddDone, RunCallback, TimerExit, Tick
<1>4. CASE UNCHANGED vars
  BY <1>4 DEF vars
<1> QED
  BY <1>1, <1>2, <1>3, <1>4 DEF Next, LoopStep, Threads

\* Arming: timerfd_settime is given a copy of the head's time, or one tick.
LEMMA SetTimeArms ==
    ASSUME TypeOK, Phases, NEW t \in Threads, SetTime(t)
    PROVE  ArmedWhilePending' /\ ArmedUnlessOvertaken'
<1>1. snapshot[t] \in TimeEvents /\ due[snapshot[t]] \in Nat
  BY DEF SetTime, Phases, TypeOK
<1>2. armed' > 0 /\ (armed' = due[snapshot[t]] \/ armed' = 1)
  BY <1>1 DEF SetTime, ArmFor
<1>3. ~overtaken' /\ pending' # <<>> /\ ~raced' => snapshot[t] = Head(pending') /\ due' = due
  BY DEF SetTime
<1>4. armed' \in Nat
  BY <1>1, <1>2
<1>5. ArmedUnlessOvertaken'
  <2> SUFFICES ASSUME ~overtaken', pending' # <<>>, ~raced'
               PROVE  armed' <= due'[Head(pending')] \/ armed' = 1
    BY DEF ArmedUnlessOvertaken
  <2> QED
    BY <1>1, <1>2, <1>3
<1> QED
  BY <1>2, <1>5 DEF ArmedWhilePending

\* Inserting a new head, unless it is as overdue as the old one, is followed by
\* a resetArriveTime.
LEMMA InsertArms ==
    ASSUME TypeOK, Phases, ~raced, OnePlace, MapInOrder, NEW t \in Threads, Insert(t)
    PROVE  \/ Ahead'
           \/ /\ pending # <<>> /\ due' = due
              /\ \/ Head(pending') = Head(pending)
                 \/ due[Head(pending)] = 0
<1>1. PICK e \in TimeEvents : e = arg[t] /\ pending' \in Emplaced(e)
  BY DEF Insert, Phases, TypeOK
<1>2. PICK reset \in MayReset(e) : pc' = [pc EXCEPT ![t] = IF reset THEN "reset" ELSE "return"]
  BY <1>1 DEF Insert, Goto
<1>3. CASE reset
  BY <1>2, <1>3 DEF TypeOK, Ahead, Resetting
<1>4. CASE ~reset
  <2>1. pending # <<>> /\ (due[Head(pending)] + due[e] = 0 \/ ~(due[Head(pending)] > due[e]))
    BY <1>2, <1>4 DEF MayReset
  <2>2. PICK i \in 0..Len(pending) :
          /\ \A k \in 1..i : pending'[k] = pending[k] /\ due[pending[k]] <= due[e]
          /\ \A j \in (i + 1)..Len(pending) :
                due[pending[j]] > due[e] \/ due[pending[j]] + due[e] = 0
    BY <1>1, EmplacedMap
  <2>3. /\ pending \in Seq(TimeEvents) /\ pending' \in Seq(TimeEvents)
        /\ Len(pending') = Len(pending) + 1 /\ Len(pending) \in Nat /\ Len(pending) > 0
    BY <1>1, <2>1, EmplacedMap, SMTT(60) DEF TypeOK
  <2>4. /\ Head(pending) = pending[1] /\ Head(pending') = pending'[1]
        /\ due[pending[1]] \in Nat /\ due[e] \in Nat
    BY <2>3 DEF TypeOK
  <2>5. CASE i = 0
    <3>1. due[pending[1]] > due[e] \/ due[pending[1]] + due[e] = 0
      BY <2>2, <2>3, <2>5
    <3>2. due[Head(pending)] = 0
      BY <2>1, <2>4, <3>1
    <3> QED
      BY <2>1, <3>2 DEF Insert
  <2>6. CASE i > 0
    BY <2>1, <2>2, <2>3, <2>4, <2>6 DEF Insert
  <2> QED
    BY <2>3, <2>5, <2>6
<1> QED
  BY <1>3, <1>4

\* After a removal the head is the old one or an event due no earlier.
LEMMA DeleteHead ==
    ASSUME TypeOK, ~raced, MapInOrder, NEW t \in Threads, Delete(t), pending' # <<>>
    PROVE  pending # <<>> /\ due' = due /\ due[Head(pending)] <= due[Head(pending')]
<1>1. pending \in Seq(TimeEvents) /\ pending' \in Seq(TimeEvents)
  BY DeletedMap DEF TypeOK
<1>2. due' = due
  BY DEF Delete
<1>3. CASE UNCHANGED pending
  BY <1>1, <1>2, <1>3 DEF TypeOK
<1>4. CASE ~UNCHANGED pending
  <2>1. PICK i \in DOMAIN pending :
          /\ Len(pending') = Len(pending) - 1
          /\ \A k \in 1..(Len(pending) - 1) :
                pending'[k] = IF k < i THEN pending[k] ELSE pending[k + 1]
    BY <1>4, DeletedMap
  <2>2. Len(pending') >= 1 /\ Len(pending) >= 2 /\ 1 \in DOMAIN pending /\ 2 \in DOMAIN pending
    BY <1>1, <2>1
  <2>3. pending'[1] = pending[1] \/ pending'[1] = pending[2]
    BY <1>1, <2>1, <2>2
  <2>4. due[pending[1]] <= due[pending[2]] /\ due[pending[1]] \in Nat
    BY <1>1, <2>2 DEF MapInOrder, TypeOK
  <2>5. Head(pending) = pending[1] /\ Head(pending') = pending'[1] /\ pending # <<>>
    BY <1>1, <2>2
  <2> QED
    BY <1>2, <2>3, <2>4, <2>5
<1> QED
  BY <1>3, <1>4

\* Every step keeps the timerfd armed, in time.
LEMMA ArmedStep ==
    ASSUME TimerInv, [Next]_vars
    PROVE  ArmedWhilePending' /\ ArmedUnlessOvertaken'
<1> USE DEF TimerInv
<1>0. CASE raced'
  BY <1>0 DEF ArmedWhilePending, ArmedUnlessOvertaken
<1>1. CASE \E t \in Threads : SetTime(t)
  BY <1>1, SetTimeArms
<1>2. CASE \E t \in Threads : CopyMap(t) /\ pending = <<>>
  <2>1. pending' = <<>>
    BY <1>2 DEF CopyMap
  <2> QED
    BY <2>1 DEF ArmedWhilePending, ArmedUnlessOvertaken
<1>3. CASE /\ \A t \in Threads : ~SetTime(t)
           /\ \A t \in Threads : CopyMap(t) => pending # <<>>
           /\ ~raced'
  <2>1. ~raced
    BY <1>3, RacedStays
  <2>2. Ahead => Ahead'
    BY <1>3, <2>1, AheadStep
  <2>3. CASE Ahead'
    BY <2>3 DEF ArmedWhilePending, ArmedUnlessOvertaken, Ahead
  <2>4. CASE ~Ahead' /\ pending' # <<>> /\ ~raced'
    <3>1. ~Ahead /\ ~raced
      BY <2>1, <2>2, <2>4
    <3>2. /\ pending # <<>> /\ overtaken' = overtaken
          /\ armed' > 0 => armed > 0
          /\ armed' > 0 /\ (armed <= due[Head(pending)] \/ armed = 1) =>
                armed' <= due'[Head(pending')] \/ armed' = 1
      <4>0. /\ armed \in Nat /\ pending \in Seq(TimeEvents) /\ due \in [TimeEvents -> Nat]
            /\ pending # <<>> => Head(pending) \in TimeEvents /\ due[Head(pending)] \in Nat
        BY DEF TypeOK
      <4>1. ASSUME NEW t \in Threads, Insert(t)
            PROVE  /\ pending # <<>> /\ overtaken' = overtaken
                   /\ armed' > 0 => armed > 0
                   /\ armed' > 0 /\ (armed <= due[Head(pending)] \/ armed = 1) =>
                         armed' <= due'[Head(pending')] \/ armed' = 1
        <5>1. /\ pending # <<>> /\ due' = due
              /\ Head(pending') = Head(pending) \/ due[Head(pending)] = 0
          BY <2>1, <2>4, <4>1, InsertArms
        <5>2. UNCHANGED <<armed, overtaken>>
          BY <4>1 DEF Insert, timerVars
        <5> QED
          BY <4>0, <5>1, <5>2
      <4>2. ASSUME NEW t \in Threads, Delete(t)
            PROVE  /\ pending # <<>> /\ overtaken' = overtaken
                   /\ armed' > 0 => armed > 0
                   /\ armed' > 0 /\ (armed <= due[Head(pending)] \/ armed = 1) =>
                         armed' <= due'[Head(pending')] \/ armed' = 1
        <5>1. pending # <<>> /\ due' = due /\ due[Head(pending)] <= due[Head(pending')]
          BY <2>1, <2>4, <4>2, DeleteHead
        <5>2. UNCHANGED <<armed, overtaken>>
          BY <4>2 DEF Delete, timerVars
        <5>3. Head(pending') \in TimeEvents
          BY <2>4, <4>2, DeletedMap
        <5> QED
          BY <4>0, <5>1, <5>2, <5>3
      <4>3. CASE SelectDue
        <5>1. LoopThread \in Threads /\ pc' = [pc EXCEPT ![LoopThread] = "readd"]
          BY <4>3 DEF SelectDue, Goto, Threads
        <5>2. Ahead'
          BY <5>1 DEF TypeOK, Ahead, OnTimerAhead
        <5> QED
          BY <2>4, <5>2
      <4>4. CASE Tick
        <5>1. /\ UNCHANGED <<pending, overtaken>>
              /\ due' = [e \in TimeEvents |-> IF due[e] > 0 THEN due[e] - 1 ELSE 0]
              /\ armed' = IF armed > 0 THEN armed - 1 ELSE 0
          BY <4>4 DEF Tick
        <5> QED
          BY <2>4, <4>0, <5>1
      <4>5. CASE Frame
        <5>1. UNCHANGED <<armed, overtaken, pending>>
          BY <4>5 DEF Frame
        <5>2. due'[Head(pending)] = due[Head(pending)]
          <6>1. 1 \in DOMAIN pending /\ Head(pending) = pending[1]
            BY <2>4, <4>0, <5>1
          <6> QED
            BY <4>5, <6>1 DEF Frame
        <5> QED
          BY <2>4, <5>1, <5>2
      <4> QED
        BY <1>3, <2>1, <4>1, <4>2, <4>3, <4>4, <4>5, FrameStep
    <3>3. armed > 0 \/ readable
      BY <3>1, <3>2 DEF ArmedWhilePending, Ahead
    <3>4. armed' > 0 \/ readable'
      BY <1>3, <2>4, <3>3, WatchStep
    <3> QED
      BY <2>4, <3>1, <3>2, <3>4 DEF ArmedWhilePending, ArmedUnlessOvertaken, Ahead
  <2> QED
    BY <2>3, <2>4 DEF ArmedWhilePending, ArmedUnlessOvertaken
<1> QED
  BY <1>0, <1>1, <1>2, <1>3

-----------------------------------------------------------------------------
(* The theorems.                                                            *)

\* The invariant holds initially, and every step keeps it.
LEMMA TimerInvariant == Spec => []TimerInv
<1>1. Init => TimerInv
  <2> SUFFICES ASSUME Init PROVE TimerInv
    OBVIOUS
  <2>1. OnePlace
    BY DEF Init, OnePlace, Adding
  <2>2. MapInOrder
    BY DEF Init, MapInOrder, InMap
  <2>3. ArmedWhilePending /\ ArmedUnlessOvertaken
    BY DEF Init, ArmedWhilePending, ArmedUnlessOvertaken
  <2> QED
    BY <2>1, <2>2, <2>3, InitType DEF TimerInv
<1>2. TimerInv /\ [Next]_vars => TimerInv'
  <2> SUFFICES ASSUME TimerInv, [Next]_vars PROVE TimerInv'
    OBVIOUS
  <2>1. TypeOK' /\ Phases'
    BY TypeStep DEF TimerInv
  <2>2. (~raced' => OnePlace') /\ MapInOrder'
    <3>1. CASE raced'
      BY <3>1 DEF MapInOrder
    <3>2. CASE ~raced'
      BY <3>2, RacedStays, PlacesStep DEF TimerInv
    <3> QED
      BY <3>1, <3>2
  <2>3. ArmedWhilePending' /\ ArmedUnlessOvertaken'
    BY ArmedStep
  <2> QED
    BY <2>1, <2>2, <2>3 DEF TimerInv
<1> QED
  BY <1>1, <1>2, PTL DEF Spec

\* Every variable has its type: in particular resetArriveTime never arms for an
\* event it did not find, and the map holds events only.
THEOREM TimerTypeCorrect == Spec => []TypeOK
BY TimerInvariant, PTL DEF TimerInv

\* Until two threads are in the map at once, it is sorted by arrive time and
\* lists no event twice, although onTimer adds repeated events again while other
\* threads insert between its steps, and although the search of deleteTimeEvent
\* erases whichever event it meets first (timer.cc:20-98).
THEOREM MapStaysInOrder == Spec => []MapInOrder
BY TimerInvariant, PTL DEF TimerInv

\* No event is left in the map with nothing that will wake the loop for it
\* (timer.cc:24-39, 98-136).
THEOREM PendingIsArmed == Spec => []ArmedWhilePending
BY TimerInvariant, PTL DEF TimerInv

\* The timerfd does not expire after the head of the map is due, unless the
\* last timerfd_settime used a copy that was out of date (timer.cc:106-136).
THEOREM ArmedInTime == Spec => []ArmedUnlessOvertaken
BY TimerInvariant, PTL DEF TimerInv
=============================================================================
