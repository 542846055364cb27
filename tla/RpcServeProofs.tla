--------------------------- MODULE RpcServeProofs ---------------------------
(***************************************************************************)
(* Proofs about RpcServe, for any number of requests, any initial size of  *)
(* the buffers and any room in the socket, and however the network cuts    *)
(* the stream up: its types, that requests are served in order, that       *)
(* nothing is forged, and that a request which one pass of onRead sees     *)
(* whole is served, unless its decode does not return.                     *)
(***************************************************************************)
EXTENDS RpcServe, SequenceTheorems, WellFoundedInduction, TLAPS

\* Where a unit is in the client's stream.
Place(u) == IF u.part = "head" THEN 2 * u.id - 1 ELSE 2 * u.id

\* A request's unit.
Requested == [id : Ids, part : {"head", "tail"}]

\* The shape of a buffer, and the unit behind its read index by i.
Buffers(b) ==
    /\ b = [store |-> b.store, size |-> b.size, read |-> b.read, write |-> b.write]
    /\ DOMAIN b.store = 0..(b.size - 1)
    /\ b.size \in Nat /\ b.read \in Nat /\ b.write \in Nat
    /\ b.read <= b.write /\ b.write <= b.size
Unread(b, i) == b.store[b.read + i - 1]

\* The units that the server has read, and those it has decoded or lost.
Read == sent - Len(toServer)
Gone == Read - ReadAble(in)

\* The requests on their way are the rest of the client's stream: in the
\* socket, and before it in the buffer, which holds one read() only and that
\* only until it is decoded.
Stream ==
    /\ toServer \in Seq(Requested) /\ Len(toServer) <= sent
    /\ \A k \in 1..Len(toServer) : Place(toServer[k]) = Read + k
    /\ Buffers(in) /\ in.write < in.size /\ ReadAble(in) <= Read
    /\ pc # "decoding" => in.read = in.write
    /\ \A k \in 1..ReadAble(in) :
          Unread(in, k) \in Requested /\ Place(Unread(in, k)) = Gone + k

\* What has been served is behind that, in order; and what was not served was
\* cut, or taken by a decode that does not return.
Dispatched ==
    /\ served \in Seq([id : Ids, rest : Units])
    /\ \A k \in 1..Len(served) : served[k].rest = TailUnit(served[k].id) /\ 2 * served[k].id <= Gone
    /\ \A j, k \in 1..Len(served) : j < k => served[j].id < served[k].id
    /\ cut \subseteq Ids /\ stuck \subseteq Ids
    /\ \A i \in Ids : 2 * i - 1 <= Gone =>
          i \in cut \/ i \in stuck \/ \E k \in 1..Len(served) : served[k].id = i

\* The ids that an answer can have: of requests served, or the substitute.
Answerable ==
    {0} \cup {i \in Ids : kind[i] = "good" /\ \E k \in 1..Len(served) : served[k].id = i}

\* A buffer of whole answers.
Answers(b, V) ==
    /\ Buffers(b) /\ ReadAble(b) % 2 = 0
    /\ \A i \in 1..ReadAble(b) :
          /\ Unread(b, i).id \in V
          /\ Unread(b, i) =
                IF i % 2 = 1 THEN HeadUnit(Unread(b, i).id) ELSE TailUnit(Unread(b, i).id)
          /\ i % 2 = 0 => Unread(b, i - 1) = HeadUnit(Unread(b, i).id)

\* In the socket an answer may be cut short, but no tail follows another head.
Socket ==
    /\ toClient \in Seq(Units) /\ Len(toClient) <= SocketSize
    /\ \A i \in 1..Len(toClient) : toClient[i].id \in Answerable
    /\ \A i \in 1..(Len(toClient) - 1) :
          toClient[i + 1].part = "tail" => toClient[i] = HeadUnit(toClient[i + 1].id)

\* What the client has been told.
Told ==
    \A p \in told : /\ p.id \in Ids /\ p.id \in Answerable
                    /\ p = [id |-> p.id, rest |-> TailUnit(p.id)]

\* The types of what the parts above say nothing of.
Control ==
    /\ kind \in [Ids -> {"good", "bad"}] /\ sent \in 0..(2 * Calls)
    /\ pc \in {"idle", "reading", "decoding", "looping", "writing"}
    /\ stuck # {} => pc = "looping"
    /\ written \subseteq Ids
ServeInv ==
    /\ Control /\ wantOut \in BOOLEAN /\ clientLoops \in BOOLEAN
    /\ Stream /\ Dispatched /\ Answers(out, Answerable) /\ Socket /\ Told

-----------------------------------------------------------------------------
(* What the operators do.                                                   *)

\* A set of numbers that is not empty has a least member.
LEMMA LeastNat ==
    ASSUME NEW T, T \subseteq Nat, T # {}
    PROVE  \E n \in T : \A m \in T : n <= m
<1>1. PICK n \in T : \A m \in T : ~ (<<m, n>> \in OpToRel(<, Nat))
  BY NatLessThanWellFounded, WFMin
<1>2. \A m \in T : ~ (m < n)
  BY <1>1 DEF OpToRel
<1> QED
  BY <1>2

\* A recursion over the numbers up to l is a function: step says what it does
\* to a value.
Recurs(f, base, step, l) ==
    \A n \in 0..l : f[n] = IF n = 0 THEN base ELSE step[n][f[n - 1]]

LEMMA RecursionExists ==
    ASSUME NEW S, NEW l \in Nat, NEW base \in S, NEW step \in [1..l -> [S -> S]]
    PROVE  \E f \in [0..l -> S] : Recurs(f, base, step, l)
<1> DEFINE T == {n \in 0..l : ~ \E f \in [0..n -> S] : Recurs(f, base, step, n)}
<1>1. ASSUME T # {} PROVE FALSE
  <2>0. T \subseteq Nat /\ T \subseteq 0..l
    OBVIOUS
  <2>1. PICK n \in T : \A m \in T : n <= m
    BY ONLY <2>0, <1>1, LeastNat
  <2>2. CASE n = 0
    <3>1. [m \in 0..0 |-> base] \in [0..0 -> S] /\ Recurs([m \in 0..0 |-> base], base, step, 0)
      BY DEF Recurs
    <3> QED
      BY <2>1, <2>2, <3>1
  <2>3. CASE n # 0
    <3>1. n - 1 \in 0..l /\ n \in 1..l /\ ~ (n - 1 \in T)
      <4> HIDE DEF T
      <4> QED
        BY <2>0, <2>1, <2>3
    <3>2. PICK v \in [0..(n - 1) -> S] : Recurs(v, base, step, n - 1)
      BY <3>1
    <3> DEFINE w == [m \in 0..n |-> IF m = n THEN step[n][v[n - 1]] ELSE v[m]]
    <3>3. step[n][v[n - 1]] \in S
      <4>1. v[n - 1] \in S /\ n \in 1..l
        BY <3>1, <3>2
      <4> QED
        BY <4>1
    <3>4. w \in [0..n -> S]
      BY <3>1, <3>3
    <3>5. ASSUME NEW m \in 0..n
          PROVE  w[m] = IF m = 0 THEN base ELSE step[m][w[m - 1]]
      <4>1. CASE m = n
        <5>1. w[n] = step[n][v[n - 1]] /\ w[n - 1] = v[n - 1]
          BY <3>1
        <5> QED
          BY <2>3, <4>1, <5>1
      <4>2. CASE m # n
        <5>1. m \in 0..(n - 1) /\ w[m] = v[m]
          BY <3>1, <4>2
        <5>2. m # 0 => w[m - 1] = v[m - 1]
          BY <3>1, <4>2
        <5>3. v[m] = IF m = 0 THEN base ELSE step[m][v[m - 1]]
          BY <3>2, <5>1 DEF Recurs
        <5> QED
          BY <5>1, <5>2, <5>3
      <4> QED
        BY <4>1, <4>2
    <3> HIDE DEF w
    <3>6. Recurs(w, base, step, n)
      BY <3>5 DEF Recurs
    <3> QED
      BY <2>1, <3>4, <3>6
  <2> QED
    BY <2>2, <2>3
<1> QED
  BY <1>1

-----------------------------------------------------------------------------
(* decode().                                                                *)

\* A whole packet starts at the n-th unit.
Starts(s, n) ==
    n \in 1..(Len(s) - 1) /\ s[n].part = "head" /\ s[n + 1].part = "tail"
PacketAt(s, n) == [id |-> s[n].id, rest |-> s[n + 1]]
Packets == [id : 0..Calls, rest : Units]

\* d has the packets that start at the first n units, each once and in order.
Finds(s, d, n) ==
    \E p \in [1..Len(d) -> 1..n] :
        /\ \A k \in 1..Len(d) : Starts(s, p[k]) /\ d[k] = PacketAt(s, p[k])
        /\ \A j, k \in 1..Len(d) : j < k => p[j] < p[k]
        /\ \A i \in 1..n : Starts(s, i) => \E k \in 1..Len(d) : p[k] = i

\* One unit more.
LEMMA FindsNext ==
    ASSUME NEW s \in Seq(Units), NEW n \in 1..Len(s), NEW d \in Seq(Packets), Finds(s, d, n - 1),
           NEW e, e = IF s[n].part = "head" /\ EndsAt(s, n) THEN Append(d, PacketAt(s, n)) ELSE d
    PROVE  e \in Seq(Packets) /\ Finds(s, e, n)
<1>1. PICK p \in [1..Len(d) -> 1..(n - 1)] :
        /\ \A k \in 1..Len(d) : Starts(s, p[k]) /\ d[k] = PacketAt(s, p[k])
        /\ \A j, k \in 1..Len(d) : j < k => p[j] < p[k]
        /\ \A i \in 1..(n - 1) : Starts(s, i) => \E k \in 1..Len(d) : p[k] = i
  BY DEF Finds
<1>2. Len(d) \in Nat /\ Len(s) \in Nat /\ n \in Nat
  OBVIOUS
<1>3. Starts(s, n) <=> s[n].part = "head" /\ EndsAt(s, n)
  BY <1>2 DEF Starts, EndsAt
<1>4. CASE Starts(s, n)
  <2>1. PacketAt(s, n) \in Packets
    <3>1. s[n] \in Units /\ s[n + 1] \in Units
      BY <1>2, <1>4 DEF Starts
    <3> QED
      BY <3>1 DEF PacketAt, Packets, Units
  <2>2. e = Append(d, PacketAt(s, n))
    BY <1>3, <1>4
  <2>3. /\ e \in Seq(Packets) /\ Len(e) = Len(d) + 1
        /\ \A k \in 1..Len(d) : e[k] = d[k]
        /\ e[Len(d) + 1] = PacketAt(s, n)
    BY ONLY <2>1, <2>2, d \in Seq(Packets), AppendProperties
  <2> DEFINE q == [k \in 1..(Len(d) + 1) |-> IF k = Len(d) + 1 THEN n ELSE p[k]]
  <2>4. q \in [1..Len(e) -> 1..n]
    BY <1>1, <1>2, <2>3
  <2>5. \A k \in 1..Len(e) : Starts(s, q[k]) /\ e[k] = PacketAt(s, q[k])
    BY <1>1, <1>2, <1>4, <2>3
  <2>6. \A j, k \in 1..Len(e) : j < k => q[j] < q[k]
    BY <1>1, <1>2, <2>3, SMTT(60)
  <2>7. \A i \in 1..n : Starts(s, i) => \E k \in 1..Len(e) : q[k] = i
    <3> SUFFICES ASSUME NEW i \in 1..n, Starts(s, i)
                 PROVE  \E k \in 1..Len(e) : q[k] = i
      OBVIOUS
    <3>1. CASE i = n
      <4>1. Len(d) + 1 \in 1..Len(e) /\ q[Len(d) + 1] = n
        BY <1>2, <2>3
      <4> QED
        BY <3>1, <4>1
    <3>2. CASE i # n
      <4>1. i \in 1..(n - 1)
        BY <1>2, <3>2
      <4>2. PICK k \in 1..Len(d) : p[k] = i
        BY <1>1, <4>1
      <4>3. k \in 1..Len(e) /\ q[k] = i
        BY <1>2, <2>3, <4>2
      <4> QED
        BY <4>3
    <3> QED
      BY <3>1, <3>2
  <2> HIDE DEF q
  <2> QED
    BY <2>3, <2>4, <2>5, <2>6, <2>7 DEF Finds
<1>5. CASE ~Starts(s, n)
  <2>1. e = d
    BY <1>3, <1>5
  <2>2. p \in [1..Len(d) -> 1..n]
    BY <1>1, <1>2
  <2>3. \A i \in 1..n : Starts(s, i) => \E k \in 1..Len(d) : p[k] = i
    <3> SUFFICES ASSUME NEW i \in 1..n, Starts(s, i)
                 PROVE  \E k \in 1..Len(d) : p[k] = i
      OBVIOUS
    <3>1. i \in 1..(n - 1)
      BY <1>2, <1>5
    <3> QED
      BY <1>1, <3>1
  <2>4. /\ \A k \in 1..Len(d) : Starts(s, p[k]) /\ d[k] = PacketAt(s, p[k])
        /\ \A j, k \in 1..Len(d) : j < k => p[j] < p[k]
    BY <1>1
  <2>5. Finds(s, d, n)
    BY ONLY <2>2, <2>3, <2>4, Zenon DEF Finds
  <2> QED
    BY <2>1, <2>5
<1> QED
  BY <1>4, <1>5

\* What decode() returns, when it returns, are the whole packets, each once and in
\* order.
LEMMA DecodeFinds ==
    ASSUME NEW s \in Seq(Units)
    PROVE  Decode(s) \in Seq(Packets) /\ Finds(s, Decode(s), Len(s))
<1> DEFINE l == Len(s)
           F(f) == [n \in 0..Len(s) |->
                      IF n = 0 THEN <<>>
                      ELSE IF s[n].part = "head" /\ EndsAt(s, n)
                           THEN Append(f[n - 1], [id |-> s[n].id, rest |-> s[n + 1]])
                           ELSE f[n - 1]]
           found == CHOOSE f : f = F(f)
           step == [n \in 1..l |-> [d \in Seq(Packets) |->
                      IF s[n].part = "head" /\ EndsAt(s, n) THEN Append(d, PacketAt(s, n)) ELSE d]]
<1>1. l \in Nat /\ <<>> \in Seq(Packets)
  OBVIOUS
<1>2. step \in [1..l -> [Seq(Packets) -> Seq(Packets)]]
  <2> SUFFICES ASSUME NEW n \in 1..l, NEW d \in Seq(Packets), s[n].part = "head", EndsAt(s, n)
               PROVE  Append(d, PacketAt(s, n)) \in Seq(Packets)
    OBVIOUS
  <2>1. s[n] \in Units /\ s[n + 1] \in Units
    BY <1>1 DEF EndsAt
  <2>2. PacketAt(s, n) \in Packets
    BY <2>1 DEF PacketAt, Packets, Units
  <2> QED
    BY ONLY <2>2, d \in Seq(Packets), AppendProperties
<1>3. \E f \in [0..l -> Seq(Packets)] : Recurs(f, <<>>, step, l)
  <2> HIDE DEF l, step
  <2> QED
    BY ONLY <1>1, <1>2, RecursionExists
<1>4. PICK g \in [0..l -> Seq(Packets)] : Recurs(g, <<>>, step, l)
  BY <1>3
<1>5. g = F(g)
  <2>1. ASSUME NEW n \in 0..l
        PROVE  g[n] = F(g)[n]
    <3>1. CASE n = 0
      BY <1>4, <3>1 DEF Recurs
    <3>2. CASE n # 0
      <4>1. n \in 1..l /\ g[n - 1] \in Seq(Packets)
        BY <1>1, <1>4, <3>2, SMTT(60)
      <4>2. g[n] = step[n][g[n - 1]]
        BY <1>4, <3>2 DEF Recurs
      <4> QED
        BY <3>2, <4>1, <4>2 DEF PacketAt
    <3> QED
      BY <3>1, <3>2
  <2> QED
    BY <1>4, <2>1
<1>6. found = F(found)
  BY <1>5
<1>7. Decode(s) = found[l]
  BY DEF Decode
<1> HIDE DEF found
<1> DEFINE T == {n \in 0..l : ~ (found[n] \in Seq(Packets) /\ Finds(s, found[n], n))}
<1>8. ASSUME T # {} PROVE FALSE
  <2>0. T \subseteq Nat /\ T \subseteq 0..l
    BY <1>1
  <2>1. PICK n \in T : \A m \in T : n <= m
    BY ONLY <2>0, <1>8, LeastNat
  <2>2. CASE n = 0
    <3>1. found[0] = <<>>
      BY <1>1, <1>6
    <3>2. Finds(s, <<>>, 0)
      <4> DEFINE p == [k \in 1..0 |-> k]
                 d == <<>>
      <4>1. Len(d) = 0 /\ p \in [1..Len(d) -> 1..0]
        OBVIOUS
      <4>2. /\ \A k \in 1..Len(d) : Starts(s, p[k]) /\ d[k] = PacketAt(s, p[k])
            /\ \A j, k \in 1..Len(d) : j < k => p[j] < p[k]
            /\ \A i \in 1..0 : Starts(s, i) => \E k \in 1..Len(d) : p[k] = i
        BY <4>1
      <4> HIDE DEF p, d
      <4>3. Finds(s, d, 0)
        BY ONLY <4>1, <4>2, Zenon DEF Finds
      <4> QED
        BY <4>3 DEF d
    <3> QED
      BY <1>1, <2>1, <2>2, <3>1, <3>2
  <2>3. CASE n # 0
    <3>1. n \in 1..l /\ n - 1 \in 0..l /\ ~ (n - 1 \in T)
      <4> HIDE DEF T
      <4> QED
        BY <1>1, <2>0, <2>1, <2>3
    <3>2. found[n - 1] \in Seq(Packets) /\ Finds(s, found[n - 1], n - 1)
      BY <3>1
    <3>3. found[n] = IF s[n].part = "head" /\ EndsAt(s, n)
                     THEN Append(found[n - 1], PacketAt(s, n)) ELSE found[n - 1]
      BY <1>6, <2>3, <3>1 DEF PacketAt
    <3>4. found[n] \in Seq(Packets) /\ Finds(s, found[n], n)
      BY <3>1, <3>2, <3>3, FindsNext
    <3> QED
      BY <2>1, <3>4
  <2> QED
    BY <2>2, <2>3
<1>9. l \in 0..l
  BY <1>1
<1> QED
  BY <1>7, <1>8, <1>9

-----------------------------------------------------------------------------
(* The buffers.                                                             *)

\* Moving the unread units to the front of a vector keeps them.
LEMMA MovedUnread ==
    ASSUME NEW b, Buffers(b), NEW size \in Nat, ReadAble(b) <= size,
           NEW m, m = Moved(b, ReadAble(b), size)
    PROVE  /\ Buffers(m) /\ m.size = size /\ m.read = 0 /\ m.write = ReadAble(b)
           /\ \A i \in 1..ReadAble(b) : Unread(m, i) = Unread(b, i)
<1> DEFINE st == [i \in 0..(size - 1) |-> IF i < ReadAble(b) THEN b.store[b.read + i] ELSE Zero]
<1>1. ReadAble(b) \in Nat /\ b.read \in Nat
  BY DEF Buffers, ReadAble
<1>2. m = [store |-> st, size |-> size, read |-> 0, write |-> ReadAble(b)]
  BY DEF Moved
<1>3. DOMAIN st = 0..(size - 1) /\ \A i \in 1..ReadAble(b) : st[0 + i - 1] = b.store[b.read + i - 1]
  <2> SUFFICES ASSUME NEW i \in 1..ReadAble(b)
               PROVE  st[0 + i - 1] = b.store[b.read + i - 1]
    OBVIOUS
  <2>1. 0 + i - 1 \in 0..(size - 1) /\ 0 + i - 1 < ReadAble(b)
        /\ b.read + (0 + i - 1) = b.read + i - 1
    BY <1>1
  <2> QED
    BY <2>1
<1> HIDE DEF st
<1> QED
  BY <1>1, <1>2, <1>3 DEF Buffers, Unread

\* So does the move after a read, and a write index that was below the size
\* still is.
LEMMA AdjustUnread ==
    ASSUME NEW b, Buffers(b), NEW a, a = AdjustBuffer(b)
    PROVE  /\ Buffers(a) /\ ReadAble(a) = ReadAble(b)
           /\ \A i \in 1..ReadAble(b) : Unread(a, i) = Unread(b, i)
           /\ b.write < b.size => a.write < a.size
<1>1. ReadAble(b) \in Nat /\ b.size \in Nat /\ ReadAble(b) <= b.size /\ ReadAble(b) <= b.write
      /\ b.write \in Nat
  BY DEF Buffers, ReadAble
<1>2. CASE b.read < b.size \div 3
  BY <1>2 DEF AdjustBuffer
<1>3. CASE ~ (b.read < b.size \div 3)
  <2>1. a = Moved(b, ReadAble(b), b.size)
    BY <1>3 DEF AdjustBuffer
  <2>2. /\ Buffers(a) /\ a.size = b.size /\ a.read = 0 /\ a.write = ReadAble(b)
        /\ \A i \in 1..ReadAble(b) : Unread(a, i) = Unread(b, i)
    BY <1>1, <2>1, MovedUnread
  <2> QED
    BY <1>1, <2>2 DEF ReadAble
<1> QED
  BY <1>2, <1>3

\* writeToBuffer makes room for n more and keeps what is there.
LEMMA GrownUnread ==
    ASSUME NEW b, Buffers(b), NEW n \in Nat, NEW g, g = Grown(b, n)
    PROVE  /\ Buffers(g) /\ ReadAble(g) = ReadAble(b) /\ n <= WriteAble(g)
           /\ \A i \in 1..ReadAble(b) : Unread(g, i) = Unread(b, i)
<1> DEFINE size == (3 * (b.write + n)) \div 2
<1>1. /\ b.write \in Nat /\ b.read \in Nat /\ b.size \in Nat
      /\ ReadAble(b) \in Nat /\ ReadAble(b) <= b.write
  BY DEF Buffers, ReadAble
<1>2. size \in Nat /\ b.write + n <= size /\ ReadAble(b) <= size /\ ReadAble(b) + n <= size
  BY <1>1
<1>3. CASE n > WriteAble(b)
  <2> HIDE DEF size
  <2>1. g = Moved(b, ReadAble(b), size)
    <3>1. g = ResizeBuffer(b, size)
      BY <1>3 DEF Grown, size
    <3> QED
      BY <1>1, <1>2, <3>1 DEF ResizeBuffer
  <2>2. /\ Buffers(g) /\ g.size = size /\ g.read = 0 /\ g.write = ReadAble(b)
        /\ \A i \in 1..ReadAble(b) : Unread(g, i) = Unread(b, i)
    BY <1>2, <2>1, MovedUnread
  <2>3. ReadAble(g) = g.write - g.read /\ WriteAble(g) = g.size - g.write
    BY DEF ReadAble, WriteAble
  <2> QED
    BY <1>1, <1>2, <2>2, <2>3
<1>4. CASE ~ (n > WriteAble(b))
  <2>1. g = b
    BY <1>4 DEF Grown
  <2>2. n <= WriteAble(b)
    BY <1>1, <1>4 DEF WriteAble
  <2> QED
    BY <2>1, <2>2
<1> QED
  BY <1>3, <1>4

\* Units stored behind the write index are unread once it moves over them.
LEMMA StoredUnread ==
    ASSUME NEW b, Buffers(b), NEW s \in Seq(Units), Len(s) <= WriteAble(b),
           NEW v, v = [Stored(b, s) EXCEPT !.write = b.write + Len(s)]
    PROVE  /\ Buffers(Stored(b, s))
           /\ Stored(b, s).read = b.read /\ Stored(b, s).write = b.write
           /\ Stored(b, s).size = b.size
           /\ Buffers(v) /\ v.read = b.read /\ v.write = b.write + Len(s) /\ v.size = b.size
           /\ \A i \in 1..ReadAble(b) : Unread(v, i) = Unread(b, i)
           /\ \A i \in 1..Len(s) : Unread(v, ReadAble(b) + i) = s[i]
<1> DEFINE st == [i \in DOMAIN b.store |->
        IF i \in b.write..(b.write + Len(s) - 1) THEN s[i - b.write + 1] ELSE b.store[i]]
<1>1. /\ b = [store |-> b.store, size |-> b.size, read |-> b.read, write |-> b.write]
      /\ DOMAIN b.store = 0..(b.size - 1)
      /\ b.size \in Nat /\ b.read \in Nat /\ b.write \in Nat
      /\ b.read <= b.write /\ b.write + Len(s) <= b.size /\ Len(s) \in Nat
  BY DEF Buffers, WriteAble
<1>2. \A i \in 1..(b.write - b.read) : st[b.read + i - 1] = b.store[b.read + i - 1]
  <2> SUFFICES ASSUME NEW i \in 1..(b.write - b.read)
               PROVE  st[b.read + i - 1] = b.store[b.read + i - 1]
    OBVIOUS
  <2>1. b.read + i - 1 \in DOMAIN b.store /\ b.read + i - 1 < b.write
    BY <1>1
  <2> QED
    BY <1>1, <2>1
<1>3. \A i \in 1..Len(s) : st[b.read + ((b.write - b.read) + i) - 1] = s[i]
  <2> SUFFICES ASSUME NEW i \in 1..Len(s)
               PROVE  st[b.read + ((b.write - b.read) + i) - 1] = s[i]
    OBVIOUS
  <2>1. b.read + ((b.write - b.read) + i) - 1 = b.write + i - 1
    BY <1>1
  <2>2. b.write + i - 1 \in DOMAIN b.store /\ (b.write + i - 1) - b.write + 1 = i
        /\ b.write + i - 1 \in b.write..(b.write + Len(s) - 1)
    BY <1>1
  <2> QED
    BY <2>1, <2>2
<1>4. DOMAIN st = 0..(b.size - 1)
  BY <1>1
<1>5. Stored(b, s) = [b EXCEPT !.store = st]
  BY DEF Stored
<1> HIDE DEF st
<1>6. Stored(b, s) = [store |-> st, size |-> b.size, read |-> b.read, write |-> b.write]
  BY <1>1, <1>5
<1>7. v = [store |-> st, size |-> b.size, read |-> b.read, write |-> b.write + Len(s)]
  BY <1>6
<1> QED
  BY <1>1, <1>2, <1>3, <1>4, <1>6, <1>7 DEF Buffers, Unread, ReadAble

\* An answer written behind whole answers.
LEMMA AnswerWritten ==
    ASSUME NEW V \in SUBSET (0..Calls), NEW b, Answers(b, V), NEW i \in V,
           NEW w, w = WriteToBuffer(b, Packet(i))
    PROVE  Answers(w, V)
<1> DEFINE g == Grown(b, 2)
           s == Packet(i)
           n == ReadAble(b)
<1>1. s \in Seq(Units) /\ Len(s) = 2 /\ s[1] = HeadUnit(i) /\ s[2] = TailUnit(i)
  BY DEF Packet, HeadUnit, TailUnit, Units
<1>2. Buffers(b) /\ n \in Nat /\ n % 2 = 0
  BY DEF Answers, Buffers, ReadAble
<1>3. /\ Buffers(g) /\ ReadAble(g) = n /\ 2 <= WriteAble(g)
      /\ \A k \in 1..n : Unread(g, k) = Unread(b, k)
  BY <1>2, GrownUnread
<1>4. w = [Stored(g, s) EXCEPT !.write = g.write + Len(s)]
  BY <1>1 DEF WriteToBuffer
<1> HIDE DEF g, s
<1>5. /\ Buffers(w) /\ w.read = g.read /\ w.write = g.write + 2
      /\ \A k \in 1..n : Unread(w, k) = Unread(g, k)
      /\ \A k \in 1..2 : Unread(w, n + k) = s[k]
  <2>1. Buffers(g) /\ s \in Seq(Units) /\ Len(s) <= WriteAble(g)
    BY <1>1, <1>3
  <2>2. /\ Buffers(w) /\ w.read = g.read /\ w.write = g.write + Len(s)
        /\ \A k \in 1..ReadAble(g) : Unread(w, k) = Unread(g, k)
        /\ \A k \in 1..Len(s) : Unread(w, ReadAble(g) + k) = s[k]
    BY ONLY <2>1, <1>4, StoredUnread
  <2>3. ReadAble(g) = n /\ Len(s) = 2
    BY <1>1, <1>3
  <2> HIDE DEF n
  <2> QED
    BY ONLY <2>2, <2>3, Zenon
<1>6. ReadAble(w) = n + 2
  BY <1>2, <1>3, <1>5 DEF ReadAble, Buffers
<1>7. /\ Unread(w, n + 1) = HeadUnit(i) /\ Unread(w, n + 2) = TailUnit(i)
      /\ \A k \in 1..n : Unread(w, k) = Unread(b, k)
  BY <1>1, <1>3, <1>5
<1>8. HeadUnit(i).id = i /\ TailUnit(i).id = i
  BY DEF HeadUnit, TailUnit
<1>9. ASSUME NEW k \in 1..(n + 2)
      PROVE  /\ Unread(w, k).id \in V
             /\ Unread(w, k) =
                   IF k % 2 = 1 THEN HeadUnit(Unread(w, k).id) ELSE TailUnit(Unread(w, k).id)
             /\ k % 2 = 0 => Unread(w, k - 1) = HeadUnit(Unread(w, k).id)
  <2> HIDE DEF n
  <2>1. CASE k = n + 1
    <3>1. k % 2 = 1
      BY <1>2, <2>1
    <3> QED
      BY <1>7, <1>8, <2>1, <3>1
  <2>2. CASE k = n + 2
    <3>1. k % 2 = 0 /\ k - 1 = n + 1
      BY <1>2, <2>2
    <3> QED
      BY <1>7, <1>8, <2>2, <3>1
  <2>3. CASE k <= n
    <3>1. k \in 1..n
      BY <1>2, <2>3
    <3>2. k % 2 = 0 => k - 1 \in 1..n
      BY <1>2, <3>1
    <3> QED
      BY <1>7, <3>1, <3>2 DEF Answers, n
  <2> QED
    BY <1>2, <2>1, <2>2, <2>3
<1>10. ReadAble(w) % 2 = 0
  <2> HIDE DEF n
  <2> QED
    BY <1>2, <1>6
<1> QED
  BY <1>5, <1>6, <1>9, <1>10 DEF Answers

\* The recursion of encode() is a function.
Writes(f, b, ids, l) ==
    \A n \in 0..l : f[n] = IF n = 0 THEN b ELSE WriteToBuffer(f[n - 1], Packet(ids[n]))

LEMMA EncodeExists ==
    ASSUME NEW b, NEW ids, NEW l \in Nat
    PROVE  \E f : f = [n \in 0..l |-> f[n]] /\ Writes(f, b, ids, l)
<1> DEFINE T == {n \in 0..l : ~ \E f : Writes(f, b, ids, n)}
<1>1. ASSUME T # {} PROVE FALSE
  <2>0. T \subseteq Nat /\ T \subseteq 0..l
    OBVIOUS
  <2>1. PICK n \in T : \A m \in T : n <= m
    BY ONLY <2>0, <1>1, LeastNat
  <2>2. CASE n = 0
    <3>1. Writes([m \in 0..0 |-> b], b, ids, 0)
      BY DEF Writes
    <3> QED
      BY <2>1, <2>2, <3>1
  <2>3. CASE n # 0
    <3>1. n - 1 \in 0..l /\ n \in 1..l /\ ~ (n - 1 \in T)
      <4> HIDE DEF T
      <4> QED
        BY <2>0, <2>1, <2>3
    <3>2. PICK v : Writes(v, b, ids, n - 1)
      BY <3>1
    <3> DEFINE w == [m \in 0..n |-> IF m = n THEN WriteToBuffer(v[n - 1], Packet(ids[n])) ELSE v[m]]
    <3>3. ASSUME NEW m \in 0..n
          PROVE  w[m] = IF m = 0 THEN b ELSE WriteToBuffer(w[m - 1], Packet(ids[m]))
      <4>1. CASE m = n
        <5>1. w[n] = WriteToBuffer(v[n - 1], Packet(ids[n])) /\ w[n - 1] = v[n - 1]
          BY <3>1
        <5> QED
          BY <2>3, <4>1, <5>1
      <4>2. CASE m # n
        <5>1. m \in 0..(n - 1) /\ w[m] = v[m]
          BY <3>1, <4>2
        <5>2. m # 0 => w[m - 1] = v[m - 1]
          BY <3>1, <4>2
        <5>3. v[m] = IF m = 0 THEN b ELSE WriteToBuffer(v[m - 1], Packet(ids[m]))
          BY <3>2, <5>1 DEF Writes
        <5> QED
          BY <5>1, <5>2, <5>3
      <4> QED
        BY <4>1, <4>2
    <3> HIDE DEF w
    <3>4. Writes(w, b, ids, n)
      BY <3>3 DEF Writes
    <3> QED
      BY <2>1, <3>4
  <2> QED
    BY <2>2, <2>3
<1>2. PICK f : Writes(f, b, ids, l)
  BY <1>1
<1> DEFINE g == [n \in 0..l |-> f[n]]
<1>3. g = [n \in 0..l |-> g[n]] /\ Writes(g, b, ids, l)
  BY <1>2 DEF Writes
<1> QED
  BY <1>3

\* encode() of a batch of responses.
LEMMA EncodeAnswers ==
    ASSUME NEW V \in SUBSET (0..Calls), NEW b, Answers(b, V), NEW ids \in Seq(V)
    PROVE  Answers(Encode(b, ids), V)
<1> DEFINE l == Len(ids)
           F(f) == [n \in 0..Len(ids) |-> IF n = 0 THEN b
                                          ELSE WriteToBuffer(f[n - 1], Packet(ids[n]))]
           encoded == CHOOSE f : f = F(f)
<1>1. l \in Nat
  OBVIOUS
<1>2. PICK g : g = [n \in 0..l |-> g[n]] /\ Writes(g, b, ids, l)
  BY <1>1, EncodeExists
<1>3. g = F(g)
  BY <1>2, Zenon DEF Writes
<1>4. encoded = F(encoded)
  BY <1>3
<1>5. Encode(b, ids) = encoded[l]
  BY DEF Encode
<1> HIDE DEF encoded
<1> DEFINE T == {n \in 0..l : ~ Answers(encoded[n], V)}
<1>6. ASSUME T # {} PROVE FALSE
  <2>0. T \subseteq Nat /\ T \subseteq 0..l
    BY <1>1
  <2>1. PICK n \in T : \A m \in T : n <= m
    BY ONLY <2>0, <1>6, LeastNat
  <2>2. CASE n = 0
    <3>1. encoded[0] = b
      BY <1>1, <1>4
    <3> QED
      BY <2>1, <2>2, <3>1
  <2>3. CASE n # 0
    <3>1. n \in 1..l /\ n - 1 \in 0..l /\ ~ (n - 1 \in T)
      <4> HIDE DEF T
      <4> QED
        BY <1>1, <2>0, <2>1, <2>3
    <3>2. Answers(encoded[n - 1], V)
      BY <3>1
    <3>3. encoded[n] = WriteToBuffer(encoded[n - 1], Packet(ids[n]))
      BY <1>4, <2>3, <3>1
    <3>4. ids[n] \in V
      BY <3>1
    <3>5. Answers(encoded[n], V)
      BY <3>2, <3>3, <3>4, AnswerWritten
    <3> QED
      BY <2>1, <3>5
  <2> QED
    BY <2>2, <2>3
<1>7. l \in 0..l
  BY <1>1
<1> QED
  BY <1>5, <1>6, <1>7

-----------------------------------------------------------------------------
(* The invariant.                                                           *)

\* What has been read and decoded are numbers, and places are.
LEMMA Numbers ==
    ASSUME Control, Stream
    PROVE  /\ sent \in Nat /\ Calls \in Nat /\ sent <= 2 * Calls
           /\ Len(toServer) \in Nat /\ Read \in Nat /\ Read <= sent
           /\ ReadAble(in) \in Nat /\ Gone \in Nat /\ Gone + ReadAble(in) = Read
           /\ Read + Len(toServer) = sent
           /\ in.size \in Nat /\ in.read \in Nat /\ in.write \in Nat
<1>1. Calls \in Nat /\ sent \in 0..(2 * Calls)
  BY ServeAssumption DEF Control
<1>2. toServer \in Seq(Requested) /\ Len(toServer) <= sent /\ ReadAble(in) <= Read
  BY DEF Stream
<1>3. /\ in.size \in Nat /\ in.read \in Nat /\ in.write \in Nat /\ in.read <= in.write
      /\ ReadAble(in) = in.write - in.read
  BY DEF Stream, Buffers, ReadAble
<1>4. Len(toServer) \in Nat
  BY <1>2
<1>5. Read = sent - Len(toServer) /\ Gone = Read - ReadAble(in)
  BY DEF Read, Gone
<1> QED
  BY ONLY <1>1, <1>2, <1>3, <1>4, <1>5

\* It holds initially.
LEMMA ServeInit == Init => ServeInv
<1> SUFFICES ASSUME Init PROVE ServeInv
  OBVIOUS
<1>1. /\ Buffers(NewBuffer(BufferSize))
      /\ NewBuffer(BufferSize).read = 0 /\ NewBuffer(BufferSize).write = 0
      /\ NewBuffer(BufferSize).size = BufferSize
  BY ServeAssumption DEF NewBuffer, Buffers
<1>2. Control /\ wantOut \in BOOLEAN /\ clientLoops \in BOOLEAN
  <2>1. 0 \in 0..(2 * Calls)
    BY ServeAssumption
  <2> QED
    BY <2>1, Zenon DEF Init, Control
<1>3. ReadAble(in) = 0 /\ ReadAble(out) = 0
  BY <1>1 DEF Init, ReadAble
<1>4. Stream
  BY <1>1, <1>3, ServeAssumption DEF Init, Stream, Read
<1>5. Gone = 0
  <2>1. sent = 0 /\ Len(toServer) = 0
    BY DEF Init
  <2> QED
    BY <1>3, <2>1 DEF Gone, Read
<1>6. Dispatched
  <2>1. \A i \in Ids : ~ (2 * i - 1 <= 0)
    BY ServeAssumption DEF Ids
  <2> QED
    BY <1>5, <2>1 DEF Init, Dispatched
<1>7. Answers(out, Answerable)
  BY <1>1, <1>3 DEF Init, Answers
<1>8. Socket /\ Told
  BY ServeAssumption DEF Init, Socket, Told
<1> QED
  BY <1>2, <1>4, <1>6, <1>7, <1>8 DEF ServeInv

\* The steps that change nothing that the invariant is about.
LEMMA QuietKeeps ==
    ASSUME ServeInv, OnRead \/ OnWrite \/ UNCHANGED vars
    PROVE  ServeInv'
<1>1. UNCHANGED <<kind, in, out, wantOut, sent, toServer, toClient, clientLoops, served, cut,
                  stuck, written, told>>
  BY DEF OnRead, OnWrite, vars, serverVars, clientVars
<1>2. /\ pc' \in {"reading", "writing", "idle", "decoding", "looping"}
      /\ pc' = pc \/ pc = "idle"
  BY DEF OnRead, OnWrite, vars, serverVars, ServeInv, Control
<1>3. pc' = pc \/ pc' # "decoding"
  BY DEF OnRead, OnWrite, vars, serverVars
<1>4. Answerable' = Answerable /\ Read' = Read /\ Gone' = Gone
  BY <1>1 DEF Answerable, Read, Gone
<1>5. Control' /\ wantOut' \in BOOLEAN /\ clientLoops' \in BOOLEAN
  <2>1. Control'
    BY <1>1, <1>2 DEF ServeInv, Control
  <2> QED
    BY <1>1, <2>1, Zenon DEF ServeInv
<1>6. Stream'
  BY <1>1, <1>2, <1>3, <1>4 DEF ServeInv, Stream
<1>7. Dispatched' /\ Answers(out, Answerable)' /\ Socket' /\ Told'
  BY <1>1, <1>4 DEF ServeInv, Dispatched, Socket, Told
<1> QED
  BY <1>5, <1>6, <1>7 DEF ServeInv

\* The client's next unit arrives.
LEMMA SendKeeps ==
    ASSUME ServeInv, Send
    PROVE  ServeInv'
<1>1. UNCHANGED <<kind, pc, in, out, wantOut, toClient, clientLoops, served, cut, stuck,
                  written, told>>
  BY DEF Send, serverVars, clientVars
<1> DEFINE u == Packet(1 + (sent \div 2))[1 + (sent % 2)]
<1>2. /\ sent \in Nat /\ Calls \in Nat /\ sent < 2 * Calls /\ toServer \in Seq(Requested)
      /\ Len(toServer) <= sent
  BY Numbers DEF Send, ServeInv, Stream
<1>3. u \in Requested /\ Place(u) = sent + 1
  <2>1. CASE sent % 2 = 0
    <3>1. u = HeadUnit(1 + (sent \div 2))
      BY <2>1 DEF Packet
    <3>2. 1 + (sent \div 2) \in 1..Calls /\ 2 * (1 + (sent \div 2)) - 1 = sent + 1
      BY <1>2, <2>1
    <3> HIDE DEF u
    <3> QED
      BY <3>1, <3>2 DEF HeadUnit, Requested, Place, Ids
  <2>2. CASE sent % 2 = 1
    <3>1. u = TailUnit(1 + (sent \div 2))
      BY <2>2 DEF Packet
    <3>2. 1 + (sent \div 2) \in 1..Calls /\ 2 * (1 + (sent \div 2)) = sent + 1
      BY <1>2, <2>2
    <3> HIDE DEF u
    <3> QED
      BY <3>1, <3>2 DEF TailUnit, Requested, Place, Ids
  <2> QED
    BY <1>2, <2>1, <2>2
<1>4. sent' = sent + 1 /\ toServer' = Append(toServer, u)
  BY DEF Send
<1> HIDE DEF u
<1>5. /\ toServer' \in Seq(Requested) /\ Len(toServer') = Len(toServer) + 1
      /\ \A k \in 1..Len(toServer) : toServer'[k] = toServer[k]
      /\ toServer'[Len(toServer) + 1] = u
  BY ONLY <1>2, <1>3, <1>4, AppendProperties
<1>6. Answerable' = Answerable /\ Read' = Read /\ Gone' = Gone
  BY <1>1, <1>2, <1>4, <1>5 DEF Answerable, Read, Gone
<1>7. Control'
  BY <1>1, <1>2, <1>4 DEF ServeInv, Control
<1>8. \A k \in 1..Len(toServer') : Place(toServer'[k]) = Read + k
  <2> SUFFICES ASSUME NEW k \in 1..Len(toServer') PROVE Place(toServer'[k]) = Read + k
    OBVIOUS
  <2>1. CASE k = Len(toServer) + 1
    BY <1>2, <1>3, <1>5, <2>1 DEF Read
  <2>2. CASE k # Len(toServer) + 1
    <3>1. k \in 1..Len(toServer)
      BY <1>2, <1>5, <2>2
    <3> QED
      BY <1>5, <3>1 DEF ServeInv, Stream
  <2> QED
    BY <2>1, <2>2
<1>9. Stream'
  BY <1>1, <1>2, <1>4, <1>5, <1>6, <1>8 DEF ServeInv, Stream
<1>10. Dispatched' /\ Answers(out, Answerable)' /\ Socket' /\ Told'
  BY <1>1, <1>6 DEF ServeInv, Dispatched, Socket, Told
<1> QED
  BY <1>1, <1>7, <1>9, <1>10 DEF ServeInv

\* What is behind Gone is a request's unit: the places of a request's two units.
LEMMA Places ==
    /\ \A u \in Requested : u.id \in Ids /\ u.id \in Nat /\ u \in Units
    /\ \A u \in Requested : u.part = "head" => u = HeadUnit(u.id) /\ Place(u) = 2 * u.id - 1
    /\ \A u \in Requested : u.part = "tail" => u = TailUnit(u.id) /\ Place(u) = 2 * u.id
    /\ \A u \in Requested, i \in Ids : Place(u) = 2 * i - 1 => u = HeadUnit(i)
    /\ \A u \in Requested, i \in Ids : Place(u) = 2 * i => u = TailUnit(i)
<1>1. \A i \in Ids : i \in Nat /\ i \in 0..Calls
  BY ServeAssumption DEF Ids
<1>2. ASSUME NEW u \in Requested
      PROVE  /\ u = [id |-> u.id, part |-> u.part] /\ u.id \in Ids /\ u.part \in {"head", "tail"}
  BY DEF Requested
<1>3. ASSUME NEW u \in Requested, NEW i \in Ids
      PROVE  /\ Place(u) = 2 * i - 1 => u.part = "head" /\ u.id = i
             /\ Place(u) = 2 * i => u.part = "tail" /\ u.id = i
  <2>1. u.id \in Nat /\ i \in Nat /\ u.part \in {"head", "tail"}
    BY <1>1, <1>2
  <2> QED
    BY <2>1 DEF Place
<1> QED
  BY <1>1, <1>2, <1>3 DEF Place, HeadUnit, TailUnit, Units

\* What has been served are requests.
LEMMA ServedType ==
    ASSUME Dispatched
    PROVE  \A k \in 1..Len(served) : /\ served[k].id \in Ids /\ served[k].id \in Nat
                                     /\ served[k] = [id |-> served[k].id, rest |-> served[k].rest]
<1>1. served \in Seq([id : Ids, rest : Units])
  BY DEF Dispatched
<1>2. \A k \in 1..Len(served) : served[k] \in [id : Ids, rest : Units]
  <2> DEFINE S == [id : Ids, rest : Units]
  <2> HIDE DEF S
  <2>1. served \in Seq(S)
    BY <1>1 DEF S
  <2>2. \A k \in 1..Len(served) : served[k] \in S
    BY <2>1
  <2> QED
    BY <2>2 DEF S
<1>3. \A i \in Ids : i \in Nat
  BY ServeAssumption DEF Ids
<1> QED
  BY <1>2, <1>3

\* One read().
LEMMA ReadSocketKeeps ==
    ASSUME ServeInv, ReadSocket
    PROVE  ServeInv'
<1> DEFINE space == WriteAble(in)
           n     == IF space < Len(toServer) THEN space ELSE Len(toServer)
           chunk == SubSeq(toServer, 1, n)
<1>1. /\ UNCHANGED <<kind, out, wantOut, sent, toClient, clientLoops, served, stuck, written, told>>
      /\ pc = "reading" /\ stuck = {}
  BY DEF ReadSocket, clientVars, ServeInv, Control
<1>2. /\ toServer \in Seq(Requested) /\ Buffers(in) /\ in.read = in.write /\ in.write < in.size
  BY <1>1 DEF ServeInv, Stream
<1>3. /\ sent \in Nat /\ Calls \in Nat /\ Len(toServer) \in Nat /\ Read \in Nat
      /\ ReadAble(in) = 0 /\ Gone = Read /\ Read + Len(toServer) = sent
      /\ in.size \in Nat /\ in.read \in Nat /\ in.write \in Nat
  BY <1>2, Numbers DEF ServeInv, ReadAble
<1>4. space \in Nat /\ space # 0 /\ n \in Nat /\ n <= space /\ n <= Len(toServer)
      /\ space = in.size - in.write
  BY <1>2, <1>3 DEF WriteAble
<1>5. /\ chunk \in Seq(Requested) /\ Len(chunk) = n /\ chunk \in Seq(Units)
      /\ \A k \in 1..n : chunk[k] = toServer[k]
  <2> HIDE DEF n
  <2>1. /\ chunk \in Seq(Requested) /\ Len(chunk) = n
        /\ \A k \in 1..n : chunk[k] = toServer[k]
    BY <1>2, <1>3, <1>4
  <2>2. Requested \subseteq Units
    BY Places
  <2> QED
    BY <2>1, <2>2
<1>6. /\ in' = MoveWriteIndex(Stored(in, chunk), n)
      /\ toServer' = SubSeq(toServer, n + 1, Len(toServer))
      /\ pc' = IF n = space THEN "reading" ELSE "decoding"
      /\ cut' = IF n = space THEN cut \cup {chunk[i].id : i \in DOMAIN chunk} ELSE cut
  BY <1>4 DEF ReadSocket
<1> HIDE DEF chunk, n
<1>7. /\ toServer' \in Seq(Requested) /\ Len(toServer') = Len(toServer) - n
      /\ \A k \in 1..(Len(toServer) - n) : toServer'[k] = toServer[k + n]
  BY <1>2, <1>3, <1>4, <1>6, SMTT(60)
<1>8. Read' = Read + n
  BY <1>1, <1>3, <1>4, <1>7 DEF Read
<1> DEFINE v == [Stored(in, chunk) EXCEPT !.write = in.write + Len(chunk)]
<1>9. /\ Buffers(Stored(in, chunk))
      /\ Stored(in, chunk).read = in.read /\ Stored(in, chunk).write = in.write
      /\ Stored(in, chunk).size = in.size
      /\ Buffers(v) /\ v.read = in.read /\ v.write = in.write + Len(chunk) /\ v.size = in.size
      /\ \A i \in 1..ReadAble(in) : Unread(v, i) = Unread(in, i)
      /\ \A i \in 1..Len(chunk) : Unread(v, ReadAble(in) + i) = chunk[i]
  <2>1. Len(chunk) <= WriteAble(in)
    BY <1>4, <1>5
  <2> QED
    BY ONLY <1>2, <1>5, <2>1, StoredUnread
<1>10. \A k \in 1..Len(toServer) : toServer[k] \in Requested /\ Place(toServer[k]) = Read + k
  BY <1>2 DEF ServeInv, Stream
<1>11. \A k \in 1..Len(toServer') : Place(toServer'[k]) = Read' + k
  <2> SUFFICES ASSUME NEW k \in 1..Len(toServer') PROVE Place(toServer'[k]) = Read' + k
    OBVIOUS
  <2>1. k + n \in 1..Len(toServer) /\ toServer'[k] = toServer[k + n]
    BY <1>3, <1>4, <1>7
  <2> QED
    BY <1>3, <1>4, <1>8, <1>10, <2>1
<1>12. CASE n = space
  <2>1. in' = Stored(in, chunk) /\ pc' = "reading"
    <3>1. Stored(in, chunk).write + n >= Stored(in, chunk).size
      BY <1>3, <1>4, <1>9, <1>12
    <3> QED
      BY <1>6, <1>12, <3>1 DEF MoveWriteIndex
  <2>2. ReadAble(in') = 0 /\ Gone' = Gone + n
    BY <1>3, <1>4, <1>8, <1>9, <2>1 DEF ReadAble, Gone
  <2>3. Stream'
    <3>1. Len(toServer)' <= sent'
      BY <1>1, <1>3, <1>4, <1>7
    <3>2. Buffers(in)' /\ (in.write < in.size)' /\ (in.read = in.write)'
      BY <1>2, <1>9, <2>1 DEF Buffers
    <3>3. ReadAble(in)' <= Read' /\ 1..ReadAble(in)' = {}
      BY <1>3, <1>4, <1>8, <2>2
    <3> QED
      BY <1>7, <1>11, <3>1, <3>2, <3>3 DEF Stream
  <2>4. cut' = cut \cup {chunk[i].id : i \in DOMAIN chunk} /\ cut' \subseteq Ids
    <3>1. cut \subseteq Ids
      BY DEF ServeInv, Dispatched
    <3>2. \A i \in DOMAIN chunk : chunk[i].id \in Ids
      BY <1>5, Places
    <3> QED
      BY <1>6, <1>12, <3>1, <3>2
  <2>5. ASSUME NEW i \in Ids, 2 * i - 1 <= Gone'
        PROVE  i \in cut' \/ i \in stuck \/ \E k \in 1..Len(served) : served[k].id = i
    <3>0. i \in Nat
      BY ServeAssumption DEF Ids
    <3>1. CASE 2 * i - 1 <= Gone
      BY <2>4, <3>1 DEF ServeInv, Dispatched
    <3>2. CASE ~ (2 * i - 1 <= Gone)
      <4>1. PICK k \in 1..n : 2 * i - 1 = Gone + k
        <5>1. (2 * i - 1) - Gone \in 1..n /\ 2 * i - 1 = Gone + ((2 * i - 1) - Gone)
          BY <1>3, <1>4, <2>2, <2>5, <3>0, <3>2
        <5> QED
          BY <5>1
      <4>2. k \in 1..Len(toServer) /\ chunk[k] = toServer[k] /\ k \in DOMAIN chunk
        BY <1>3, <1>4, <1>5, SMTT(60)
      <4>3. toServer[k] \in Requested /\ Place(toServer[k]) = 2 * i - 1
        BY <1>3, <1>10, <4>1, <4>2
      <4>4. toServer[k].id = i
        BY <4>3, Places DEF HeadUnit
      <4> QED
        BY <2>4, <4>2, <4>4
    <3> QED
      BY <3>1, <3>2
  <2>6. \A k \in 1..Len(served) : 2 * served[k].id <= Gone'
    <3> SUFFICES ASSUME NEW k \in 1..Len(served) PROVE 2 * served[k].id <= Gone'
      OBVIOUS
    <3>1. served[k].id \in Nat /\ 2 * served[k].id <= Gone
      BY ServedType DEF ServeInv, Dispatched
    <3> QED
      BY <1>3, <1>4, <2>2, <3>1
  <2>7. Dispatched'
    BY <1>1, <2>4, <2>5, <2>6 DEF ServeInv, Dispatched
  <2> QED
    BY <2>1, <2>3, <2>7, <1>1 DEF ServeInv, Control, Answerable, Socket, Told
<1>13. CASE n # space
  <2>1. in' = v /\ pc' = "decoding" /\ cut' = cut
    <3>1. ~ (Stored(in, chunk).write + n >= Stored(in, chunk).size)
      BY <1>3, <1>4, <1>9, <1>13
    <3>2. v = [Stored(in, chunk) EXCEPT !.write = @ + n]
      BY <1>5, <1>9
    <3> HIDE DEF v
    <3> QED
      BY <1>6, <1>13, <3>1, <3>2 DEF MoveWriteIndex
  <2> HIDE DEF v
  <2>2. ReadAble(in') = n /\ Gone' = Gone
    BY <1>2, <1>3, <1>4, <1>5, <1>8, <1>9, <2>1 DEF ReadAble, Gone
  <2>3. \A k \in 1..n : Unread(in', k) = toServer[k]
    <3> SUFFICES ASSUME NEW k \in 1..n PROVE Unread(v, k) = toServer[k]
      BY <2>1
    <3>1. ReadAble(in) + k = k /\ k \in 1..Len(chunk)
      BY <1>3, <1>4, <1>5
    <3> QED
      BY <1>5, <1>9, <3>1
  <2>4. Stream'
    <3>1. Len(toServer)' <= sent'
      BY <1>1, <1>3, <1>4, <1>7
    <3>2. Buffers(in)' /\ (in.write < in.size)'
      BY <1>3, <1>4, <1>5, <1>9, <1>13, <2>1
    <3>3. ReadAble(in)' <= Read'
      BY <1>3, <1>4, <1>8, <2>2
    <3>4. \A k \in 1..ReadAble(in)' :
             Unread(in', k) \in Requested /\ Place(Unread(in', k)) = Gone' + k
      <4> SUFFICES ASSUME NEW k \in 1..n
                   PROVE  Unread(in', k) \in Requested /\ Place(Unread(in', k)) = Gone + k
        BY <2>2
      <4>1. k \in 1..Len(toServer)
        BY <1>3, <1>4
      <4> QED
        BY <1>3, <1>10, <2>3, <4>1
    <3> QED
      BY <1>7, <1>11, <2>1, <3>1, <3>2, <3>3, <3>4 DEF Stream
  <2>5. Dispatched'
    BY <1>1, <2>1, <2>2 DEF ServeInv, Dispatched
  <2> QED
    BY <2>1, <2>4, <2>5, <1>1 DEF ServeInv, Control, Answerable, Socket, Told
<1> QED
  BY <1>12, <1>13

\* readFromBuffer of everything leaves nothing.
LEMMA TakenEmpty ==
    ASSUME NEW b, Buffers(b), b.write < b.size, NEW t, t = Taken(b)
    PROVE  Buffers(t) /\ t.write < t.size /\ t.read = t.write
<1> DEFINE r == [b EXCEPT !.read = @ + ReadAble(b)]
<1>1. /\ b = [store |-> b.store, size |-> b.size, read |-> b.read, write |-> b.write]
      /\ DOMAIN b.store = 0..(b.size - 1)
      /\ b.size \in Nat /\ b.read \in Nat /\ b.write \in Nat /\ b.read <= b.write
      /\ ReadAble(b) = b.write - b.read
  BY DEF Buffers, ReadAble
<1>2. CASE ReadAble(b) = 0
  BY <1>1, <1>2 DEF Taken
<1>3. CASE ReadAble(b) # 0
  <2>1. r = [store |-> b.store, size |-> b.size, read |-> b.write, write |-> b.write]
    BY <1>1
  <2>2. t = AdjustBuffer(r)
    BY <1>3 DEF Taken, ReadFromBuffer
  <2> HIDE DEF r
  <2>3. Buffers(r) /\ ReadAble(r) = 0 /\ r.write < r.size
    BY <1>1, <2>1 DEF Buffers, ReadAble
  <2>4. Buffers(t) /\ ReadAble(t) = 0 /\ t.write < t.size
    BY <2>2, <2>3, AdjustUnread
  <2>5. t.read \in Nat /\ t.write \in Nat /\ ReadAble(t) = t.write - t.read
    BY <2>4 DEF Buffers, ReadAble
  <2> QED
    BY <2>4, <2>5
<1> QED
  BY <1>2, <1>3

\* Units that follow each other in the stream, behind g of them; and the requests
\* that are whole among the l units behind g.
Consecutive(s, g) ==
    s \in Seq(Requested) /\ \A k \in 1..Len(s) : Place(s[k]) = g + k
WholeRequests(d, g, l) ==
    /\ d \in Seq([id : Ids, rest : Units])
    /\ \A k \in 1..Len(d) : /\ d[k].rest = TailUnit(d[k].id)
                            /\ g < 2 * d[k].id /\ 2 * d[k].id <= g + l
    /\ \A j, k \in 1..Len(d) : j < k => d[j].id < d[k].id
    /\ \A i \in Ids : g < 2 * i - 1 /\ 2 * i <= g + l => \E k \in 1..Len(d) : d[k].id = i

\* decode() finds them.
LEMMA DecodedRequests ==
    ASSUME NEW g \in Nat, NEW s, Consecutive(s, g), NEW d, d = Decode(s)
    PROVE  WholeRequests(d, g, Len(s))
<1>0. s \in Seq(Requested) /\ \A k \in 1..Len(s) : Place(s[k]) = g + k
  BY DEF Consecutive
<1>1. s \in Seq(Units) /\ Len(s) \in Nat /\ \A k \in 1..Len(s) : s[k] \in Requested
  <2>1. Requested \subseteq Units
    BY Places
  <2> HIDE DEF Requested
  <2> QED
    BY <1>0, <2>1
<1>2. d \in Seq(Packets) /\ Finds(s, d, Len(s))
  BY <1>1, DecodeFinds
<1>3. PICK p \in [1..Len(d) -> 1..Len(s)] :
        /\ \A k \in 1..Len(d) : Starts(s, p[k]) /\ d[k] = PacketAt(s, p[k])
        /\ \A j, k \in 1..Len(d) : j < k => p[j] < p[k]
        /\ \A i \in 1..Len(s) : Starts(s, i) => \E k \in 1..Len(d) : p[k] = i
  BY <1>2 DEF Finds
<1>4. Len(d) \in Nat /\ \A i \in Ids : i \in Nat
  BY <1>2, ServeAssumption DEF Ids
<1>5. ASSUME NEW k \in 1..Len(d)
      PROVE  /\ d[k].id \in Ids /\ d[k] = [id |-> d[k].id, rest |-> TailUnit(d[k].id)]
             /\ 2 * d[k].id = g + p[k] + 1 /\ p[k] \in 1..(Len(s) - 1)
             /\ d[k].id \in Nat /\ p[k] \in Nat
  <2>1. /\ p[k] \in 1..(Len(s) - 1)
        /\ s[p[k]].part = "head" /\ s[p[k] + 1].part = "tail"
        /\ d[k] = [id |-> s[p[k]].id, rest |-> s[p[k] + 1]]
    BY <1>3 DEF Starts, PacketAt
  <2>2. p[k] \in 1..Len(s) /\ p[k] + 1 \in 1..Len(s) /\ p[k] \in Nat
    BY <1>1, <2>1
  <2>3. /\ s[p[k]] \in Requested /\ Place(s[p[k]]) = g + p[k]
        /\ s[p[k] + 1] \in Requested /\ Place(s[p[k] + 1]) = g + (p[k] + 1)
    BY <1>0, <1>1, <2>2
  <2>4. /\ s[p[k]].id \in Ids /\ s[p[k]].id \in Nat /\ 2 * s[p[k]].id - 1 = g + p[k]
        /\ s[p[k] + 1].id \in Nat /\ 2 * s[p[k] + 1].id = g + p[k] + 1
        /\ s[p[k] + 1] = TailUnit(s[p[k] + 1].id)
    <3> HIDE DEF Place
    <3>1. /\ s[p[k]].id \in Ids /\ s[p[k]].id \in Nat /\ Place(s[p[k]]) = 2 * s[p[k]].id - 1
          /\ s[p[k] + 1].id \in Nat /\ Place(s[p[k] + 1]) = 2 * s[p[k] + 1].id
          /\ s[p[k] + 1] = TailUnit(s[p[k] + 1].id)
      BY <2>1, <2>3, Places
    <3> QED
      BY <2>2, <2>3, <3>1
  <2>5. s[p[k] + 1].id = s[p[k]].id
    <3> HIDE DEF Ids
    <3> QED
      BY ONLY <2>2, <2>4, g \in Nat, SMTT(60)
  <2>6. d[k].id = s[p[k]].id
    BY <2>1
  <2> QED
    BY <1>4, <2>1, <2>2, <2>4, <2>5, <2>6
<1>6. d \in Seq([id : Ids, rest : Units])
  <2>1. \A i \in Ids : TailUnit(i) \in Units
    BY ServeAssumption DEF TailUnit, Units, Ids
  <2>2. \A k \in 1..Len(d) : d[k] \in [id : Ids, rest : Units]
    <3> SUFFICES ASSUME NEW k \in 1..Len(d) PROVE d[k] \in [id : Ids, rest : Units]
      OBVIOUS
    <3>1. d[k].id \in Ids /\ d[k] = [id |-> d[k].id, rest |-> TailUnit(d[k].id)]
      BY <1>5
    <3> QED
      BY <2>1, <3>1
  <2> DEFINE S == [id : Ids, rest : Units]
             R == Packets
  <2>3. \A k \in 1..Len(d) : d[k] \in S
    BY <2>2
  <2>4. d \in Seq(R)
    BY <1>2
  <2> HIDE DEF S, R
  <2>5. d \in Seq(S)
    BY <2>3, <2>4
  <2> QED
    BY <2>5 DEF S
<1>7. \A k \in 1..Len(d) : d[k].rest = TailUnit(d[k].id)
  <2> SUFFICES ASSUME NEW k \in 1..Len(d) PROVE d[k].rest = TailUnit(d[k].id)
    OBVIOUS
  <2>1. d[k] = [id |-> d[k].id, rest |-> TailUnit(d[k].id)]
    BY <1>5
  <2> QED
    BY <2>1
<1>8. \A k \in 1..Len(d) : g < 2 * d[k].id /\ 2 * d[k].id <= g + Len(s)
  <2> SUFFICES ASSUME NEW k \in 1..Len(d)
               PROVE  g < 2 * d[k].id /\ 2 * d[k].id <= g + Len(s)
    OBVIOUS
  <2>1. 2 * d[k].id = g + p[k] + 1 /\ p[k] \in 1..(Len(s) - 1) /\ d[k].id \in Nat
    BY <1>5
  <2> QED
    BY <1>1, <2>1
<1>9. \A j, k \in 1..Len(d) : j < k => d[j].id < d[k].id
  <2> SUFFICES ASSUME NEW j \in 1..Len(d), NEW k \in 1..Len(d), j < k
               PROVE  d[j].id < d[k].id
    OBVIOUS
  <2>1. p[j] < p[k] /\ d[j].id \in Nat /\ d[k].id \in Nat /\ p[j] \in Nat /\ p[k] \in Nat
    BY <1>3, <1>5
  <2>2. 2 * d[j].id = g + p[j] + 1 /\ 2 * d[k].id = g + p[k] + 1
    BY <1>5
  <2> QED
    BY <2>1, <2>2, SMTT(60)
<1>10. ASSUME NEW i \in Ids, g < 2 * i - 1, 2 * i <= g + Len(s)
       PROVE  \E k \in 1..Len(d) : d[k].id = i
  <2> DEFINE n == (2 * i - 1) - g
  <2>1. n \in 1..(Len(s) - 1) /\ n \in 1..Len(s) /\ n + 1 \in 1..Len(s)
        /\ g + n = 2 * i - 1 /\ g + (n + 1) = 2 * i
    <3>1. i \in Nat /\ Len(s) \in Nat
      BY <1>1, ServeAssumption DEF Ids
    <3> QED
      BY ONLY <1>10, <3>1, g \in Nat
  <2> HIDE DEF n
  <2>2. s[n] \in Requested /\ Place(s[n]) = 2 * i - 1
        /\ s[n + 1] \in Requested /\ Place(s[n + 1]) = 2 * i
    BY <1>0, <1>1, <2>1
  <2>3. s[n] = HeadUnit(i) /\ s[n + 1] = TailUnit(i)
    BY <2>2, Places
  <2>4. Starts(s, n) /\ s[n].id = i
    BY <2>1, <2>3 DEF Starts, HeadUnit, TailUnit
  <2>5. PICK k \in 1..Len(d) : p[k] = n
    BY <1>3, <2>1, <2>4
  <2>6. d[k].id = i
    <3>1. d[k] = PacketAt(s, n)
      BY <1>3, <2>5
    <3> QED
      BY <2>4, <3>1 DEF PacketAt
  <2> QED
    BY <2>6
<1> QED
  BY <1>6, <1>7, <1>8, <1>9, <1>10 DEF WholeRequests

\* Answers to more requests are possible answers still.
LEMMA AnswersMore ==
    ASSUME NEW b, NEW V, NEW W, V \subseteq W, Answers(b, V)
    PROVE  Answers(b, W)
BY DEF Answers

\* The bytes that excute() decodes follow what was decoded before.
LEMMA BytesOfStream ==
    ASSUME Control, Stream, NEW bytes, bytes = Front(in, ReadAble(in))
    PROVE  /\ bytes \in Seq(Requested) /\ Len(bytes) = ReadAble(in)
           /\ DOMAIN bytes = 1..ReadAble(in)
           /\ \A k \in 1..ReadAble(in) :
                 bytes[k] \in Requested /\ Place(bytes[k]) = Gone + k
<1> DEFINE m == ReadAble(in)
           f == [k \in 1..m |-> in.store[in.read + k - 1]]
<1>1. bytes = f
  BY DEF Front
<1>2. \A k \in 1..m : f[k] \in Requested /\ Place(f[k]) = Gone + k
  BY DEF Stream, Unread
<1>3. f \in Seq(Requested) /\ Len(f) = m /\ DOMAIN f = 1..m
  <2>1. f \in [1..m -> Requested] /\ m \in Nat
    BY <1>2, Numbers
  <2> HIDE DEF f, m
  <2> QED
    BY <2>1
<1> HIDE DEF f
<1> QED
  BY <1>1, <1>2, <1>3

\* A pass that takes them leaves nothing in the buffer.
LEMMA TakenStream ==
    ASSUME Control, Stream, in' = Taken(in), UNCHANGED <<sent, toServer>>
    PROVE  Read' = Read /\ Gone' = Read /\ Stream'
<1>1. /\ Read \in Nat /\ ReadAble(in) \in Nat /\ Gone + ReadAble(in) = Read
  BY Numbers
<1>2. Buffers(in') /\ in'.write < in'.size /\ in'.read = in'.write
  BY TakenEmpty DEF Stream
<1>3. ReadAble(in') = 0 /\ Read' = Read /\ Gone' = Read
  <2>1. ReadAble(in') = 0
    BY <1>2 DEF ReadAble, Buffers
  <2> QED
    BY <1>1, <2>1 DEF Read, Gone
<1>4. Stream'
  <2>1. ReadAble(in)' <= Read' /\ 1..ReadAble(in)' = {}
    BY <1>1, <1>3
  <2>2. (in.read = in.write)' /\ Buffers(in)' /\ (in.write < in.size)'
    BY <1>2 DEF Buffers
  <2> QED
    BY <1>3, <2>1, <2>2 DEF Stream
<1> QED
  BY <1>3, <1>4

\* excute() whose decode does not return: every request it takes is stuck.
LEMMA DecodeLoopsKeeps ==
    ASSUME ServeInv, DecodeLoops
    PROVE  ServeInv'
<1> DEFINE bytes == Front(in, ReadAble(in))
<1>1. /\ pc = "decoding" /\ pc' = "looping" /\ in' = Taken(in)
      /\ stuck' = {bytes[k].id : k \in DOMAIN bytes} /\ stuck = {}
      /\ UNCHANGED <<kind, out, wantOut, sent, toServer, toClient, clientLoops, served, cut,
                     written, told>>
  BY DEF DecodeLoops, clientVars, ServeInv, Control
<1>2. /\ Calls \in Nat /\ Read \in Nat /\ ReadAble(in) \in Nat /\ Gone \in Nat
      /\ Gone + ReadAble(in) = Read
  BY Numbers DEF ServeInv
<1>3. /\ DOMAIN bytes = 1..ReadAble(in)
      /\ \A k \in 1..ReadAble(in) : bytes[k] \in Requested /\ Place(bytes[k]) = Gone + k
  BY BytesOfStream DEF ServeInv
<1> HIDE DEF bytes
<1>4. Read' = Read /\ Gone' = Read /\ Stream' /\ Answerable' = Answerable
  BY <1>1, TakenStream DEF ServeInv, Answerable
<1>5. stuck' \subseteq Ids
  BY <1>1, <1>3, Places
<1>6. ASSUME NEW i \in Ids, 2 * i - 1 <= Gone'
      PROVE  i \in cut \/ i \in stuck' \/ \E k \in 1..Len(served) : served[k].id = i
  <2>0. i \in Nat
    BY ServeAssumption DEF Ids
  <2>1. CASE 2 * i - 1 <= Gone
    BY <1>1, <2>1 DEF ServeInv, Dispatched
  <2>2. CASE ~ (2 * i - 1 <= Gone)
    <3>1. PICK k \in 1..ReadAble(in) : Gone + k = 2 * i - 1
      <4>1. (2 * i - 1) - Gone \in 1..ReadAble(in) /\ Gone + ((2 * i - 1) - Gone) = 2 * i - 1
        BY <1>2, <1>4, <1>6, <2>0, <2>2
      <4> QED
        BY <4>1
    <3>2. bytes[k] = HeadUnit(i)
      BY <1>3, <3>1, Places
    <3> QED
      BY <1>1, <1>3, <3>2 DEF HeadUnit
  <2> QED
    BY <2>1, <2>2
<1>7. \A k \in 1..Len(served) : 2 * served[k].id <= Gone'
  <2> SUFFICES ASSUME NEW k \in 1..Len(served) PROVE 2 * served[k].id <= Gone'
    OBVIOUS
  <2>1. served[k].id \in Nat /\ 2 * served[k].id <= Gone
    BY ServedType DEF ServeInv, Dispatched
  <2> QED
    BY <1>2, <1>4, <2>1
<1>8. Dispatched'
  BY <1>1, <1>5, <1>6, <1>7 DEF ServeInv, Dispatched
<1>9. Control' /\ Answers(out, Answerable)' /\ Socket' /\ Told'
  BY <1>1, <1>4 DEF ServeInv, Control, Socket, Told
<1>10. wantOut' \in BOOLEAN /\ clientLoops' \in BOOLEAN
  BY <1>1, Zenon DEF ServeInv
<1> QED
  BY <1>4, <1>8, <1>9, <1>10 DEF ServeInv

\* excute().
LEMMA ExcuteKeeps ==
    ASSUME ServeInv, Excute
    PROVE  ServeInv'
<1> DEFINE m       == ReadAble(in)
           bytes   == Front(in, ReadAble(in))
           packets == Decode(bytes)
           ids     == [k \in DOMAIN packets |-> Dispatch(packets[k])]
<1>1. /\ pc = "decoding" /\ pc' = "idle" /\ in' = Taken(in) /\ out' = Encode(out, ids)
      /\ served' = served \o packets /\ wantOut' = TRUE
      /\ cut' = cut \cup {i \in Ids : \E k \in DOMAIN bytes :
                            bytes[k].id = i /\ ~Together(bytes, i)}
      /\ UNCHANGED <<kind, sent, toServer, toClient, clientLoops, stuck, written, told>>
      /\ stuck = {}
  BY DEF Excute, clientVars, ServeInv, Control
<1>2. /\ sent \in Nat /\ Calls \in Nat /\ Len(toServer) \in Nat /\ Read \in Nat
      /\ m \in Nat /\ Gone \in Nat /\ Gone + m = Read
  BY Numbers DEF ServeInv
<1>3. /\ bytes \in Seq(Requested) /\ Len(bytes) = m /\ DOMAIN bytes = 1..m
      /\ \A k \in 1..m : bytes[k] \in Requested /\ Place(bytes[k]) = Gone + k
  BY BytesOfStream DEF ServeInv
<1> HIDE DEF bytes, m
<1>4. /\ packets \in Seq([id : Ids, rest : Units])
      /\ \A k \in 1..Len(packets) :
            /\ packets[k].rest = TailUnit(packets[k].id)
            /\ Gone < 2 * packets[k].id /\ 2 * packets[k].id <= Gone + m
      /\ \A j, k \in 1..Len(packets) : j < k => packets[j].id < packets[k].id
      /\ \A i \in Ids : Gone < 2 * i - 1 /\ 2 * i <= Gone + m =>
            \E k \in 1..Len(packets) : packets[k].id = i
  <2>1. Consecutive(bytes, Gone) /\ Gone \in Nat /\ packets = Decode(bytes)
    BY <1>2, <1>3 DEF Consecutive
  <2> HIDE DEF packets
  <2>2. WholeRequests(packets, Gone, Len(bytes))
    BY ONLY <2>1, DecodedRequests
  <2> QED
    BY <1>3, <2>2 DEF WholeRequests
<1> HIDE DEF packets
<1> DEFINE S == [id : Ids, rest : Units]
           s == served \o packets
<1>5. /\ served \in Seq(S) /\ Len(served) \in Nat /\ Len(packets) \in Nat
      /\ s \in Seq(S) /\ Len(s) = Len(served) + Len(packets)
      /\ \A k \in 1..Len(served) : k \in 1..Len(s) /\ s[k] = served[k]
      /\ \A k \in 1..Len(packets) : Len(served) + k \in 1..Len(s) /\ s[Len(served) + k] = packets[k]
      /\ \A k \in 1..Len(s) : k \in 1..Len(served) \/ k - Len(served) \in 1..Len(packets)
  <2>1. served \in Seq(S) /\ packets \in Seq(S)
    BY <1>4 DEF ServeInv, Dispatched
  <2> HIDE DEF S, s
  <2>2. Len(served) \in Nat /\ Len(packets) \in Nat
    BY <2>1
  <2>3. /\ s \in Seq(S) /\ Len(s) = Len(served) + Len(packets)
        /\ \A k \in 1..(Len(served) + Len(packets)) : s[k] =
              IF k <= Len(served) THEN served[k] ELSE packets[k - Len(served)]
    BY ONLY <2>1, ConcatProperties, Zenon DEF s
  <2>4. \A k \in 1..Len(served) : k \in 1..Len(s) /\ s[k] = served[k]
    BY ONLY <2>2, <2>3
  <2>5. \A k \in 1..Len(packets) :
           Len(served) + k \in 1..Len(s) /\ s[Len(served) + k] = packets[k]
    <3> SUFFICES ASSUME NEW k \in 1..Len(packets)
                 PROVE  Len(served) + k \in 1..Len(s) /\ s[Len(served) + k] = packets[k]
      OBVIOUS
    <3>1. /\ Len(served) + k \in 1..(Len(served) + Len(packets))
          /\ ~ (Len(served) + k <= Len(served)) /\ (Len(served) + k) - Len(served) = k
      BY ONLY <2>2, k \in 1..Len(packets)
    <3> QED
      BY ONLY <2>3, <3>1
  <2>6. \A k \in 1..Len(s) : k \in 1..Len(served) \/ k - Len(served) \in 1..Len(packets)
    BY ONLY <2>2, <2>3
  <2> QED
    BY ONLY <2>1, <2>2, <2>3, <2>4, <2>5, <2>6
<1> HIDE DEF s
<1>6. \A k \in 1..Len(packets) : packets[k].id \in Ids /\ packets[k].id \in Nat
  <2>0. packets \in Seq(S)
    BY <1>4
  <2> HIDE DEF S
  <2>1. \A k \in 1..Len(packets) : packets[k] \in S
    BY ONLY <2>0
  <2>2. \A i \in Ids : i \in Nat
    BY ServeAssumption DEF Ids
  <2> QED
    BY <2>1, <2>2 DEF S
<1>7. Read' = Read /\ Gone' = Read /\ Stream'
  BY <1>1, TakenStream DEF ServeInv
<1>8. Control' /\ wantOut' \in BOOLEAN /\ clientLoops' \in BOOLEAN
  <2>1. Control'
    BY <1>1 DEF ServeInv, Control
  <2> QED
    BY <1>1, <2>1, Zenon DEF ServeInv
<1>9. \A k \in 1..Len(s) : s[k].rest = TailUnit(s[k].id) /\ 2 * s[k].id <= Read
  <2> SUFFICES ASSUME NEW k \in 1..Len(s)
               PROVE  s[k].rest = TailUnit(s[k].id) /\ 2 * s[k].id <= Read
    OBVIOUS
  <2>1. CASE k \in 1..Len(served)
    <3>1. s[k] = served[k] /\ served[k].id \in Nat
      BY <1>5, <2>1, ServedType DEF ServeInv
    <3>2. served[k].rest = TailUnit(served[k].id) /\ 2 * served[k].id <= Gone
      BY <2>1 DEF ServeInv, Dispatched
    <3> QED
      BY <1>2, <3>1, <3>2
  <2>2. CASE k - Len(served) \in 1..Len(packets)
    <3>1. s[k] = packets[k - Len(served)]
      <4>1. Len(served) + (k - Len(served)) = k
        BY <1>5
      <4> QED
        BY <1>5, <2>2, <4>1
    <3> QED
      BY <1>2, <1>4, <2>2, <3>1
  <2> QED
    BY <1>5, <2>1, <2>2
<1>10. \A j, k \in 1..Len(s) : j < k => s[j].id < s[k].id
  <2> SUFFICES ASSUME NEW j \in 1..Len(s), NEW k \in 1..Len(s), j < k
               PROVE  s[j].id < s[k].id
    OBVIOUS
  <2>1. /\ j \in 1..Len(served) => s[j] = served[j] /\ served[j].id \in Nat /\ 2 * served[j].id <= Gone
        /\ k \in 1..Len(served) => s[k] = served[k]
    BY <1>5, ServedType DEF ServeInv, Dispatched
  <2>2. ASSUME NEW l \in 1..Len(s), l - Len(served) \in 1..Len(packets)
        PROVE  s[l] = packets[l - Len(served)] /\ Gone < 2 * packets[l - Len(served)].id
    <3>1. Len(served) + (l - Len(served)) = l
      BY <1>5
    <3> QED
      BY <1>4, <1>5, <2>2, <3>1
  <2>3. CASE k \in 1..Len(served)
    <3>1. j \in 1..Len(served)
      BY <1>5, <2>3
    <3> QED
      BY <2>1, <2>3, <3>1 DEF ServeInv, Dispatched
  <2>4. CASE j \in 1..Len(served) /\ k - Len(served) \in 1..Len(packets)
    <3>1. packets[k - Len(served)].id \in Nat
      BY <1>6, <2>4
    <3>2. s[k] = packets[k - Len(served)] /\ Gone < 2 * packets[k - Len(served)].id
      BY <2>2, <2>4
    <3> QED
      BY ONLY <1>2, <2>1, <2>4, <3>1, <3>2, SMTT(60)
  <2>5. CASE j - Len(served) \in 1..Len(packets) /\ k - Len(served) \in 1..Len(packets)
    <3>1. j - Len(served) < k - Len(served)
      BY <1>5
    <3>2. packets[j - Len(served)].id < packets[k - Len(served)].id
      BY <1>4, <2>5, <3>1
    <3> QED
      BY <2>2, <2>5, <3>2
  <2>6. j \in 1..Len(served) \/ j - Len(served) \in 1..Len(packets)
    BY <1>5
  <2>7. k \in 1..Len(served) \/ k - Len(served) \in 1..Len(packets)
    BY <1>5
  <2> QED
    BY ONLY <2>3, <2>4, <2>5, <2>6, <2>7
<1>11. ASSUME NEW i \in Ids, 2 * i - 1 <= Read
       PROVE  i \in cut' \/ \E k \in 1..Len(s) : s[k].id = i
  <2>0. i \in Nat
    BY ServeAssumption DEF Ids
  <2>1. CASE 2 * i - 1 <= Gone
    <3>1. CASE i \in cut
      BY <1>1, <3>1
    <3>2. CASE \E k \in 1..Len(served) : served[k].id = i
      BY <1>5, <3>2
    <3> QED
      BY <1>1, <2>1, <3>1, <3>2 DEF ServeInv, Dispatched
  <2>2. CASE Gone < 2 * i - 1 /\ 2 * i <= Gone + m
    <3>1. PICK k \in 1..Len(packets) : packets[k].id = i
      BY <1>4, <2>2
    <3> QED
      BY <1>5, <3>1
  <2>3. CASE Gone < 2 * i - 1 /\ ~ (2 * i <= Gone + m)
    <3>1. m \in 1..m /\ Gone + m = 2 * i - 1
      BY <1>2, <1>11, <2>0, <2>3
    <3>2. bytes[m] \in Requested /\ Place(bytes[m]) = 2 * i - 1
      BY <1>3, <3>1
    <3>3. bytes[m].id = i
      BY <3>2, Places DEF HeadUnit
    <3>4. ASSUME Together(bytes, i) PROVE FALSE
      <4>1. PICK k \in 1..(m - 1) : bytes[k + 1] = TailUnit(i)
        BY <1>3, <3>4 DEF Together
      <4>2. k + 1 \in 1..m /\ k \in Nat
        BY <1>2, <4>1
      <4>3. bytes[k + 1] \in Requested /\ Place(bytes[k + 1]) = Gone + (k + 1)
        BY <1>3, <4>2
      <4>4. Place(bytes[k + 1]) = 2 * i
        BY <4>1 DEF Place, TailUnit
      <4> QED
        BY <1>2, <2>0, <3>1, <4>1, <4>2, <4>3, <4>4
    <3> QED
      BY <1>1, <1>3, <3>1, <3>3, <3>4
  <2> QED
    BY <1>2, <2>0, <2>1, <2>2, <2>3
<1>12. cut' \subseteq Ids /\ stuck' \subseteq Ids
  BY <1>1 DEF ServeInv, Dispatched
<1>13. served' = s
  BY <1>1 DEF s
<1>14. Dispatched'
  BY <1>5, <1>7, <1>9, <1>10, <1>11, <1>12, <1>13 DEF Dispatched
<1>15. /\ Answerable' = {0} \cup {i \in Ids : kind[i] = "good" /\ \E k \in 1..Len(s) : s[k].id = i}
       /\ Answerable \subseteq Answerable' /\ Answerable' \in SUBSET (0..Calls)
  <2>1. Answerable' = {0} \cup {i \in Ids : kind[i] = "good" /\ \E k \in 1..Len(s) : s[k].id = i}
    BY <1>1, <1>13 DEF Answerable
  <2>2. \A i \in Ids : i \in 0..Calls
    BY <1>2 DEF Ids
  <2>3. \A i \in Ids : (\E k \in 1..Len(served) : served[k].id = i) => \E k \in 1..Len(s) : s[k].id = i
    BY <1>5
  <2> QED
    BY <1>2, <2>1, <2>2, <2>3 DEF Answerable
<1>16. ids \in Seq(Answerable')
  <2>1. DOMAIN packets = 1..Len(packets)
    BY <1>4
  <2>2. ASSUME NEW k \in 1..Len(packets)
        PROVE  Dispatch(packets[k]) \in Answerable'
    <3>1. packets[k].id \in Ids /\ \E l \in 1..Len(s) : s[l].id = packets[k].id
      BY <1>5, <1>6
    <3> QED
      BY <1>15, <3>1 DEF Dispatch
  <2> DEFINE V == Answerable'
  <2>3. ids = [k \in 1..Len(packets) |-> Dispatch(packets[k])]
    BY <2>1
  <2>4. \A k \in 1..Len(packets) : Dispatch(packets[k]) \in V
    BY <2>2
  <2> HIDE DEF V
  <2>5. ids \in [1..Len(packets) -> V]
    BY <2>3, <2>4
  <2>6. ids \in Seq(V)
    <3> DEFINE n == Len(packets)
    <3>1. n \in Nat /\ ids \in [1..n -> V]
      BY <1>5, <2>5
    <3> HIDE DEF ids, n
    <3> QED
      BY ONLY <3>1
  <2> QED
    BY <2>6 DEF V
<1> HIDE DEF ids
<1>17. Answers(out', Answerable')
  <2>1. Answers(out, Answerable')
    BY <1>15, AnswersMore DEF ServeInv
  <2>2. Answers(Encode(out, ids), Answerable')
    BY ONLY <1>15, <1>16, <2>1, EncodeAnswers
  <2> QED
    BY <1>1, <2>2
<1>18. Socket' /\ Told'
  BY <1>1, <1>15 DEF ServeInv, Socket, Told
<1> QED
  BY <1>7, <1>8, <1>14, <1>17, <1>18 DEF ServeInv

\* Units of a sequence behind another.
LEMMA Behind ==
    ASSUME NEW S, NEW s \in Seq(S), NEW u \in Seq(S), NEW w, w = s \o u
    PROVE  /\ w \in Seq(S) /\ Len(w) = Len(s) + Len(u) /\ Len(s) \in Nat /\ Len(u) \in Nat
           /\ \A i \in 1..Len(s) : w[i] = s[i]
           /\ \A i \in 1..Len(u) : w[Len(s) + i] = u[i]
           /\ \A i \in 1..Len(w) : i \in 1..Len(s) \/ i - Len(s) \in 1..Len(u)
<1>1. /\ w \in Seq(S) /\ Len(w) = Len(s) + Len(u)
      /\ \A k \in 1..(Len(s) + Len(u)) : w[k] = IF k <= Len(s) THEN s[k] ELSE u[k - Len(s)]
  BY ONLY s \in Seq(S), u \in Seq(S), w = s \o u, ConcatProperties, Zenon
<1>2. Len(s) \in Nat /\ Len(u) \in Nat
  OBVIOUS
<1>3. \A i \in 1..Len(s) : w[i] = s[i]
  BY ONLY <1>1, <1>2
<1>4. \A i \in 1..Len(u) : w[Len(s) + i] = u[i]
  <2> SUFFICES ASSUME NEW i \in 1..Len(u) PROVE w[Len(s) + i] = u[i]
    OBVIOUS
  <2>1. /\ Len(s) + i \in 1..(Len(s) + Len(u)) /\ ~ (Len(s) + i <= Len(s))
        /\ (Len(s) + i) - Len(s) = i
    BY ONLY <1>2, i \in 1..Len(u)
  <2> QED
    BY ONLY <1>1, <2>1
<1>5. \A i \in 1..Len(w) : i \in 1..Len(s) \/ i - Len(s) \in 1..Len(u)
  BY ONLY <1>1, <1>2
<1> QED
  BY ONLY <1>1, <1>2, <1>3, <1>4, <1>5

\* One write().
LEMMA WriteSocketKeeps ==
    ASSUME ServeInv, WriteSocket
    PROVE  ServeInv'
<1> DEFINE count == ReadAble(out)
           space == SocketSize - Len(toClient)
           n     == IF space < count THEN space ELSE count
           chunk == Front(out, n)
<1>1. /\ UNCHANGED <<kind, in, out, sent, toServer, clientLoops, served, cut, stuck, told>>
      /\ pc = "writing" /\ pc' \in {"writing", "idle"} /\ wantOut' \in BOOLEAN
      /\ toClient' = toClient \o chunk
      /\ written' = written \cup {i \in Ids : Together(chunk, i)}
  BY DEF WriteSocket
<1>2. /\ count \in Nat /\ Len(toClient) \in Nat /\ SocketSize \in Nat
      /\ toClient \in Seq(Units) /\ Len(toClient) <= SocketSize
  BY ServeAssumption DEF ServeInv, Socket, Answers, Buffers, ReadAble
<1>3. n \in Nat /\ n <= count /\ Len(toClient) + n <= SocketSize
  BY <1>2
<1>4. \A i \in Answerable : i \in 0..Calls
  BY ServeAssumption DEF Answerable, Ids
<1> DEFINE u == [i \in 1..n |-> out.store[out.read + i - 1]]
<1>5. \A i \in 1..n :
         /\ u[i].id \in Answerable
         /\ u[i] = HeadUnit(u[i].id) \/ u[i] = TailUnit(u[i].id)
         /\ i = 1 => u[i].part = "head"
         /\ i - 1 \in 1..n /\ u[i].part = "tail" => u[i - 1] = HeadUnit(u[i].id)
  <2> HIDE DEF n, count
  <2> SUFFICES ASSUME NEW i \in 1..n
               PROVE  /\ u[i].id \in Answerable
                      /\ u[i] = HeadUnit(u[i].id) \/ u[i] = TailUnit(u[i].id)
                      /\ i = 1 => u[i].part = "head"
                      /\ i - 1 \in 1..n /\ u[i].part = "tail" => u[i - 1] = HeadUnit(u[i].id)
    OBVIOUS
  <2>1. i \in 1..count /\ i \in Nat
    BY <1>2, <1>3
  <2>2. u[i] = Unread(out, i) /\ (i - 1 \in 1..n => u[i - 1] = Unread(out, i - 1))
    BY DEF Unread
  <2>3. /\ Unread(out, i).id \in Answerable
        /\ Unread(out, i) =
              IF i % 2 = 1 THEN HeadUnit(Unread(out, i).id) ELSE TailUnit(Unread(out, i).id)
        /\ i % 2 = 0 => Unread(out, i - 1) = HeadUnit(Unread(out, i).id)
    BY <2>1 DEF ServeInv, Answers, count
  <2>4. i % 2 = 0 \/ i % 2 = 1
    BY <2>1
  <2>5. i % 2 = 1 => Unread(out, i).part = "head"
    <3> SUFFICES ASSUME i % 2 = 1 PROVE Unread(out, i).part = "head"
      OBVIOUS
    <3>1. Unread(out, i) = HeadUnit(Unread(out, i).id)
      BY <2>3
    <3> QED
      BY <3>1 DEF HeadUnit
  <2>6. i = 1 => i % 2 = 1
    OBVIOUS
  <2> HIDE DEF u
  <2> QED
    BY <2>2, <2>3, <2>4, <2>5, <2>6
<1>6. chunk \in Seq(Units) /\ Len(chunk) = n /\ chunk = u
  <2>1. \A i \in 1..n : u[i] \in Units
    <3> HIDE DEF n, u
    <3> SUFFICES ASSUME NEW i \in 1..n PROVE u[i] \in Units
      OBVIOUS
    <3>1. u[i].id \in 0..Calls /\ (u[i] = HeadUnit(u[i].id) \/ u[i] = TailUnit(u[i].id))
      BY <1>4, <1>5
    <3> QED
      BY <3>1 DEF HeadUnit, TailUnit, Units
  <2>2. chunk = u
    BY DEF Front
  <2>3. u \in [1..n -> Units]
    BY <2>1
  <2> HIDE DEF n, u
  <2>4. u \in Seq(Units) /\ Len(u) = n
    BY ONLY <1>3, <2>3
  <2> QED
    BY <2>2, <2>4
<1> HIDE DEF n, u, chunk
<1>7. /\ toClient' \in Seq(Units) /\ Len(toClient') = Len(toClient) + n
      /\ \A i \in 1..Len(toClient) : toClient'[i] = toClient[i]
      /\ \A i \in 1..n : toClient'[Len(toClient) + i] = u[i]
      /\ \A i \in 1..Len(toClient') : i \in 1..Len(toClient) \/ i - Len(toClient) \in 1..n
  <2>1. /\ toClient' \in Seq(Units) /\ Len(toClient') = Len(toClient) + Len(chunk)
        /\ \A i \in 1..Len(toClient) : toClient'[i] = toClient[i]
        /\ \A i \in 1..Len(chunk) : toClient'[Len(toClient) + i] = chunk[i]
        /\ \A i \in 1..Len(toClient') : i \in 1..Len(toClient) \/ i - Len(toClient) \in 1..Len(chunk)
    BY <1>1, <1>2, <1>6, Behind
  <2> QED
    BY ONLY <1>6, <2>1
<1>8. Answerable' = Answerable /\ Read' = Read /\ Gone' = Gone
  BY <1>1 DEF Answerable, Read, Gone
<1>9. ASSUME NEW i \in 1..Len(toClient')
      PROVE  /\ toClient'[i].id \in Answerable
             /\ i + 1 \in 1..Len(toClient') /\ toClient'[i + 1].part = "tail" =>
                   toClient'[i] = HeadUnit(toClient'[i + 1].id)
  <2>0. i \in Nat /\ Len(toClient') \in Nat
    BY <1>2, <1>3, <1>7
  <2>1. CASE i \in 1..Len(toClient)
    <3>1. toClient'[i] = toClient[i] /\ toClient[i].id \in Answerable
      BY <1>7, <2>1 DEF ServeInv, Socket
    <3>2. CASE i + 1 \in 1..Len(toClient)
      <4>1. toClient'[i + 1] = toClient[i + 1] /\ i \in 1..(Len(toClient) - 1)
        BY <1>2, <1>7, <2>0, <3>2
      <4> QED
        BY <3>1, <4>1 DEF ServeInv, Socket
    <3>3. CASE i + 1 \notin 1..Len(toClient) /\ i + 1 \in 1..Len(toClient')
      <4>1. i + 1 = Len(toClient) + 1 /\ 1 \in 1..n
        BY <1>2, <1>3, <1>7, <2>0, <2>1, <3>3
      <4>2. toClient'[i + 1].part = "head"
        BY <1>5, <1>7, <4>1
      <4> QED
        BY <3>1, <4>2
    <3> QED
      BY <3>1, <3>2, <3>3
  <2>2. CASE i - Len(toClient) \in 1..n
    <3> DEFINE k == i - Len(toClient)
    <3>1. k \in 1..n /\ Len(toClient) + k = i /\ Len(toClient) + (k + 1) = i + 1
          /\ (i + 1 \in 1..Len(toClient') => k + 1 \in 1..n) /\ (k + 1) - 1 = k
      BY <1>2, <1>3, <1>7, <2>0, <2>2
    <3> HIDE DEF k
    <3>2. toClient'[i] = u[k] /\ (k + 1 \in 1..n => toClient'[i + 1] = u[k + 1])
      BY <1>7, <3>1
    <3> QED
      BY <1>5, <3>1, <3>2
  <2> QED
    BY <1>7, <2>1, <2>2
<1>10. Socket'
  <2>1. Len(toClient') <= SocketSize
    BY <1>2, <1>3, <1>7
  <2>2. \A i \in 1..(Len(toClient') - 1) : i \in 1..Len(toClient') /\ i + 1 \in 1..Len(toClient')
    BY <1>2, <1>3, <1>7
  <2> QED
    BY <1>7, <1>8, <1>9, <2>1, <2>2 DEF Socket
<1>11. Control' /\ Stream' /\ Dispatched' /\ Answers(out, Answerable)' /\ Told'
  <2>1. Control'
    BY <1>1 DEF ServeInv, Control
  <2>2. Stream'
    BY <1>1, <1>8 DEF ServeInv, Stream
  <2> QED
    BY <1>1, <1>8, <2>1, <2>2 DEF ServeInv, Dispatched, Told
<1> QED
  BY <1>1, <1>10, <1>11 DEF ServeInv

\* Units taken from the front of the socket leave a socket.
LEMMA SocketTaken ==
    ASSUME Socket, NEW n \in 1..Len(toClient), Answerable' = Answerable,
           toClient' = SubSeq(toClient, n + 1, Len(toClient))
    PROVE  Socket'
<1>1. toClient \in Seq(Units) /\ Len(toClient) \in Nat /\ n \in Nat /\ n <= Len(toClient)
      /\ Len(toClient) <= SocketSize /\ SocketSize \in Nat
  BY ServeAssumption DEF Socket
<1>2. /\ toClient' \in Seq(Units) /\ Len(toClient') = Len(toClient) - n
      /\ \A i \in 1..(Len(toClient) - n) : toClient'[i] = toClient[i + n]
  BY <1>1
<1>3. ASSUME NEW i \in 1..Len(toClient')
      PROVE  /\ toClient'[i].id \in Answerable
             /\ i \in 1..(Len(toClient') - 1) /\ toClient'[i + 1].part = "tail" =>
                   toClient'[i] = HeadUnit(toClient'[i + 1].id)
  <2>1. toClient'[i] = toClient[i + n] /\ i + n \in 1..Len(toClient)
    BY <1>1, <1>2
  <2>2. i \in 1..(Len(toClient') - 1) =>
           /\ toClient'[i + 1] = toClient[(i + n) + 1] /\ i + n \in 1..(Len(toClient) - 1)
    <3> SUFFICES ASSUME i \in 1..(Len(toClient') - 1)
                 PROVE  /\ toClient'[i + 1] = toClient[(i + n) + 1]
                        /\ i + n \in 1..(Len(toClient) - 1)
      OBVIOUS
    <3>1. i + 1 \in 1..(Len(toClient) - n) /\ (i + 1) + n = (i + n) + 1
      BY <1>1, <1>2
    <3> QED
      BY <1>1, <1>2, <3>1
  <2> QED
    BY <2>1, <2>2 DEF Socket
<1>4. Len(toClient') \in Nat /\ Len(toClient') <= SocketSize
  BY <1>1, <1>2
<1>5. \A i \in 1..(Len(toClient') - 1) : i \in 1..Len(toClient')
  BY <1>4
<1> QED
  BY <1>2, <1>3, <1>4, <1>5 DEF Socket

\* The client decodes what has arrived.
LEMMA ReceiveKeeps ==
    ASSUME ServeInv, NEW n \in 1..SocketSize, Receive(n)
    PROVE  ServeInv'
<1> DEFINE s       == SubSeq(toClient, 1, n)
           packets == Decode(s)
<1>1. /\ UNCHANGED <<kind, pc, in, out, wantOut, sent, toServer, clientLoops, served, cut,
                     stuck, written>>
      /\ n \in 1..Len(toClient) /\ toClient' = SubSeq(toClient, n + 1, Len(toClient))
      /\ told' = told \cup {p \in {packets[k] : k \in DOMAIN packets} : p.id \in Ids}
  BY DEF Receive, serverVars
<1>2. toClient \in Seq(Units) /\ Len(toClient) \in Nat /\ n \in Nat /\ n <= Len(toClient)
      /\ Len(toClient) <= SocketSize /\ SocketSize \in Nat
  BY <1>1, ServeAssumption DEF ServeInv, Socket
<1>3. s \in Seq(Units) /\ Len(s) = n /\ \A i \in 1..n : s[i] = toClient[i]
  BY <1>2
<1> HIDE DEF s
<1>4. packets \in Seq(Packets) /\ Finds(s, packets, n)
  BY <1>3, DecodeFinds
<1> HIDE DEF packets
<1>5. PICK p \in [1..Len(packets) -> 1..n] :
         \A k \in 1..Len(packets) : Starts(s, p[k]) /\ packets[k] = PacketAt(s, p[k])
  BY <1>4 DEF Finds
<1>6. Answerable' = Answerable /\ Read' = Read /\ Gone' = Gone
  BY <1>1 DEF Answerable, Read, Gone
<1>7. ASSUME NEW k \in 1..Len(packets)
      PROVE  /\ packets[k].id \in Answerable
             /\ packets[k] = [id |-> packets[k].id, rest |-> TailUnit(packets[k].id)]
  <2>1. /\ p[k] \in 1..(n - 1) /\ s[p[k] + 1].part = "tail"
        /\ packets[k] = [id |-> s[p[k]].id, rest |-> s[p[k] + 1]]
    BY <1>3, <1>5 DEF Starts, PacketAt
  <2>2. /\ p[k] \in 1..n /\ p[k] + 1 \in 1..n /\ p[k] \in 1..(Len(toClient) - 1)
        /\ p[k] \in 1..Len(toClient) /\ p[k] + 1 \in 1..Len(toClient)
    BY <1>2, <2>1
  <2>3. s[p[k]] = toClient[p[k]] /\ s[p[k] + 1] = toClient[p[k] + 1]
    BY <1>3, <2>2
  <2>4. /\ toClient[p[k]].id \in Answerable
        /\ toClient[p[k]] = HeadUnit(toClient[p[k] + 1].id)
    BY <2>1, <2>2, <2>3 DEF ServeInv, Socket
  <2>5. toClient[p[k] + 1] = TailUnit(toClient[p[k] + 1].id)
    <3>1. toClient[p[k] + 1] \in Units
      BY <1>2, <2>2
    <3> QED
      BY <2>1, <2>3, <3>1 DEF Units, TailUnit
  <2>6. toClient[p[k]].id = toClient[p[k] + 1].id
    BY <2>4 DEF HeadUnit
  <2> QED
    BY <2>1, <2>3, <2>4, <2>5, <2>6
<1>8. Told'
  <2> SUFFICES ASSUME NEW q \in told'
               PROVE  /\ q.id \in Ids /\ q.id \in Answerable
                      /\ q = [id |-> q.id, rest |-> TailUnit(q.id)]
    BY <1>6 DEF Told
  <2>1. CASE q \in told
    BY <2>1 DEF ServeInv, Told
  <2>2. CASE q \notin told
    <3>1. PICK k \in DOMAIN packets : q = packets[k] /\ q.id \in Ids
      BY <1>1, <2>2
    <3>2. k \in 1..Len(packets)
      BY <1>4, <3>1
    <3> QED
      BY <1>7, <3>1, <3>2
  <2> QED
    BY <2>1, <2>2
<1>9. Socket'
  BY <1>1, <1>6, SocketTaken DEF ServeInv
<1>10. Control' /\ Stream' /\ Dispatched' /\ Answers(out, Answerable)'
  <2>1. Stream'
    BY <1>1, <1>6 DEF ServeInv, Stream
  <2> QED
    BY <1>1, <1>6, <2>1 DEF ServeInv, Control, Dispatched
<1> QED
  BY <1>1, <1>8, <1>9, <1>10 DEF ServeInv

\* A client whose decode does not return takes what has arrived.
LEMMA ReceiveLoopsKeeps ==
    ASSUME ServeInv, NEW n \in 1..SocketSize, ReceiveLoops(n)
    PROVE  ServeInv'
<1>1. /\ UNCHANGED <<kind, pc, in, out, wantOut, sent, toServer, served, cut, stuck, written, told>>
      /\ n \in 1..Len(toClient) /\ toClient' = SubSeq(toClient, n + 1, Len(toClient))
  BY DEF ReceiveLoops, serverVars
<1>2. Answerable' = Answerable /\ Read' = Read /\ Gone' = Gone
  BY <1>1 DEF Answerable, Read, Gone
<1>3. Socket'
  BY <1>1, <1>2, SocketTaken DEF ServeInv
<1>4. Stream'
  BY <1>1, <1>2 DEF ServeInv, Stream
<1>5. Control' /\ Dispatched' /\ Answers(out, Answerable)' /\ Told'
  BY <1>1, <1>2 DEF ServeInv, Control, Dispatched, Told
<1>6. wantOut' \in BOOLEAN /\ clientLoops' \in BOOLEAN
  <2>1. clientLoops' = TRUE
    BY DEF ReceiveLoops
  <2> QED
    BY <1>1, <2>1, Zenon DEF ServeInv
<1> QED
  BY <1>3, <1>4, <1>5, <1>6 DEF ServeInv

\* Every step of the server, the client and the network keeps the invariant.
LEMMA ServeStep == ServeInv /\ [Next]_vars => ServeInv'
<1> SUFFICES ASSUME ServeInv, [Next]_vars PROVE ServeInv'
  OBVIOUS
<1>1. CASE OnRead \/ OnWrite \/ UNCHANGED vars
  BY ONLY ServeInv, <1>1, QuietKeeps, Zenon
<1>2. CASE ReadSocket
  BY ONLY ServeInv, <1>2, ReadSocketKeeps
<1>3. CASE Excute
  BY ONLY ServeInv, <1>3, ExcuteKeeps
<1>4. CASE WriteSocket
  BY ONLY ServeInv, <1>4, WriteSocketKeeps
<1>5. CASE Send
  BY ONLY ServeInv, <1>5, SendKeeps
<1>6. CASE \E n \in 1..SocketSize : Receive(n)
  BY ONLY ServeInv, <1>6, ReceiveKeeps
<1>7. CASE \E n \in 1..SocketSize : ReceiveLoops(n)
  BY ONLY ServeInv, <1>7, ReceiveLoopsKeeps
<1>8. CASE DecodeLoops
  BY ONLY ServeInv, <1>8, DecodeLoopsKeeps
<1>9. CASE Done
  BY <1>1, <1>9 DEF Done
<1> QED
  BY <1>1, <1>2, <1>3, <1>4, <1>5, <1>6, <1>7, <1>8, <1>9 DEF Next, Server, Client

\* The invariant holds in every state of every connection.
LEMMA ServeInvariant == Spec => []ServeInv
BY ServeInit, ServeStep, PTL DEF Spec

\* Every variable of the connection, the sockets and the client has its type.
THEOREM ServeTypeCorrect == Spec => []TypeOK
<1>1. ASSUME ServeInv PROVE TypeOK
  <2>1. /\ kind \in [Ids -> {"good", "bad"}] /\ sent \in 0..(2 * Calls)
        /\ pc \in {"idle", "reading", "decoding", "looping", "writing"}
        /\ written \subseteq 0..Calls
    BY <1>1, ServeAssumption DEF ServeInv, Control, Ids
  <2>2. wantOut \in BOOLEAN /\ clientLoops \in BOOLEAN
    BY ONLY <1>1, Zenon DEF ServeInv
  <2>3. \A b \in {in, out} : b.read <= b.write /\ b.write <= b.size
    BY <1>1 DEF ServeInv, Stream, Answers, Buffers
  <2>4. toServer \in Seq(Units)
    <3> DEFINE R == Requested
               U == Units
               l == Len(toServer)
    <3>1. toServer \in Seq(R)
      BY <1>1 DEF ServeInv, Stream
    <3>2. \A u \in R : u \in U
      BY Places
    <3> HIDE DEF R, U
    <3> QED
      BY <3>1, <3>2 DEF U
  <2>5. toClient \in Seq(Units) /\ Len(toClient) <= SocketSize
    BY <1>1 DEF ServeInv, Socket
  <2>6. served \in Seq([id : Ids, rest : Units]) /\ cut \subseteq Ids /\ stuck \subseteq Ids
    BY <1>1 DEF ServeInv, Dispatched
  <2>7. told \subseteq [id : Ids, rest : Units]
    <3> SUFFICES ASSUME NEW p \in told PROVE p \in [id : Ids, rest : Units]
      OBVIOUS
    <3>1. p.id \in Ids /\ p = [id |-> p.id, rest |-> TailUnit(p.id)]
      BY <1>1 DEF ServeInv, Told
    <3>2. TailUnit(p.id) \in Units
      BY <3>1, ServeAssumption DEF TailUnit, Units, Ids
    <3> QED
      BY <3>1, <3>2
  <2> QED
    BY <2>1, <2>2, <2>3, <2>4, <2>5, <2>6, <2>7, ZenonT(60) DEF TypeOK
<1> QED
  BY <1>1, ServeInvariant, PTL

\* However TCP cuts the stream up, decode() and dispatch() serve each request
\* at most once and in the order sent.
THEOREM RequestsInOrder == Spec => []ServedInOrder
<1>1. ASSUME ServeInv PROVE ServedInOrder
  <2>1. \A j, k \in 1..Len(served) : j < k => served[j].id < served[k].id
    BY <1>1 DEF ServeInv, Dispatched
  <2>2. DOMAIN served = 1..Len(served) /\ Len(served) \in Nat
    BY <1>1 DEF ServeInv, Dispatched
  <2> QED
    BY <2>1, <2>2 DEF ServedInOrder
<1> QED
  BY <1>1, ServeInvariant, PTL

\* What is served is a request of the client, whole; what the client is told
\* is the whole answer to a request that was served, although onWrite begins
\* the answers again after a full socket.
THEOREM RequestsAndAnswersAreReal == Spec => []NothingForged
<1>1. ASSUME ServeInv PROVE NothingForged
  <2>1. DOMAIN served = 1..Len(served) /\ Len(served) \in Nat
    BY <1>1 DEF ServeInv, Dispatched
  <2>2. \A i \in 1..Len(served) : served[i].rest = TailUnit(served[i].id)
    BY <1>1 DEF ServeInv, Dispatched
  <2>3. ASSUME NEW p \in told
        PROVE  /\ p.rest = TailUnit(p.id) /\ kind[p.id] = "good"
               /\ \E i \in 1..Len(served) : served[i] = p
    <3>1. /\ p.id \in Ids /\ p.id \in Answerable
          /\ p = [id |-> p.id, rest |-> TailUnit(p.id)]
      BY <1>1 DEF ServeInv, Told
    <3>2. p.id # 0
      BY <3>1, ServeAssumption DEF Ids
    <3>3. kind[p.id] = "good" /\ \E k \in 1..Len(served) : served[k].id = p.id
      BY <3>1, <3>2 DEF Answerable
    <3>4. PICK k \in 1..Len(served) : served[k].id = p.id
      BY <3>3
    <3>5. served[k] = [id |-> served[k].id, rest |-> served[k].rest]
      BY <1>1, ServedType DEF ServeInv
    <3>6. served[k] = p
      BY <2>2, <3>1, <3>4, <3>5
    <3> QED
      BY <3>1, <3>3, <3>6
  <2> QED
    BY <2>1, <2>2, <2>3 DEF NothingForged
<1> QED
  BY <1>1, ServeInvariant, PTL

\* A request that was read and is no longer in the buffer has been served,
\* unless no pass of onRead saw it whole, its bytes filled the buffer, or decode()
\* did not return (tinypb_coder.cc:77): when it returns, it passes over the bytes
\* of no whole packet.
THEOREM WholeRequestsAreServed == Spec => []WholeIsServed
<1>1. ASSUME ServeInv PROVE WholeIsServed
  <2> SUFFICES ASSUME pc \in {"idle", "looping", "writing"}, NEW i \in Arrived
               PROVE  \/ i \in cut \/ \E k \in DOMAIN served : served[k].id = i
                      \/ pc = "looping" /\ i \in stuck
    BY DEF WholeIsServed
  <2>1. DOMAIN served = 1..Len(served)
    BY <1>1 DEF ServeInv, Dispatched
  <2>2. i \in Ids /\ i \in Nat /\ 2 * i <= Read
    BY ServeAssumption DEF Arrived, Read, Ids
  <2>3. Gone = Read
    <3>1. in.read = in.write /\ in.write \in Nat
      BY <1>1 DEF ServeInv, Stream, Buffers
    <3>2. Read \in Nat
      BY <1>1, Numbers DEF ServeInv
    <3> QED
      BY <3>1, <3>2 DEF Gone, ReadAble
  <2>4. 2 * i - 1 <= Gone
    BY <1>1, <2>2, <2>3, Numbers DEF ServeInv
  <2>5. i \in stuck => pc = "looping"
    BY <1>1 DEF ServeInv, Control
  <2> QED
    BY <1>1, <2>1, <2>2, <2>4, <2>5 DEF ServeInv, Dispatched
<1> QED
  BY <1>1, ServeInvariant, PTL
=============================================================================
