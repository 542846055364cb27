-------------------------- MODULE TcpBufferProofs --------------------------
(***************************************************************************)
(* The buffer of a connection, proved for every size, every set of bytes   *)
(* and every sequence of calls: the indices stay inside the vector, only   *)
(* bytes that were sent come out, and the buffer is a byte stream.         *)
(***************************************************************************)
EXTENDS TcpBuffer, SequenceTheorems, TLAPS

\* The shape of a buffer: IndicesInBounds for any value, not the variable.
Buffers(b) ==
    /\ b = [store |-> b.store, size |-> b.size, read |-> b.read, write |-> b.write]
    /\ DOMAIN b.store = 0..(b.size - 1)
    /\ b.size \in Nat /\ b.read \in Nat /\ b.write \in Nat
    /\ b.read <= b.write /\ b.write <= b.size

\* Between the indices there are sent bytes.
Sent(b) == \A i \in b.read..(b.write - 1) : b.store[i] \in Byte

Good(b) == Buffers(b) /\ Sent(b)

\* The invariant: the buffer is good, and so is what was read last.
BufferInv ==
    /\ Good(buffer)
    /\ DOMAIN result \in {1..n : n \in Nat}
    /\ \A i \in DOMAIN result : result[i] \in Byte

\* A chunk is a nonempty sequence of bytes.
LEMMA ChunkType ==
    ASSUME NEW s \in Chunks
    PROVE  /\ Len(s) \in Nat /\ Len(s) <= MaxChunk
           /\ \A i \in 1..Len(s) : s[i] \in Byte
<1>1. PICK n \in 1..MaxChunk : s \in [1..n -> Byte]  BY DEF Chunks
<1>2. n \in Nat  BY <1>1, BufferAssumption
<1>3. s \in Seq(Byte) /\ Len(s) = n  BY <1>1, <1>2
<1> QED BY <1>1, <1>2, <1>3

\* Moving the readable bytes to the front of a vector that holds them keeps a
\* buffer good.
LEMMA MovedGood ==
    ASSUME NEW b, Good(b), NEW n \in Nat, n <= ReadAble(b), NEW size \in Nat, n <= size
    PROVE  Good(Moved(b, n, size))
<1> DEFINE st == [i \in 0..(size - 1) |-> IF i < n THEN b.store[b.read + i] ELSE Zero]
           m  == Moved(b, n, size)
<1>1. m = [store |-> st, size |-> size, read |-> 0, write |-> n]  BY DEF Moved
<1>2. m.store = st /\ m.size = size /\ m.read = 0 /\ m.write = n  BY <1>1
<1>3. \A i \in 0..(n - 1) : st[i] \in Byte
  BY DEF Good, Buffers, Sent, ReadAble
<1>4. DOMAIN st = 0..(size - 1)  OBVIOUS
<1> HIDE DEF st, m
<1>5. Buffers(m) /\ Sent(m)  BY <1>1, <1>2, <1>3, <1>4 DEF Buffers, Sent
<1> QED BY <1>5 DEF Good, m

\* Resizing keeps a buffer good, and leaves nothing before the read index.
LEMMA ResizeGood ==
    ASSUME NEW b, Good(b), NEW size \in Nat
    PROVE  /\ Good(ResizeBuffer(b, size))
           /\ ResizeBuffer(b, size).size = size
           /\ ReadAble(b) <= size => ResizeBuffer(b, size).write = ReadAble(b)
<1> DEFINE n == IF size < ReadAble(b) THEN size ELSE ReadAble(b)
<1>1. n \in Nat /\ n <= ReadAble(b) /\ n <= size  BY DEF Good, Buffers, ReadAble
<1>2. Good(Moved(b, n, size))  BY <1>1, MovedGood
<1>3. ResizeBuffer(b, size) = Moved(b, n, size)  BY DEF ResizeBuffer
<1>4. Moved(b, n, size).size = size /\ Moved(b, n, size).write = n  BY DEF Moved
<1>5. ReadAble(b) \in Nat  BY DEF Good, Buffers, ReadAble
<1> QED BY <1>1, <1>2, <1>3, <1>4, <1>5

\* So does the move to the front after a read.
LEMMA AdjustGood ==
    ASSUME NEW b, Good(b)
    PROVE  Good(AdjustBuffer(b))
<1>1. ReadAble(b) \in Nat /\ b.size \in Nat /\ ReadAble(b) <= b.size
  BY DEF Good, Buffers, ReadAble
<1>2. Good(Moved(b, ReadAble(b), b.size))  BY <1>1, MovedGood
<1> QED BY <1>2 DEF AdjustBuffer

\* Storing bytes that fit, with or without moving the write index over them,
\* keeps a buffer good.
LEMMA StoredGood ==
    ASSUME NEW b, Good(b), NEW s \in Chunks, Len(s) <= WriteAble(b)
    PROVE  /\ Good(Stored(b, s))
           /\ Good([Stored(b, s) EXCEPT !.write = b.write + Len(s)])
           /\ Stored(b, s).write = b.write /\ Stored(b, s).size = b.size
<1>1. Len(s) \in Nat /\ \A i \in 1..Len(s) : s[i] \in Byte  BY ChunkType
<1> DEFINE st == [i \in DOMAIN b.store |->
        IF i \in b.write..(b.write + Len(s) - 1) THEN s[i - b.write + 1] ELSE b.store[i]]
<1>2. DOMAIN b.store = 0..(b.size - 1)  BY DEF Good, Buffers
<1>3. /\ b = [store |-> b.store, size |-> b.size, read |-> b.read, write |-> b.write]
      /\ Stored(b, s) = [b EXCEPT !.store = st]
  BY DEF Stored, Good, Buffers
<1>4. \A i \in b.read..(b.write + Len(s) - 1) : st[i] \in Byte
  BY <1>1, <1>2, SMTT(60) DEF Good, Buffers, Sent, WriteAble
<1>5. DOMAIN st = 0..(b.size - 1)  BY <1>2
<1> HIDE DEF st
<1>6. Stored(b, s) = [store |-> st, size |-> b.size, read |-> b.read, write |-> b.write]
  BY <1>3
<1> DEFINE v == [store |-> st, size |-> b.size, read |-> b.read, write |-> b.write + Len(s)]
<1>7. [Stored(b, s) EXCEPT !.write = b.write + Len(s)] = v  BY <1>6
<1>8. Good(Stored(b, s))  BY <1>4, <1>5, <1>6, <1>1 DEF Good, Buffers, Sent
<1>9. Good(v)  BY <1>4, <1>5, <1>1 DEF Good, Buffers, Sent, WriteAble
<1> QED BY <1>6, <1>7, <1>8, <1>9

\* writeToBuffer grows a buffer until the bytes fit.
LEMMA GrownGood ==
    ASSUME NEW b, Good(b), NEW n \in Nat
    PROVE  Good(Grown(b, n)) /\ n <= WriteAble(Grown(b, n))
<1> DEFINE size == (3 * (b.write + n)) \div 2
<1>1. /\ b.write \in Nat /\ b.read \in Nat /\ b.size \in Nat
      /\ b.read <= b.write /\ b.write <= b.size
  BY DEF Good, Buffers
<1>2. size \in Nat /\ b.write + n <= size  BY <1>1
<1>3. CASE n > WriteAble(b)
  <2>1. Good(ResizeBuffer(b, size)) /\ ResizeBuffer(b, size).size = size
        /\ ResizeBuffer(b, size).write = ReadAble(b)
    <3>1. ReadAble(b) <= size  BY <1>1, <1>2 DEF ReadAble
    <3> HIDE DEF size
    <3> QED BY <1>2, <3>1, ResizeGood
  <2>2. Grown(b, n) = ResizeBuffer(b, size)  BY <1>3 DEF Grown
  <2> HIDE DEF size
  <2> QED BY <1>1, <1>2, <2>1, <2>2 DEF WriteAble, ReadAble
<1>4. CASE ~(n > WriteAble(b))  BY <1>1, <1>4 DEF Grown, WriteAble
<1> QED BY <1>3, <1>4

\* Moving an index as the code does, or not at all, keeps a buffer good.
LEMMA ReadIndexGood ==
    ASSUME NEW b, Good(b), NEW n \in Nat, n <= ReadAble(b)
    PROVE  Good(ReadFromBuffer(b, n)) /\ Good(MoveReadIndex(b, n))
<1>1. Good([b EXCEPT !.read = @ + n])  BY DEF Good, Buffers, Sent, ReadAble
<1>2. Good(AdjustBuffer([b EXCEPT !.read = @ + n]))  BY <1>1, AdjustGood
<1> QED BY <1>2 DEF MoveReadIndex, ReadFromBuffer

\* The invariant holds initially and is kept by every call.
LEMMA BufferInvInductive ==
    /\ Init => BufferInv
    /\ BufferInv /\ [Next]_vars => BufferInv'
<1>1. Init => BufferInv
  <2>1. Good(NewBuffer(InitialSize))
    BY BufferAssumption DEF Good, Buffers, Sent, NewBuffer
  <2>2. DOMAIN <<>> = 1..0 /\ \A i \in 1..0 : FALSE  OBVIOUS
  <2> QED BY <2>1, <2>2 DEF Init, BufferInv
<1>2. BufferInv /\ [Next]_vars => BufferInv'
  <2> SUFFICES ASSUME BufferInv, [Next]_vars PROVE BufferInv'  OBVIOUS
  <2>1. CASE Write
    <3>1. PICK s \in Chunks : buffer' = WriteToBuffer(buffer, s)  BY <2>1 DEF Write
    <3>2. Len(s) \in Nat  BY ChunkType
    <3>3. Good(Grown(buffer, Len(s))) /\ Len(s) <= WriteAble(Grown(buffer, Len(s)))
      BY <3>2, GrownGood DEF BufferInv
    <3>4. Good(buffer')  BY <3>1, <3>3, StoredGood DEF WriteToBuffer
    <3> QED BY <2>1, <3>4 DEF Write, BufferInv
  <2>2. CASE Read
    <3>1. CASE UNCHANGED vars  BY <3>1 DEF vars, BufferInv
    <3>2. CASE ~UNCHANGED vars
      <4>1. PICK size \in 0..MaxChunk :
              LET n == IF ReadAble(buffer) > size THEN size ELSE ReadAble(buffer) IN
              /\ result' = Front(buffer, n)
              /\ buffer' = ReadFromBuffer(buffer, n)
        BY <2>2, <3>2 DEF Read
      <4> DEFINE n == IF ReadAble(buffer) > size THEN size ELSE ReadAble(buffer)
      <4>2. n \in Nat /\ n <= ReadAble(buffer)
        BY BufferAssumption DEF BufferInv, Good, Buffers, ReadAble
      <4>3. result' = Front(buffer, n) /\ buffer' = ReadFromBuffer(buffer, n)
        BY <4>1
      <4> HIDE DEF n
      <4>4. Good(buffer')  BY <4>2, <4>3, ReadIndexGood DEF BufferInv
      <4>5. DOMAIN result' = 1..n /\ \A i \in 1..n : result'[i] \in Byte
        BY <4>2, <4>3 DEF Front, BufferInv, Good, Buffers, Sent, ReadAble
      <4> QED BY <4>2, <4>4, <4>5 DEF BufferInv
    <3> QED BY <3>1, <3>2
  <2>3. CASE Skip
    <3>1. PICK n \in 0..ReadAble(buffer) : buffer' = MoveReadIndex(buffer, n)
      BY <2>3 DEF Skip
    <3>2. n \in Nat /\ n <= ReadAble(buffer)
      BY DEF BufferInv, Good, Buffers, ReadAble
    <3>3. Good(buffer')  BY <3>1, <3>2, ReadIndexGood DEF BufferInv
    <3> QED BY <2>3, <3>3 DEF Skip, BufferInv
  <2>4. CASE Receive
    <3> DEFINE b == IF WriteAble(buffer) = 0
                THEN ResizeBuffer(buffer, 2 * buffer.size) ELSE buffer
    <3>1. Good(b)
      BY ResizeGood DEF BufferInv, Good, Buffers
    <3>2. PICK s \in Chunks : /\ Len(s) <= WriteAble(b)
                              /\ buffer' = MoveWriteIndex(Stored(b, s), Len(s))
      BY <2>4 DEF Receive
    <3> HIDE DEF b
    <3>3. Good(buffer')  BY <3>1, <3>2, StoredGood DEF MoveWriteIndex
    <3> QED BY <2>4, <3>3 DEF Receive, BufferInv
  <2>5. CASE UNCHANGED vars  BY <2>5 DEF vars, BufferInv
  <2> QED BY <2>1, <2>2, <2>3, <2>4, <2>5 DEF Next
<1> QED BY <1>1, <1>2

\* No write of writeToBuffer or of onRead's read() runs over the end of the
\* vector, and no index leaves it (tcp_buffer.cc:22-91).
THEOREM BufferInBounds == Spec => []IndicesInBounds
<1>1. BufferInv => IndicesInBounds
  BY DEF BufferInv, Good, Buffers, IndicesInBounds
<1> QED BY <1>1, BufferInvInductive, PTL DEF Spec

\* Whatever is read from the buffer, or could be, was put into it: neither the
\* zeros of a new vector nor stale bytes come out (tcp_buffer.cc:22-91).
THEOREM OnlySentBytesComeOut == Spec => []OnlySentBytes
<1>1. BufferInv => OnlySentBytes
  BY DEF BufferInv, Good, Sent, OnlySentBytes
<1> QED BY <1>1, BufferInvInductive, PTL DEF Spec
-----------------------------------------------------------------------------
(* The refinement: TcpBuffer implements ByteStream.                         *)

\* The readable bytes of any buffer.
ContentsOf(b) == Front(b, ReadAble(b))

\* They are a sequence of sent bytes, as is any front of them.
LEMMA FrontType ==
    ASSUME NEW b, Good(b), NEW n \in Nat, n <= ReadAble(b)
    PROVE  Front(b, n) \in Seq(Byte) /\ Len(Front(b, n)) = n
           /\ \A i \in 1..n : Front(b, n)[i] = b.store[b.read + i - 1]
<1> DEFINE f == [i \in 1..n |-> b.store[b.read + i - 1]]
<1>1. \A i \in 1..n : b.store[b.read + i - 1] \in Byte
  BY DEF Good, Buffers, Sent, ReadAble
<1>2. f \in [1..n -> Byte]
  BY <1>1
<1>3. f \in Seq(Byte) /\ Len(f) = n
  BY <1>2
<1> QED
  BY <1>3 DEF Front

\* The number of readable bytes.
LEMMA ReadAbleType ==
    ASSUME NEW b, Good(b)
    PROVE  ReadAble(b) \in Nat /\ ReadAble(b) <= b.size /\ b.size \in Nat
           /\ b.read \in Nat /\ b.write \in Nat /\ b.write = b.read + ReadAble(b)
BY DEF Good, Buffers, ReadAble

\* A move to the front of a vector keeps the bytes it moves.
LEMMA MovedContents ==
    ASSUME NEW b, Good(b), NEW n \in Nat, n <= ReadAble(b), NEW size \in Nat, n <= size
    PROVE  ContentsOf(Moved(b, n, size)) = Front(b, n)
<1> DEFINE m == Moved(b, n, size)
<1>1. /\ m.read = 0 /\ m.write = n
      /\ m.store = [i \in 0..(size - 1) |-> IF i < n THEN b.store[b.read + i] ELSE Zero]
  BY DEF Moved
<1>2. b.read \in Nat
  BY ReadAbleType
<1>3. \A i \in 1..n : m.store[m.read + i - 1] = b.store[b.read + i - 1]
  BY <1>1, <1>2
<1>4. ReadAble(m) = n
  BY <1>1 DEF ReadAble
<1> HIDE DEF m
<1>5. Front(m, n) = Front(b, n)
  BY <1>3 DEF Front
<1> QED
  BY <1>4, <1>5 DEF ContentsOf, m

\* So the move after a read changes nothing.
LEMMA AdjustContents ==
    ASSUME NEW b, Good(b)
    PROVE  ContentsOf(AdjustBuffer(b)) = ContentsOf(b)
<1>1. ContentsOf(Moved(b, ReadAble(b), b.size)) = Front(b, ReadAble(b))
  BY ReadAbleType, MovedContents
<1> QED
  BY <1>1 DEF AdjustBuffer, ContentsOf

\* Nor does a resize that has room for them.
LEMMA ResizeContents ==
    ASSUME NEW b, Good(b), NEW size \in Nat, ReadAble(b) <= size
    PROVE  ContentsOf(ResizeBuffer(b, size)) = ContentsOf(b)
<1>1. ReadAble(b) \in Nat
  BY ReadAbleType
<1>2. ResizeBuffer(b, size) = Moved(b, ReadAble(b), size)
  BY <1>1 DEF ResizeBuffer
<1>3. ContentsOf(Moved(b, ReadAble(b), size)) = Front(b, ReadAble(b))
  BY <1>1, MovedContents
<1> QED
  BY <1>2, <1>3 DEF ContentsOf

\* Nor the growth of writeToBuffer.
LEMMA GrownContents ==
    ASSUME NEW b, Good(b), NEW n \in Nat
    PROVE  ContentsOf(Grown(b, n)) = ContentsOf(b)
<1> DEFINE size == (3 * (b.write + n)) \div 2
<1>1. size \in Nat /\ ReadAble(b) <= size
  BY ReadAbleType
<1>2. ContentsOf(ResizeBuffer(b, size)) = ContentsOf(b)
  <2> HIDE DEF size
  <2> QED
    BY <1>1, ResizeContents
<1> QED
  BY <1>2 DEF Grown

\* Bytes stored behind the write index are readable once it moves over them.
LEMMA StoredContents ==
    ASSUME NEW b, Good(b), NEW s \in Chunks, Len(s) <= WriteAble(b)
    PROVE  /\ ContentsOf(Stored(b, s)) = ContentsOf(b)
           /\ ContentsOf([Stored(b, s) EXCEPT !.write = b.write + Len(s)]) = ContentsOf(b) \o s
<1> DEFINE v  == [Stored(b, s) EXCEPT !.write = b.write + Len(s)]
           st == [i \in DOMAIN b.store |->
             IF i \in b.write..(b.write + Len(s) - 1) THEN s[i - b.write + 1] ELSE b.store[i]]
<1>1. s \in Seq(Byte) /\ Len(s) \in Nat
  <2>1. PICK k \in 1..MaxChunk : s \in [1..k -> Byte]
    BY DEF Chunks
  <2>2. k \in Nat
    BY <2>1, BufferAssumption
  <2> QED
    BY <2>1, <2>2
<1>2. /\ b = [store |-> b.store, size |-> b.size, read |-> b.read, write |-> b.write]
      /\ DOMAIN b.store = 0..(b.size - 1)
  BY DEF Good, Buffers
<1>3. Stored(b, s) = [store |-> st, size |-> b.size, read |-> b.read, write |-> b.write]
  <2>1. Stored(b, s) = [b EXCEPT !.store = st]
    BY DEF Stored
  <2> HIDE DEF st
  <2> QED
    BY <1>2, <2>1
<1>4. v = [store |-> st, size |-> b.size, read |-> b.read, write |-> b.write + Len(s)]
  <2> HIDE DEF st
  <2> QED
    BY <1>3
<1>5. Good(Stored(b, s)) /\ Good(v)
  BY StoredGood
<1>6. \A i \in 1..ReadAble(b) : st[b.read + i - 1] = b.store[b.read + i - 1]
  <2> SUFFICES ASSUME NEW i \in 1..ReadAble(b)
               PROVE  st[b.read + i - 1] = b.store[b.read + i - 1]
    OBVIOUS
  <2>1. b.read + i - 1 \in 0..(b.size - 1) /\ b.read + i - 1 < b.write
    BY ReadAbleType DEF Good, Buffers
  <2> QED
    BY <1>1, <1>2, <2>1, ReadAbleType
<1>7. \A i \in 1..Len(s) : st[b.write + i - 1] = s[i]
  BY <1>1, <1>2, ReadAbleType DEF WriteAble
<1>8. ContentsOf(Stored(b, s)) = ContentsOf(b)
  <2> HIDE DEF st
  <2>1. ReadAble(Stored(b, s)) = ReadAble(b)
    BY <1>3 DEF ReadAble
  <2> QED
    BY <1>3, <1>6, <2>1 DEF ContentsOf, Front
<1>9. ContentsOf(v) = ContentsOf(b) \o s
  <2> HIDE DEF st
  <2>1. v.store = st /\ v.read = b.read /\ v.write = b.write + Len(s)
    BY <1>4
  <2> HIDE DEF v
  <2>2. ReadAble(v) = ReadAble(b) + Len(s)
    BY <1>1, <2>1, ReadAbleType DEF ReadAble
  <2>3. /\ ContentsOf(v) \in Seq(Byte) /\ Len(ContentsOf(v)) = ReadAble(b) + Len(s)
        /\ \A i \in 1..(ReadAble(b) + Len(s)) : ContentsOf(v)[i] = st[b.read + i - 1]
    <3>1. ReadAble(v) \in Nat /\ ReadAble(v) <= ReadAble(v) /\ Good(v)
      BY <1>1, <1>5, <2>2, ReadAbleType DEF v
    <3>2. /\ Front(v, ReadAble(v)) \in Seq(Byte) /\ Len(Front(v, ReadAble(v))) = ReadAble(v)
          /\ \A i \in 1..ReadAble(v) : Front(v, ReadAble(v))[i] = v.store[v.read + i - 1]
      BY <3>1, FrontType
    <3> QED
      BY <2>1, <2>2, <3>2 DEF ContentsOf
  <2>4. /\ ContentsOf(b) \in Seq(Byte) /\ Len(ContentsOf(b)) = ReadAble(b)
        /\ \A i \in 1..ReadAble(b) : ContentsOf(b)[i] = b.store[b.read + i - 1]
    BY ReadAbleType, FrontType DEF ContentsOf
  <2> DEFINE t == ContentsOf(b) \o s
  <2>5. /\ t \in Seq(Byte) /\ Len(t) = ReadAble(b) + Len(s)
        /\ \A i \in 1..(ReadAble(b) + Len(s)) :
              t[i] = IF i <= ReadAble(b) THEN ContentsOf(b)[i] ELSE s[i - ReadAble(b)]
    <3>1. ContentsOf(b) \in Seq(Byte) /\ s \in Seq(Byte)
      BY <1>1, <2>4
    <3>2. /\ t \in Seq(Byte) /\ Len(t) = Len(ContentsOf(b)) + Len(s)
          /\ \A i \in 1..(Len(ContentsOf(b)) + Len(s)) : t[i] =
                IF i <= Len(ContentsOf(b)) THEN ContentsOf(b)[i] ELSE s[i - Len(ContentsOf(b))]
      BY ONLY <3>1, ConcatProperties, Zenon
    <3> QED
      BY ONLY <2>4, <3>2, Zenon
  <2> HIDE DEF t
  <2>6. \A i \in 1..(ReadAble(b) + Len(s)) : ContentsOf(v)[i] = t[i]
    <3> SUFFICES ASSUME NEW i \in 1..(ReadAble(b) + Len(s))
                 PROVE  ContentsOf(v)[i] = t[i]
      OBVIOUS
    <3>1. CASE i <= ReadAble(b)
      <4>1. i \in 1..ReadAble(b) /\ i \in 1..(ReadAble(b) + Len(s))
        BY <3>1, ReadAbleType
      <4>2. ContentsOf(v)[i] = ContentsOf(b)[i]
        BY <1>6, <2>3, <2>4, <4>1
      <4> QED
        BY <2>5, <3>1, <4>1, <4>2
    <3>2. CASE i > ReadAble(b)
      <4>1. i - ReadAble(b) \in 1..Len(s) /\ b.read + i - 1 = b.write + (i - ReadAble(b)) - 1
        BY <1>1, <3>2, ReadAbleType
      <4>2. ContentsOf(v)[i] = s[i - ReadAble(b)]
        BY <1>7, <2>3, <4>1
      <4> QED
        BY <1>1, <2>5, <3>2, <4>2, ReadAbleType
    <3> QED
      BY <3>1, <3>2, ReadAbleType
  <2> QED
    BY <2>3, <2>5, <2>6, SeqEqual DEF t
<1> QED
  BY <1>8, <1>9
\* Moving the read index over n bytes takes them from the front.
LEMMA ReadContents ==
    ASSUME NEW b, Good(b), NEW n \in Nat, n <= ReadAble(b)
    PROVE  /\ Front(b, n) = SubSeq(ContentsOf(b), 1, n)
           /\ ContentsOf(ReadFromBuffer(b, n))
                = SubSeq(ContentsOf(b), n + 1, Len(ContentsOf(b)))
<1> DEFINE v == [b EXCEPT !.read = @ + n]
           c == ContentsOf(b)
           rest == SubSeq(c, n + 1, Len(c))
           first == SubSeq(c, 1, n)
<1>1. /\ c \in Seq(Byte) /\ Len(c) = ReadAble(b)
      /\ \A i \in 1..ReadAble(b) : c[i] = b.store[b.read + i - 1]
  BY ReadAbleType, FrontType DEF ContentsOf
<1>2. /\ v.store = b.store /\ v.read = b.read + n /\ v.write = b.write
      /\ Good(v)
  BY DEF Good, Buffers, Sent, ReadAble
<1> HIDE DEF v, c
<1>3. ReadAble(v) = ReadAble(b) - n /\ ReadAble(v) \in Nat
  BY <1>2, ReadAbleType DEF ReadAble
<1>4. /\ ContentsOf(v) \in Seq(Byte) /\ Len(ContentsOf(v)) = ReadAble(b) - n
      /\ \A i \in 1..(ReadAble(b) - n) : ContentsOf(v)[i] = b.store[b.read + n + i - 1]
  <2>1. /\ Front(v, ReadAble(v)) \in Seq(Byte) /\ Len(Front(v, ReadAble(v))) = ReadAble(v)
        /\ \A i \in 1..ReadAble(v) : Front(v, ReadAble(v))[i] = v.store[v.read + i - 1]
    BY <1>2, <1>3, FrontType
  <2> QED
    BY <1>2, <1>3, <2>1 DEF ContentsOf
<1>5. n + 1 \in Int /\ Len(c) \in Int /\ 1 \in Int /\ n \in Int /\ ReadAble(b) \in Nat
  BY <1>1, ReadAbleType
<1>6. \A i \in 1..ReadAble(b) : c[i] \in Byte
  BY <1>1
<1>7. /\ rest \in Seq(Byte) /\ Len(rest) = ReadAble(b) - n
      /\ \A i \in 1..(ReadAble(b) - n) : rest[i] = c[n + i]
  <2>1. \A i \in (n + 1)..Len(c) : c[i] \in Byte
    BY <1>1, <1>5, <1>6
  <2>2. /\ rest \in Seq(Byte)
        /\ Len(rest) = IF n + 1 <= Len(c) THEN Len(c) - (n + 1) + 1 ELSE 0
        /\ \A i \in 1..(Len(c) - (n + 1) + 1) : rest[i] = c[(n + 1) + i - 1]
    BY ONLY <1>5, <2>1, SubSeqProperties
  <2> HIDE DEF rest
  <2> QED
    BY <1>1, <1>5, <2>2
<1>8. /\ first \in Seq(Byte) /\ Len(first) = n
      /\ \A i \in 1..n : first[i] = c[i]
  <2>1. \A i \in 1..n : c[i] \in Byte
    BY <1>5, <1>6
  <2>2. /\ first \in Seq(Byte) /\ Len(first) = IF 1 <= n THEN n - 1 + 1 ELSE 0
        /\ \A i \in 1..(n - 1 + 1) : first[i] = c[1 + i - 1]
    BY ONLY <1>5, <2>1, SubSeqProperties
  <2> HIDE DEF first
  <2> QED
    BY <1>5, <2>2
<1> HIDE DEF rest, first
<1>9. Front(b, n) = first
  <2>1. /\ Front(b, n) \in Seq(Byte) /\ Len(Front(b, n)) = n
        /\ \A i \in 1..n : Front(b, n)[i] = b.store[b.read + i - 1]
    BY FrontType
  <2>2. \A i \in 1..n : Front(b, n)[i] = first[i]
    BY <1>1, <1>5, <1>8, <2>1
  <2> QED
    BY <1>8, <2>1, <2>2, SeqEqual
<1>10. ContentsOf(v) = rest
  <2>1. \A i \in 1..(ReadAble(b) - n) : ContentsOf(v)[i] = rest[i]
    <3> SUFFICES ASSUME NEW i \in 1..(ReadAble(b) - n) PROVE ContentsOf(v)[i] = rest[i]
      OBVIOUS
    <3>1. n + i \in 1..ReadAble(b) /\ b.read + n + i - 1 = b.read + (n + i) - 1
      BY <1>5, ReadAbleType
    <3> QED
      BY <1>1, <1>4, <1>7, <3>1
  <2> QED
    BY <1>4, <1>7, <2>1, SeqEqual
<1>11. ContentsOf(AdjustBuffer(v)) = ContentsOf(v)
  BY <1>2, AdjustContents
<1> QED
  BY <1>9, <1>10, <1>11 DEF first, rest, c, v, ReadFromBuffer

\* Each call on the buffer is a step of the byte stream, or none.
LEMMA StepRefines == BufferInv /\ [Next]_vars => [LossyStream!Next]_(LossyStream!vars)
<1> SUFFICES ASSUME BufferInv, [Next]_vars
             PROVE  [LossyStream!Next]_(LossyStream!vars)
  OBVIOUS
<1> USE DEF LossyStream!Next, LossyStream!Called, Called
<1>1. Good(buffer) /\ Contents = ContentsOf(buffer) /\ Contents' = ContentsOf(buffer')
  BY DEF BufferInv, Contents, ContentsOf, ReadAble, Front
<1>2. ReadAble(buffer) \in Nat /\ Len(Contents) = ReadAble(buffer)
  BY <1>1, ReadAbleType, FrontType DEF ContentsOf
<1>3. CASE Write
  <2>1. PICK s \in Chunks : buffer' = WriteToBuffer(buffer, s) /\ Called("put", s)
    BY <1>3 DEF Write
  <2>2. Len(s) \in Nat
    BY ChunkType
  <2>3. Good(Grown(buffer, Len(s))) /\ Len(s) <= WriteAble(Grown(buffer, Len(s)))
    BY <1>1, <2>2, GrownGood
  <2>4. Contents' = ContentsOf(Grown(buffer, Len(s))) \o s
    BY <1>1, <2>1, <2>3, StoredContents DEF WriteToBuffer
  <2>5. Contents' = Contents \o s
    BY <1>1, <2>2, <2>4, GrownContents
  <2>6. input'.bytes = s /\ UNCHANGED result
    BY <1>3, <2>1 DEF Write
  <2> QED
    BY <2>1, <2>5, <2>6 DEF LossyStream!Put
<1>4. CASE Read
  <2>1. CASE UNCHANGED vars
    BY <1>1, <2>1 DEF vars, LossyStream!vars
  <2>2. CASE ~UNCHANGED vars
    <3>1. PICK size \in 0..MaxChunk :
            LET n == IF ReadAble(buffer) > size THEN size ELSE ReadAble(buffer) IN
            /\ result' = Front(buffer, n)
            /\ buffer' = ReadFromBuffer(buffer, n)
            /\ UNCHANGED input
      BY <1>4, <2>2 DEF Read
    <3> DEFINE n == IF ReadAble(buffer) > size THEN size ELSE ReadAble(buffer)
    <3>2. n \in Nat /\ n <= ReadAble(buffer) /\ n \in 0..Len(Contents)
      BY <1>2, BufferAssumption
    <3>3. result' = Front(buffer, n) /\ buffer' = ReadFromBuffer(buffer, n) /\ UNCHANGED input
      BY <3>1
    <3> HIDE DEF n
    <3>4. result' = SubSeq(Contents, 1, n) /\ Contents' = SubSeq(Contents, n + 1, Len(Contents))
      BY <1>1, <3>2, <3>3, ReadContents
    <3> QED
      BY <3>2, <3>3, <3>4 DEF LossyStream!Take, LossyStream!Drop
  <2> QED
    BY <2>1, <2>2
<1>5. CASE Skip
  <2>1. PICK n \in 0..ReadAble(buffer) : buffer' = MoveReadIndex(buffer, n)
    BY <1>5 DEF Skip
  <2>2. n \in Nat /\ n <= ReadAble(buffer) /\ n \in 0..Len(Contents)
    BY <1>2
  <2>3. buffer' = buffer \/ buffer' = ReadFromBuffer(buffer, n)
    BY <2>1 DEF MoveReadIndex, ReadFromBuffer
  <2>4. Contents' = Contents \/ Contents' = SubSeq(Contents, n + 1, Len(Contents))
    BY <1>1, <2>2, <2>3, ReadContents
  <2>5. UNCHANGED <<input, result>>
    BY <1>5 DEF Skip
  <2> QED
    BY <2>2, <2>4, <2>5 DEF LossyStream!Skip, LossyStream!Drop
<1>6. CASE Receive
  <2> DEFINE b == IF WriteAble(buffer) = 0
                THEN ResizeBuffer(buffer, 2 * buffer.size) ELSE buffer
  <2>1. Good(b) /\ ContentsOf(b) = Contents
    <3>1. 2 * buffer.size \in Nat /\ ReadAble(buffer) <= 2 * buffer.size
      BY <1>1, ReadAbleType
    <3> QED
      BY <1>1, <3>1, ResizeGood, ResizeContents
  <2>2. PICK s \in Chunks : /\ Len(s) <= WriteAble(b)
                            /\ buffer' = MoveWriteIndex(Stored(b, s), Len(s))
                            /\ Called("receive", s)
    BY <1>6 DEF Receive
  <2> HIDE DEF b
  <2>3. Stored(b, s).write = b.write
    BY <2>1, <2>2, StoredGood
  <2>4. \/ buffer' = Stored(b, s)
        \/ buffer' = [Stored(b, s) EXCEPT !.write = b.write + Len(s)]
    BY <2>2, <2>3 DEF MoveWriteIndex
  <2>5. Contents' = Contents \/ Contents' = Contents \o s
    BY <1>1, <2>1, <2>2, <2>4, StoredContents
  <2>6. input'.bytes = s /\ UNCHANGED result
    BY <1>6, <2>2 DEF Receive
  <2> QED
    BY <2>2, <2>5, <2>6 DEF LossyStream!Receive
<1>7. CASE UNCHANGED vars
  BY <1>1, <1>7 DEF vars, LossyStream!vars
<1> QED
  BY <1>3, <1>4, <1>5, <1>6, <1>7 DEF Next

\* The buffer is a queue of bytes: what was put in comes out once and in order,
\* except that a pass of onRead may lose all of what it received, and a skip
\* may be refused (tcp_buffer.cc:22-91, tcp_connection.cc:40-58).
THEOREM BufferIsLossyStream == Spec => IsLossyStream
<1>1. Init => LossyStream!Init
  <2> SUFFICES ASSUME Init PROVE LossyStream!Init
    OBVIOUS
  <2>1. Good(buffer)
    BY BufferInvInductive DEF BufferInv
  <2>2. ReadAble(buffer) = 0
    BY DEF Init, NewBuffer, ReadAble
  <2>3. Contents \in Seq(Byte) /\ Len(Contents) = 0
    BY <2>1, <2>2, FrontType DEF Contents
  <2>4. Contents = <<>>
    BY <2>3
  <2> QED
    BY <2>4 DEF Init, LossyStream!Init
<1> QED
  BY <1>1, StepRefines, BufferInvInductive, PTL DEF Spec, IsLossyStream, LossyStream!Spec
=============================================================================
