----------------------------- MODULE BufferOps -----------------------------
(***************************************************************************)
(* The member functions of TcpBuffer as operators on a buffer: its vector  *)
(* m_buffer, m_size and the two indices.                                   *)
(***************************************************************************)
EXTENDS Naturals, Sequences

CONSTANT Zero         \* what a new vector holds
-----------------------------------------------------------------------------
NewBuffer(size) ==
    [store |-> [i \in 0..(size - 1) |-> Zero], size |-> size, read |-> 0, write |-> 0]

ReadAble(b)  == b.write - b.read
WriteAble(b) == b.size - b.write

\* A new vector that starts with the n bytes at the read index.
Moved(b, n, size) ==
    [store |-> [i \in 0..(size - 1) |-> IF i < n THEN b.store[b.read + i] ELSE Zero],
     size |-> size, read |-> 0, write |-> n]

\* Mutant of ResizeBuffer: the write index is not adjusted to the move.
ResizeInPlace(b, size) == [Moved(b, ReadAble(b), size) EXCEPT !.write = b.write]

ResizeBuffer(b, size) ==
    Moved(b, IF size < ReadAble(b) THEN size ELSE ReadAble(b), size)

\* Mutant of AdjustBuffer: the bytes move, the read index does not.
AdjustHalf(b) ==
    IF b.read < b.size \div 3 THEN b
    ELSE [Moved(b, ReadAble(b), b.size) EXCEPT !.read = b.read, !.write = b.write]

\* The bytes move to the front once a third of the buffer has been read.
AdjustBuffer(b) ==
    IF b.read < b.size \div 3 THEN b ELSE Moved(b, ReadAble(b), b.size)

\* memcpy to the write index.
Stored(b, s) ==
    [b EXCEPT !.store = [i \in DOMAIN b.store |->
        IF i \in b.write..(b.write + Len(s) - 1) THEN s[i - b.write + 1] ELSE b.store[i]]]

\* Mutant of Grown: the new size forgets what is already there.
GrownShort(b, n) ==
    IF n > WriteAble(b) THEN ResizeBuffer(b, (3 * n) \div 2) ELSE b

\* (int)(1.5 * (m_write_idx + size)) when the bytes do not fit.
Grown(b, n) ==
    IF n > WriteAble(b) THEN ResizeBuffer(b, (3 * (b.write + n)) \div 2) ELSE b

WriteToBuffer(b, s) ==
    LET g == Grown(b, Len(s)) IN [Stored(g, s) EXCEPT !.write = g.write + Len(s)]

\* The index is moved only if it stays below the size.
MoveWriteIndex(b, n) ==
    IF b.write + n >= b.size THEN b ELSE [b EXCEPT !.write = @ + n]

MoveReadIndex(b, n) ==
    IF b.read + n >= b.size THEN b ELSE AdjustBuffer([b EXCEPT !.read = @ + n])

\* The n bytes at the read index.
Front(b, n) == [i \in 1..n |-> b.store[b.read + i - 1]]
\* readFromBuffer of n bytes that are there.
ReadFromBuffer(b, n) == AdjustBuffer([b EXCEPT !.read = @ + n])
=============================================================================
