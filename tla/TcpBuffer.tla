----------------------------- MODULE TcpBuffer -----------------------------
(***************************************************************************)
(* net/tcp/tcp_buffer.cc: the in and out buffers of a connection, and the  *)
(* pass of TcpConnection::onRead that fills one from the socket.           *)
(*                                                                         *)
(* A buffer is its vector and two indices; bytes outside [read, write) are *)
(* kept too, zero or stale, since a wrong index would expose them.         *)
(***************************************************************************)
EXTENDS BufferOps

CONSTANTS
    Byte,         \* the bytes that are sent
    InitialSize,  \* the size given to the constructor
    MaxChunk,     \* bound: bytes of one call
    MaxBytes      \* bound: readable bytes, beyond which nothing is put in

ASSUME BufferAssumption ==
    /\ Zero \notin Byte
    /\ InitialSize \in Nat \ {0}
    /\ MaxChunk \in Nat /\ MaxBytes \in Nat

VARIABLES
    buffer,       \* m_buffer, m_size, m_read_idx and m_write_idx
    result,       \* the vector of the last readFromBuffer
    input         \* history: the last call that put bytes in

vars == <<buffer, result, input>>
-----------------------------------------------------------------------------
Called(op, s) == input' = [op |-> op, bytes |-> s, odd |-> ~input.odd]

Chunks == UNION {[1..n -> Byte] : n \in 1..MaxChunk}

\* writeToBuffer, as the coders call it.
Write ==
    \E s \in Chunks :
        /\ ReadAble(buffer) + Len(s) <= MaxBytes
        /\ buffer' = WriteToBuffer(buffer, s)
        /\ Called("put", s)
        /\ UNCHANGED result

\* readFromBuffer: at most what is there; nothing there leaves the result alone.
Read ==
    \E size \in 0..MaxChunk :
        LET n == IF ReadAble(buffer) > size THEN size ELSE ReadAble(buffer) IN
        IF ReadAble(buffer) = 0 THEN UNCHANGED vars
        ELSE /\ result' = Front(buffer, n)
             /\ buffer' = ReadFromBuffer(buffer, n)
             /\ UNCHANGED input

\* moveReadIndex; a caller skips bytes that are there.
Skip ==
    \E n \in 0..ReadAble(buffer) :
        /\ buffer' = MoveReadIndex(buffer, n)
        /\ UNCHANGED <<result, input>>

\* A pass of onRead: a full buffer is doubled; read() stores as many bytes as
\* fit, or fewer, at the write index, which is then moved.
Receive ==
    LET b == IF WriteAble(buffer) = 0 THEN ResizeBuffer(buffer, 2 * buffer.size) ELSE buffer IN
    \E s \in Chunks :
        /\ Len(s) <= WriteAble(b)
        /\ ReadAble(b) + Len(s) <= MaxBytes
        /\ buffer' = MoveWriteIndex(Stored(b, s), Len(s))
        /\ Called("receive", s)
        /\ UNCHANGED result

Init ==
    /\ buffer = NewBuffer(InitialSize) /\ result = <<>>
    /\ input = [op |-> "none", bytes |-> <<>>, odd |-> FALSE]

Next == Write \/ Read \/ Skip \/ Receive

Spec == Init /\ [][Next]_vars
-----------------------------------------------------------------------------
(* Properties *)

\* The indices are in order and inside the vector, which has m_size bytes: no
\* write runs over its end.
IndicesInBounds ==
    /\ DOMAIN buffer.store = 0..(buffer.size - 1)
    /\ buffer.size \in Nat /\ buffer.read \in Nat /\ buffer.write \in Nat
    /\ buffer.read <= buffer.write /\ buffer.write <= buffer.size

\* What is read or can be read was sent: no stale or zero byte comes out.
OnlySentBytes ==
    /\ \A i \in buffer.read..(buffer.write - 1) : buffer.store[i] \in Byte
    /\ \A i \in DOMAIN result : result[i] \in Byte

Contents == Front(buffer, ReadAble(buffer))

LossyStream == INSTANCE ByteStream WITH stream <- Contents

\* The buffer is a queue of bytes, except that a pass of onRead may lose
\* everything it received and a skip may be refused.
IsLossyStream == LossyStream!Spec
=============================================================================
