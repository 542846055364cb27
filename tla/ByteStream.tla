----------------------------- MODULE ByteStream -----------------------------
(***************************************************************************)
(* What a TCP buffer promises: a queue of bytes.  Bytes are put in at the  *)
(* end and taken from the front.  It may drop what it receives from the    *)
(* socket, all of it or nothing, and may refuse to skip.                   *)
(***************************************************************************)
EXTENDS Naturals, Sequences

VARIABLES
    stream,    \* the bytes put in and not yet taken
    input,     \* the last call that puts bytes in, and whether an odd one
    result     \* the bytes of the last read

vars == <<stream, input, result>>

Init ==
    /\ stream = <<>> /\ result = <<>>
    /\ input = [op |-> "none", bytes |-> <<>>, odd |-> FALSE]

\* A call with the bytes s: it cannot be mistaken for no step at all.
Called(op, s) == input' = [op |-> op, bytes |-> s, odd |-> ~input.odd]

Put(s) == Called("put", s) /\ stream' = stream \o s /\ UNCHANGED result

Receive(s) ==
    /\ Called("receive", s)
    /\ stream' = stream \o s \/ UNCHANGED stream
    /\ UNCHANGED result

Drop(n) == SubSeq(stream, n + 1, Len(stream))

Take(n) ==
    /\ result' = SubSeq(stream, 1, n)
    /\ stream' = Drop(n)
    /\ UNCHANGED input

Skip(n) ==
    /\ stream' = Drop(n) \/ UNCHANGED stream
    /\ UNCHANGED <<input, result>>

Next ==
    \/ Put(input'.bytes) \/ Receive(input'.bytes)
    \/ \E n \in 0..Len(stream) : Take(n) \/ Skip(n)

Spec == Init /\ [][Next]_vars
=============================================================================
