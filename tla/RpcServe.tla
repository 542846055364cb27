------------------------------ MODULE RpcServe ------------------------------
(***************************************************************************)
(* net/tcp/tcp_connection.cc, net/coder/tinypb_coder.cc and                *)
(* net/rpc/rpc_dispatcher.cc: the requests of one client on one server     *)
(* connection, read -> decode -> dispatch -> encode -> write, and the      *)
(* client that decodes the answers.                                        *)
(*                                                                         *)
(* A packet on the wire is two units, its head, which begins with the      *)
(* start byte, and its tail, which ends with the end byte.  TCP delivers   *)
(* units in order but in pieces of any size, and the buffers of the        *)
(* connection are those of TcpBuffer over units.  A packet that arrives in *)
(* two pieces is cut between the two, wherever that is, and a head behind  *)
(* which the bytes end may end inside its length field (see MayLoop).      *)
(* A byte that is no start or end byte is not taken for one, and a length  *)
(* never ends at another packet's end byte by chance.  The peer does not   *)
(* close (see TcpServer).                                                  *)
(***************************************************************************)
EXTENDS BufferOps

CONSTANTS
    Calls,       \* how many requests the client sends
    BufferSize,  \* the initial size of the connection's buffers (128 bytes)
    SocketSize   \* what the socket towards the client has room for

ASSUME ServeAssumption ==
    Calls \in Nat /\ BufferSize \in Nat \ {0} /\ SocketSize \in Nat \ {0}

VARIABLES
    kind,        \* what dispatch makes of each request: "good" or "bad"
    pc,          \* the IO thread: "idle", "reading", "decoding", "looping", "writing"
    in,          \* m_in_buffer
    out,         \* m_out_buffer
    wantOut,     \* epoll watches the fd for EPOLLOUT
    sent,        \* units that the client has sent
    toServer,    \* the units in the socket towards the server
    toClient,    \* the units in the socket towards the client
    clientLoops, \* the client's decode does not return
    \* history, read by the properties only:
    served,      \* the packets dispatched, in order
    cut,         \* requests that one pass of onRead did not see whole
    stuck,       \* requests among the bytes of a decode that does not return
    written,     \* answers that one write() has put into the socket whole
    told         \* the answers for which the client has run a callback

serverVars == <<pc, in, out, wantOut>>
clientVars == <<toClient, clientLoops>>
vars == <<kind, serverVars, sent, toServer, clientVars, served, cut, stuck, written, told>>

Ids == 1..Calls

HeadUnit(i) == [id |-> i, part |-> "head"]
TailUnit(i) == [id |-> i, part |-> "tail"]
Units == [id : 0..Calls, part : {"head", "tail"}]
-----------------------------------------------------------------------------
(* TinyPBCoder *)

Packet(i) == <<HeadUnit(i), TailUnit(i)>>

\* The packet i is among the units, whole.
Together(s, i) ==
    \E k \in 1..(Len(s) - 1) : s[k] = HeadUnit(i) /\ s[k + 1] = TailUnit(i)

\* Mutant of EndsAt: the end byte is not checked.
EndsAnyhow(s, i) == i < Len(s)

\* The packet that starts at i ends inside the bytes, with an end byte where
\* its length says.
EndsAt(s, i) == i < Len(s) /\ s[i + 1].part = "tail"

\* Mutant of Decode: the search ends before the packet's last byte but one.
DecodeEarly(s) ==
    LET found[n \in 0..Len(s)] ==
            IF n = 0 THEN <<>>
            ELSE IF n < Len(s) - 1 /\ s[n].part = "head" /\ EndsAt(s, n)
                 THEN Append(found[n - 1], [id |-> s[n].id, rest |-> s[n + 1]])
                 ELSE found[n - 1]
    IN  found[Len(s)]

\* What decode() returns, when it does: the packets that are whole; all other
\* bytes are passed over.
Decode(s) ==
    LET found[n \in 0..Len(s)] ==
            IF n = 0 THEN <<>>
            ELSE IF s[n].part = "head" /\ EndsAt(s, n)
                 THEN Append(found[n - 1], [id |-> s[n].id, rest |-> s[n + 1]])
                 ELSE found[n - 1]
    IN  found[Len(s)]

\* Four length bytes are read where one is checked for (line 42).  If the bytes
\* end inside the length field, and what lies behind them in memory is zero, the
\* length is 0 and the packet seems to end in front of its own start.  If the byte
\* there is an end byte, the search begins behind it again, for ever (line 77).
\* In all other cases a head at the end of the bytes is passed over.
MayLoop(s) == Len(s) > 1 /\ s[Len(s) - 1].part = "tail" /\ s[Len(s)].part = "head"

\* encode(): a message without an id is given one ("12345678", here 0).
Encode(b, ids) ==
    LET encoded[n \in 0..Len(ids)] ==
            IF n = 0 THEN b ELSE WriteToBuffer(encoded[n - 1], Packet(ids[n]))
    IN  encoded[Len(ids)]
-----------------------------------------------------------------------------
(* RpcDisPatcher *)

\* Mutant of Dispatch: the response does not get the request's id.
DispatchUnnamed(p) == 0

\* dispatch() gives the response the id of a "good" request, one whose method is
\* called; if the method's answer cannot be serialised (line 78), the response
\* has no data.  For one with an unknown service, an unknown method or bad data it
\* sets the error on the request, and the response stays empty.
Dispatch(p) == IF kind[p.id] = "good" THEN p.id ELSE 0
-----------------------------------------------------------------------------
(* TcpConnection *)

OnRead ==
    /\ pc = "idle" /\ toServer # <<>>
    /\ pc' = "reading"
    /\ UNCHANGED <<kind, in, out, wantOut, sent, toServer, clientVars, served, cut,
                   stuck, written, told>>

\* One read() of the loop: another follows if this one filled the buffer.
ReadSocket ==
    /\ pc = "reading"
    /\ LET b     == IF WriteAble(in) = 0 THEN ResizeBuffer(in, 2 * in.size) ELSE in
           space == WriteAble(b)
           n     == IF space < Len(toServer) THEN space ELSE Len(toServer)
           chunk == SubSeq(toServer, 1, n)
       IN  /\ in' = MoveWriteIndex(Stored(b, chunk), n)
           /\ toServer' = SubSeq(toServer, n + 1, Len(toServer))
           /\ pc' = IF n = space THEN "reading" ELSE "decoding"
           /\ cut' = IF n = space THEN cut \cup {chunk[i].id : i \in DOMAIN chunk} ELSE cut
    /\ UNCHANGED <<kind, out, wantOut, sent, clientVars, served, stuck, written, told>>

\* Mutant of Taken: what was decoded stays in the buffer.
TakenNone(b) == b

\* readFromBuffer of everything.
Taken(b) == IF ReadAble(b) = 0 THEN b ELSE ReadFromBuffer(b, ReadAble(b))

\* excute(): the whole buffer is decoded, a packet that is not whole with it; what
\* was found is dispatched, and the answers are encoded.
Excute ==
    /\ pc = "decoding"
    /\ pc' = "idle"
    /\ LET bytes   == Front(in, ReadAble(in))
           packets == Decode(bytes)
       IN  /\ in' = Taken(in)
           /\ out' = Encode(out, [k \in DOMAIN packets |-> Dispatch(packets[k])])
           /\ served' = served \o packets
           /\ cut' = cut \cup {i \in Ids : \E k \in DOMAIN bytes :
                                 bytes[k].id = i /\ ~Together(bytes, i)}
    /\ wantOut' = TRUE
    /\ UNCHANGED <<kind, sent, toServer, clientVars, stuck, written, told>>

\* excute() whose decode does not return: nothing it found is dispatched, and the
\* IO thread does nothing else any more.
DecodeLoops ==
    /\ pc = "decoding"
    /\ pc' = "looping"
    /\ LET bytes == Front(in, ReadAble(in))
       IN  /\ MayLoop(bytes)
           /\ stuck' = {bytes[k].id : k \in DOMAIN bytes}
    /\ in' = Taken(in)
    /\ UNCHANGED <<kind, out, wantOut, sent, toServer, clientVars, served, cut, written, told>>

OnWrite ==
    /\ pc = "idle" /\ wantOut /\ Len(toClient) < SocketSize
    /\ pc' = "writing"
    /\ UNCHANGED <<kind, in, out, wantOut, sent, toServer, clientVars, served, cut,
                   stuck, written, told>>

\* One write() of the loop, from the read index, which never moves.
WriteSocket ==
    /\ pc = "writing"
    /\ LET count == ReadAble(out)
           space == SocketSize - Len(toClient)
           n     == IF space < count THEN space ELSE count
           chunk == Front(out, n)
       IN  /\ toClient' = toClient \o chunk
           /\ written' = written \cup {i \in Ids : Together(chunk, i)}
           /\ pc' = IF n < count /\ n > 0 THEN "writing" ELSE "idle"
           /\ wantOut' = (n < count)
    /\ UNCHANGED <<kind, in, out, sent, toServer, clientLoops, served, cut, stuck, told>>
-----------------------------------------------------------------------------
(* The client *)

\* The next unit of its requests arrives.
Send ==
    /\ sent < 2 * Calls
    /\ sent' = sent + 1
    /\ toServer' = Append(toServer, Packet(1 + (sent \div 2))[1 + (sent % 2)])
    /\ UNCHANGED <<kind, serverVars, clientVars, served, cut, stuck, written, told>>

\* excute() of the client: the units that have arrived are decoded, and the
\* callbacks looked up by id.  Callbacks are never taken out of the map.  (Its
\* own buffer may lose a read as the server's does.)
Receive(n) ==
    /\ ~clientLoops /\ n \in 1..Len(toClient)
    /\ LET packets == Decode(SubSeq(toClient, 1, n)) IN
          told' = told \cup {p \in {packets[k] : k \in DOMAIN packets} : p.id \in Ids}
    /\ toClient' = SubSeq(toClient, n + 1, Len(toClient))
    /\ UNCHANGED <<kind, serverVars, sent, toServer, clientLoops, served, cut, stuck, written>>

\* The same, when the client's decode does not return.
ReceiveLoops(n) ==
    /\ ~clientLoops /\ n \in 1..Len(toClient)
    /\ MayLoop(SubSeq(toClient, 1, n))
    /\ clientLoops' = TRUE
    /\ toClient' = SubSeq(toClient, n + 1, Len(toClient))
    /\ UNCHANGED <<kind, serverVars, sent, toServer, served, cut, stuck, written, told>>
-----------------------------------------------------------------------------
Init ==
    /\ kind \in [Ids -> {"good", "bad"}]
    /\ pc = "idle" /\ wantOut = FALSE
    /\ in = NewBuffer(BufferSize) /\ out = NewBuffer(BufferSize)
    /\ sent = 0 /\ toServer = <<>> /\ toClient = <<>>
    /\ clientLoops = FALSE
    /\ served = <<>> /\ cut = {} /\ stuck = {} /\ written = {} /\ told = {}

Server == OnRead \/ ReadSocket \/ Excute \/ DecodeLoops \/ OnWrite \/ WriteSocket
Client == Send \/ \E n \in 1..SocketSize : Receive(n) \/ ReceiveLoops(n)

\* All is done, as far as decode lets it.
Done ==
    /\ sent = 2 * Calls /\ (toClient = <<>> \/ clientLoops)
    /\ \/ pc = "idle" /\ toServer = <<>> /\ (wantOut => Len(toClient) = SocketSize)
       \/ pc = "looping"
    /\ UNCHANGED vars

Next == Server \/ Client \/ Done

Spec == Init /\ [][Next]_vars

\* The IO thread runs; the client, whose onRead reads until nothing is left,
\* empties the socket from time to time.  (A client that always leaves
\* something behind would make the server begin its answers again for ever.)
Fairness ==
    /\ WF_vars(OnRead) /\ WF_vars(ReadSocket \/ Excute \/ DecodeLoops \/ WriteSocket)
    /\ SF_vars(OnWrite) /\ WF_vars(Receive(Len(toClient)))

FairSpec == Spec /\ Fairness
-----------------------------------------------------------------------------
(* Properties *)

\* Every variable has its type.
TypeOK ==
    /\ kind \in [Ids -> {"good", "bad"}]
    /\ pc \in {"idle", "reading", "decoding", "looping", "writing"} /\ wantOut \in BOOLEAN
    /\ \A b \in {in, out} : b.read <= b.write /\ b.write <= b.size
    /\ sent \in 0..(2 * Calls)
    /\ toServer \in Seq(Units) /\ toClient \in Seq(Units) /\ Len(toClient) <= SocketSize
    /\ clientLoops \in BOOLEAN
    /\ served \in Seq([id : Ids, rest : Units])
    /\ cut \subseteq Ids /\ stuck \subseteq Ids /\ written \subseteq 0..Calls
    /\ told \subseteq [id : Ids, rest : Units]

\* However the requests are cut up, each is served at most once and in the
\* order sent.
ServedInOrder ==
    \A j \in DOMAIN served : \A i \in 1..(j - 1) : served[i].id < served[j].id

\* What is served is a request of the client, whole; what the client is told
\* is the whole answer to a request that was served, although answers are cut
\* short by a full socket and begun again.
NothingForged ==
    /\ \A i \in DOMAIN served : served[i].rest = TailUnit(served[i].id)
    /\ \A p \in told : /\ p.rest = TailUnit(p.id) /\ kind[p.id] = "good"
                       /\ \E i \in DOMAIN served : served[i] = p

\* The requests both of whose units the server has read.
Arrived == {i \in Ids : 2 * i <= sent - Len(toServer)}

\* A request that was read and is no longer in the buffer has been served,
\* unless no pass of onRead saw it whole, its bytes filled the buffer, or it is
\* among the bytes of a decode that does not return.
WholeIsServed ==
    pc \in {"idle", "looping", "writing"} =>
        \A i \in Arrived : \/ i \in cut \/ \E k \in DOMAIN served : served[k].id = i
                           \/ pc = "looping" /\ i \in stuck

\* The answer to a request that was served is written to the socket, unless
\* the answers of the connection, which are never taken out of m_out_buffer,
\* have outgrown the socket, or the decode of one side does not return.
AnswerIsWritten ==
    \A i \in Ids :
        (kind[i] = "good" /\ \E k \in DOMAIN served : served[k].id = i) ~>
            (i \in written \/ ReadAble(out) > SocketSize \/ pc = "looping" \/ clientLoops)

\* Claimed: the buffer helps a thread to read a complete packet when it was
\* read in pieces (README.md:203), so every request that has arrived is served.
ArrivedIsServed ==
    pc = "idle" => \A i \in Arrived : \E k \in DOMAIN served : served[k].id = i
=============================================================================
