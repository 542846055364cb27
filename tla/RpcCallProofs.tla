--------------------------- MODULE RpcCallProofs ---------------------------
(***************************************************************************)
(* Proofs about RpcCall, for every behaviour of the peer, the socket and   *)
(* the clock: its types, that the closure runs at most once, that a call   *)
(* that was answered does not time out, and what the closure is told.      *)
(***************************************************************************)
EXTENDS RpcCall, TLAPS

\* How a call comes to an end, in which the timeout and the answer race: each
\* happens at most once, the timeout because its event leaves the map for good,
\* the answer because the request is delivered once; the first one settles the
\* call, and the closure has run only if one of them has.
Settled ==
    /\ pc = "start" => timer = "new" /\ onOut = "none" /\ request = "none"
    /\ canceled => timer = "gone"
    /\ request # "none" => onOut = "onWrite" /\ ~writeDone /\ ~unsent
    /\ request # "answered" => inbound = <<>> /\ answered = "no"
    /\ inbound # <<>> => answered = "no"
    /\ answered # "no" => timerCancel /\ ~canceled
    /\ closureRuns = 0 \/ (closureRuns = 1 /\ (canceled \/ answered # "no"))

\* Where the error code comes from.  A code of a call that was refused, or whose
\* connection failed, is never followed by an answer: nothing can connect it any
\* more, since a batch holds the write handler at most once and the failed
\* connection has deregistered its fd.
Explained ==
    /\ \A i, j \in DOMAIN batch : batch[i] = batch[j] => i = j
    /\ pc \in {"start", "poll"} => batch = <<>>
    /\ state # "NotConnected" => onOut = "onWrite"
    /\ pc = "start" => error \in {"none", "garbage"}
    /\ error \in {"init", "serialize", "connect"} =>
          /\ state = "NotConnected" /\ onOut # "onWrite"
          /\ onOut = "connect" =>
                "OUT" \notin interest /\ \A i \in DOMAIN batch : batch[i] # "OUT"
    /\ error = "timeout" => canceled
    /\ error \in {"failed", "garbled"} => canceled \/ answered = error

CallInv == TypeOK /\ Settled /\ Explained

\* It holds initially.
LEMMA CallInit == Init => CallInv
<1> SUFFICES ASSUME Init PROVE CallInv
  OBVIOUS
<1>1. error \in Errors
  BY DEF Init, Errors
<1>2. batch \in Seq({"IN", "OUT", "TIMER"}) /\ inbound \in Seq(Responses)
  BY DEF Init
<1>3. interest \in SUBSET {"IN", "OUT"}
  BY DEF Init
<1>4. TypeOK
  BY <1>1, <1>2, <1>3 DEF Init, TypeOK
<1>5. Settled /\ Explained
  BY DEF Init, Settled, Explained
<1> QED
  BY <1>4, <1>5 DEF CallInv

\* A call that is refused keeps it.
LEMMA RefusedKeeps ==
    ASSUME CallInv, CallRefused
    PROVE  CallInv'
<1>1. pc' \in {"run", "returned", "killed"} /\ (error' = error \/ error' \in {"init", "serialize"})
  BY DEF CallRefused, Resumes, SetError
<1> QED
  BY <1>1 DEF CallRefused, CallInv, TypeOK, Settled, Explained, Errors, fdVars, clientVars,
     timerVars, peerVars

\* CallMethod keeps it, whether the connection succeeds, fails or is in progress.
LEMMA CallKeeps ==
    ASSUME CallInv, CallMethod
    PROVE  CallInv'
<1>1. pc' \in {"run", "returned", "check"}
  BY DEF CallMethod, Resumes
<1>2. CASE Connected /\ UNCHANGED isLooping
  BY <1>1, <1>2 DEF CallMethod, Connected, WriteMessage, AddTimerEvent, CallInv, TypeOK, Settled, Explained,
     Errors, peerVars
<1>3. CASE ConnectFailed /\ UNCHANGED isLooping
  BY <1>1, <1>3 DEF CallMethod, ConnectFailed, SetError, AddTimerEvent, CallInv, TypeOK, Settled, Explained,
     Errors, peerVars
<1>4. CASE interest' = {"OUT"} /\ onOut' = "connect" /\ isLooping' = TRUE
             /\ UNCHANGED <<clientVars, error>>
  BY <1>1, <1>4 DEF CallMethod, AddTimerEvent, CallInv, TypeOK, Settled, Explained,
     Errors, peerVars, clientVars
<1> QED
  BY <1>2, <1>3, <1>4 DEF CallMethod

\* What a batch is after its first handler was taken.
LEMMA TailKeeps ==
    ASSUME CallInv, batch # <<>>
    PROVE  /\ Tail(batch) \in Seq({"IN", "OUT", "TIMER"})
           /\ \A i, j \in DOMAIN Tail(batch) : Tail(batch)[i] = Tail(batch)[j] => i = j
           /\ \A k \in {"IN", "OUT", "TIMER"} :
                 (\A i \in DOMAIN batch : batch[i] # k) => \A i \in DOMAIN Tail(batch) : Tail(batch)[i] # k
           /\ \A i \in DOMAIN Tail(batch) : Tail(batch)[i] # Head(batch)
BY DEF CallInv, TypeOK, Explained

\* The closure may stop the loop, and changes nothing else.
LEMMA ClosureType ==
    ASSUME CallInv, RunClosure \/ NoClosure
    PROVE  isLooping' \in BOOLEAN /\ stopFlag' \in BOOLEAN
BY DEF RunClosure, NoClosure, Stop, CallInv, TypeOK

\* The handlers.  Each is run with the rest of its batch left.
LEMMA ConnectKeeps ==
    ASSUME CallInv, pc = "run", batch # <<>>, Head(batch) = "OUT", OnConnect,
           batch' = Tail(batch), pc' = pc
    PROVE  CallInv'
<1> USE TailKeeps, ClosureType
<1>1. CASE Connected
  BY <1>1 DEF OnConnect, Connected, WriteMessage, NoClosure, CallInv, TypeOK, Settled,
     Explained, Errors, timerVars, peerVars
<1>2. CASE ConnectFailed
  BY <1>2 DEF OnConnect, ConnectFailed, SetError, NoClosure, CallInv, TypeOK, Settled,
     Explained, Errors, timerVars, peerVars
<1> QED
  BY <1>1, <1>2 DEF OnConnect

\* The write handler of the request: it reads the response only after it, and a
\* request is delivered once.
LEMMA WriteKeeps ==
    ASSUME CallInv, pc = "run", batch # <<>>, OnWrite, batch' = Tail(batch), pc' = pc
    PROVE  CallInv'
<1> USE TailKeeps, ClosureType
<1>1. PICK others \in {interest \ {"OUT"}, interest} :
          /\ IF writeDone THEN ReadMessage(others)
                          ELSE interest' = others /\ UNCHANGED readDone
          /\ IF "OUT" \notin others
             THEN /\ unsent' = FALSE
                  /\ request' = IF writeDone \/ unsent THEN "delivered" ELSE request
             ELSE (writeDone \/ unsent) /\ unsent' = TRUE /\ UNCHANGED request
  BY DEF OnWrite
<1>2. interest' \in SUBSET {"IN", "OUT"} /\ readDone' \in BOOLEAN
  BY <1>1 DEF ReadMessage, CallInv, TypeOK
<1>3. CASE writeDone \/ unsent
  <2>1. request = "none"
    BY <1>3 DEF CallInv, Settled, TypeOK
  <2> QED
    BY <1>1, <1>2, <1>3, <2>1, ZenonT(60) DEF OnWrite, NoClosure, CallInv, TypeOK, Settled, Explained,
       timerVars
<1>4. CASE ~(writeDone \/ unsent)
  <2>1. unsent' = FALSE /\ request' = request
    BY <1>1, <1>4
  <2>2. Settled' /\ Explained'
    BY <1>2, <1>4, <2>1 DEF OnWrite, NoClosure, CallInv, Settled, Explained, timerVars
  <2> QED
    BY <1>2, <2>1, <2>2, ZenonT(60) DEF OnWrite, NoClosure, CallInv, TypeOK, timerVars
<1> QED
  BY <1>3, <1>4

\* The read handler, of a response that is this call's or not.
LEMMA ResponseKeeps ==
    ASSUME CallInv, pc = "run", batch # <<>>, OnResponse, batch' = Tail(batch), pc' = pc
    PROVE  CallInv'
<1> USE TailKeeps
<1>1. Head(inbound) \in Responses /\ request = "answered" /\ answered = "no"
  BY DEF OnResponse, CallInv, TypeOK, Settled
<1>2. CASE Answer(Head(inbound)) /\ Head(inbound) # "other"
  <2>1. RunClosure \/ NoClosure
    BY <1>2 DEF Answer
  <2>2. error' \in Errors /\ answered' \in {"no"} \cup Responses
    BY <1>1, <1>2 DEF Answer, CallInv, TypeOK, Errors, Responses
  <2>3. TypeOK'
    BY <1>2, <2>1, <2>2, ClosureType DEF OnResponse, Answer, RunClosure, NoClosure, CallInv,
       TypeOK, fdVars, clientVars
  <2>4. Settled'
    BY <1>1, <1>2 DEF OnResponse, Answer, RunClosure, NoClosure, CallInv, TypeOK, Settled,
       fdVars, clientVars, Responses
  <2>5. Explained'
    BY <1>1, <1>2 DEF OnResponse, Answer, CallInv, TypeOK, Explained, fdVars, clientVars
  <2> QED
    BY <2>3, <2>4, <2>5 DEF CallInv
<1>3. CASE NoClosure /\ UNCHANGED <<timerCancel, error, answered>>
  BY <1>1, <1>3 DEF OnResponse, NoClosure, CallInv, TypeOK, Settled, Explained, fdVars,
     clientVars
<1> QED
  BY <1>2, <1>3 DEF OnResponse

\* The handlers of the end of the stream, of nothing to read, and of a connection
\* that was closed.
LEMMA ClosedKeeps ==
    ASSUME CallInv, pc = "run", batch # <<>>, batch' = Tail(batch), pc' = pc,
           OnPeerClosed \/ OnNothing \/ OnClosed("IN") \/ OnClosed("OUT")
    PROVE  CallInv'
<1>1. CASE OnPeerClosed
  <2>1. Settled' /\ Explained'
    BY <1>1, TailKeeps DEF OnPeerClosed, NoClosure, CallInv, Settled, Explained, timerVars,
       peerVars
  <2> QED
    BY <1>1, <2>1, TailKeeps DEF OnPeerClosed, NoClosure, CallInv, TypeOK, timerVars, peerVars
<1>2. CASE OnNothing \/ OnClosed("IN") \/ OnClosed("OUT")
  <2>1. UNCHANGED <<fdVars, clientVars, timerVars, error, canceled, answered, peerVars,
                    closureRuns, stopFlag, isLooping>>
    BY <1>2 DEF OnNothing, OnClosed, NoClosure
  <2>2. Settled' /\ Explained'
    BY <2>1, TailKeeps DEF CallInv, Settled, Explained, fdVars, clientVars, timerVars, peerVars
  <2> QED
    BY <2>1, <2>2, TailKeeps DEF CallInv, TypeOK, fdVars, clientVars, timerVars, peerVars
<1> QED
  BY <1>1, <1>2

\* The timeout, whose event is still pending or was cancelled.
LEMMA TimeoutKeeps ==
    ASSUME CallInv, pc = "run", batch # <<>>, OnTimeout, batch' = Tail(batch), pc' = pc
    PROVE  CallInv'
<1>0. batch' \in Seq({"IN", "OUT", "TIMER"})
  BY TailKeeps
<1>1. CASE timer = "pending" /\ ~timerCancel
  <2>1. answered = "no" /\ ~canceled /\ closureRuns = 0
    BY <1>1 DEF CallInv, Settled, TypeOK
  <2>2. canceled' = TRUE /\ error' = "timeout" /\ closureRuns' = closureRuns + 1
        /\ isLooping' \in BOOLEAN /\ stopFlag' \in BOOLEAN
    BY <1>1, ClosureType DEF OnTimeout, StartCancel, SetError, RunClosure
  <2>3. Settled' /\ Explained'
    BY <2>1, <2>2, TailKeeps DEF OnTimeout, CallInv, Settled, Explained, fdVars, clientVars, peerVars
  <2>4. TypeOK'
    <3>1. /\ pc' \in {"start", "check", "run", "poll", "returned", "killed"}
          /\ isLooping' \in BOOLEAN /\ stopFlag' \in BOOLEAN
      BY <2>1, <2>2 DEF CallInv, TypeOK
    <3>2. interest' \in SUBSET {"IN", "OUT"} /\ onOut' \in {"none", "connect", "onWrite"}
      BY <2>1, <2>2 DEF OnTimeout, CallInv, TypeOK, fdVars
    <3>3. /\ state' \in {"NotConnected", "Connected", "Closed"} /\ clientError' \in BOOLEAN
          /\ writeDone' \in BOOLEAN /\ unsent' \in BOOLEAN /\ readDone' \in BOOLEAN
      BY <2>1, <2>2 DEF OnTimeout, CallInv, TypeOK, clientVars
    <3>4. /\ timer' \in {"new", "pending", "gone"} /\ timerCancel' \in BOOLEAN
          /\ expired' \in BOOLEAN
      BY <2>1, <2>2 DEF OnTimeout, CallInv, TypeOK
    <3>5. error' \in Errors /\ canceled' \in BOOLEAN /\ closureRuns' \in Nat
      BY <2>1, <2>2 DEF OnTimeout, CallInv, TypeOK, Errors
    <3>6. /\ request' \in {"none", "delivered", "answered"} /\ inbound' \in Seq(Responses)
          /\ peerClosed' \in BOOLEAN /\ answered' \in {"no"} \cup Responses
      BY <2>1, <2>2 DEF OnTimeout, CallInv, TypeOK, peerVars
    <3> QED
      BY <1>0, <3>1, <3>2, <3>3, <3>4, <3>5, <3>6 DEF CallInv, TypeOK
  <2> QED
    BY <2>3, <2>4 DEF CallInv
<1>2. CASE ~(timer = "pending" /\ ~timerCancel)
  <2>1. UNCHANGED <<canceled, error, closureRuns, stopFlag, isLooping>>
    BY <1>2 DEF OnTimeout, NoClosure
  <2>2. Settled' /\ Explained'
    BY <2>1, TailKeeps DEF OnTimeout, CallInv, Settled, Explained, fdVars, clientVars, peerVars
  <2>3. TypeOK'
    <3>1. /\ pc' \in {"start", "check", "run", "poll", "returned", "killed"}
          /\ isLooping' \in BOOLEAN /\ stopFlag' \in BOOLEAN
      BY <2>1 DEF CallInv, TypeOK
    <3>2. interest' \in SUBSET {"IN", "OUT"} /\ onOut' \in {"none", "connect", "onWrite"}
      BY <2>1 DEF OnTimeout, CallInv, TypeOK, fdVars
    <3>3. /\ state' \in {"NotConnected", "Connected", "Closed"} /\ clientError' \in BOOLEAN
          /\ writeDone' \in BOOLEAN /\ unsent' \in BOOLEAN /\ readDone' \in BOOLEAN
      BY <2>1 DEF OnTimeout, CallInv, TypeOK, clientVars
    <3>4. /\ timer' \in {"new", "pending", "gone"} /\ timerCancel' \in BOOLEAN
          /\ expired' \in BOOLEAN
      BY <2>1 DEF OnTimeout, CallInv, TypeOK
    <3>5. error' \in Errors /\ canceled' \in BOOLEAN /\ closureRuns' \in Nat
      BY <2>1 DEF OnTimeout, CallInv, TypeOK, Errors
    <3>6. /\ request' \in {"none", "delivered", "answered"} /\ inbound' \in Seq(Responses)
          /\ peerClosed' \in BOOLEAN /\ answered' \in {"no"} \cup Responses
      BY <2>1 DEF OnTimeout, CallInv, TypeOK, peerVars
    <3> QED
      BY <1>0, <3>1, <3>2, <3>3, <3>4, <3>5, <3>6 DEF CallInv, TypeOK
  <2> QED
    BY <2>2, <2>3 DEF CallInv
<1> QED
  BY <1>1, <1>2

\* Every step of the call, its loop and its peer keeps the invariant.
LEMMA CallInvInductive == CallInv /\ [Next]_vars => CallInv'
<1> SUFFICES ASSUME CallInv, [Next]_vars PROVE CallInv'
  OBVIOUS
<1>1. CASE CallMethod \/ CallRefused
  BY <1>1, CallKeeps, RefusedKeeps
<1>2. CASE Run
  BY <1>2, ConnectKeeps, WriteKeeps, ResponseKeeps, ClosedKeeps, TimeoutKeeps DEF Run, Handle
<1>3. CASE Check \/ RunDone \/ Killed
  <2>1. /\ pc' \in {"run", "returned", "poll", "killed"}
        /\ pc' = "poll" => batch = <<>>
        /\ UNCHANGED <<isLooping, stopFlag, batch, fdVars, clientVars, timerVars, callVars,
                       peerVars>>
    BY <1>3 DEF Check, RunDone, Killed
  <2>2. Settled' /\ Explained'
    BY <2>1 DEF CallInv, Settled, Explained, fdVars, clientVars, timerVars, callVars, peerVars
  <2> QED
    BY <2>1, <2>2 DEF CallInv, TypeOK, fdVars, clientVars, timerVars, callVars, peerVars
<1>4. CASE Poll
  <2>1. batch = <<>>
    BY <1>4 DEF Poll, CallInv, Explained
  <2>2. PICK io \in Orders, early \in BOOLEAN :
            /\ \A i \in DOMAIN io : io[i] \in interest
            /\ batch' = IF ~expired THEN io
                        ELSE IF early THEN <<"TIMER">> \o io ELSE io \o <<"TIMER">>
    BY <1>4 DEF Poll
  <2>3. /\ batch' \in Seq({"IN", "OUT", "TIMER"})
        /\ \A i, j \in DOMAIN batch' : batch'[i] = batch'[j] => i = j
        /\ "OUT" \notin interest => \A i \in DOMAIN batch' : batch'[i] # "OUT"
    <3>1. /\ io \in Seq({"IN", "OUT"}) /\ Len(io) <= 2
          /\ \A i, j \in DOMAIN io : io[i] = io[j] => i = j
          /\ "OUT" \notin interest => \A i \in DOMAIN io : io[i] # "OUT"
      <4>0. CASE io = <<>>
        <5>1. Len(io) = 0 /\ DOMAIN io = {} /\ io \in Seq({"IN", "OUT"})
          BY <4>0
        <5> QED
          BY <5>1
      <4>1. CASE io = <<"IN">>
        <5>1. Len(io) = 1 /\ io[1] = "IN" /\ DOMAIN io = {1} /\ io \in Seq({"IN", "OUT"})
          BY <4>1
        <5> QED
          BY <5>1
      <4>2. CASE io = <<"OUT">>
        <5>1. Len(io) = 1 /\ io[1] = "OUT" /\ DOMAIN io = {1} /\ io \in Seq({"IN", "OUT"})
          BY <4>2
        <5>2. "OUT" \in interest
          BY <2>2, <5>1
        <5> QED
          BY <5>1, <5>2
      <4>3. CASE io = <<"IN", "OUT">>
        <5>1. io[2] = "OUT" /\ 2 \in DOMAIN io
          BY <4>3
        <5>2. "OUT" \in interest
          BY <2>2, <5>1
        <5>3. Len(io) = 2 /\ io[1] = "IN" /\ DOMAIN io = {1, 2}
          BY <4>3
        <5>4. io \in Seq({"IN", "OUT"})
          BY <4>3
        <5>5. \A i, j \in DOMAIN io : io[i] = io[j] => i = j
          BY <5>1, <5>3
        <5> QED
          BY <5>2, <5>3, <5>4, <5>5
      <4> QED
        BY <4>0, <4>1, <4>2, <4>3 DEF Orders
    <3>2. CASE batch' = io
      BY <3>1, <3>2
    <3>3. CASE batch' = <<"TIMER">> \o io
      BY <3>1, <3>3
    <3>4. CASE batch' = io \o <<"TIMER">>
      BY <3>1, <3>4
    <3> QED
      BY <2>2, <3>2, <3>3, <3>4
  <2>4. Settled' /\ Explained'
    BY <1>4, <2>3 DEF Poll, CallInv, Settled, Explained, fdVars, clientVars, timerVars,
       callVars, peerVars
  <2> QED
    BY <1>4, <2>3, <2>4 DEF Poll, CallInv, TypeOK, fdVars, clientVars, timerVars, callVars,
       peerVars
<1>5. CASE Expire
  BY <1>5 DEF Expire, CallInv, TypeOK, Settled, Explained, loopVars, fdVars, clientVars,
     callVars, peerVars
<1>6. CASE PeerAnswers
  BY <1>6 DEF PeerAnswers, CallInv, TypeOK, Settled, Explained, loopVars, fdVars, clientVars,
     timerVars, callVars
<1>7. CASE PeerCloses
  BY <1>7 DEF PeerCloses, CallInv, TypeOK, Settled, Explained, loopVars, fdVars, clientVars,
     timerVars, callVars
<1>8. CASE UNCHANGED vars
  BY <1>8 DEF vars, CallInv, TypeOK, Settled, Explained, loopVars, fdVars, clientVars,
     timerVars, callVars, peerVars
<1> QED
  BY <1>1, <1>2, <1>3, <1>4, <1>5, <1>6, <1>7, <1>8 DEF Next, Loop, Ended

\* The invariant holds in every state of every call.
LEMMA CallInvariant == Spec => []CallInv
BY CallInit, CallInvInductive, PTL DEF Spec

\* Every variable of the call, its loop, its connection and its peer has its type.
THEOREM CallTypeCorrect == Spec => []TypeOK
<1>1. CallInv => TypeOK
  BY DEF CallInv
<1> QED
  BY <1>1, CallInvariant, PTL

\* The closure passed to CallMethod runs at most once, whichever of the timeout
\* and the response come first, and if both are handled in one batch.
THEOREM ClosureRunsOnce == Spec => []ClosureAtMostOnce
<1>1. CallInv => ClosureAtMostOnce
  BY DEF CallInv, Settled, ClosureAtMostOnce
<1> QED
  BY <1>1, CallInvariant, PTL

\* A call whose response was handled first never times out afterwards.
THEOREM AnswerIsFinal == Spec => []AnswerSettles
<1>1. CallInv => AnswerSettles
  BY DEF CallInv, Settled, AnswerSettles
<1> QED
  BY <1>1, CallInvariant, PTL

\* The closure is told of the timeout by its code, even after a failed
\* connection; and with an answer in time no code was set before.
THEOREM ClosureToldTruly == Spec => ClosureIsTold
<1>1. CallInv /\ [Next]_vars =>
          [closureRuns' # closureRuns =>
              IF canceled' THEN error' = "timeout" ELSE error' \in {"none", "garbage"}]_vars
  <2> SUFFICES ASSUME CallInv, Next, closureRuns' # closureRuns
               PROVE  IF canceled' THEN error' = "timeout" ELSE error' \in {"none", "garbage"}
    BY DEF vars, callVars
  <2>1. Run /\ (OnResponse \/ OnTimeout)
    BY DEF Next, Loop, Check, Run, RunDone, Killed, Poll, Expire, PeerAnswers, PeerCloses,
       Ended, CallMethod, CallRefused, Handle, OnConnect, OnWrite, OnClosed, OnPeerClosed,
       OnNothing, NoClosure, vars, callVars
  <2>2. CASE OnResponse
    <3>1. Answer(Head(inbound)) /\ Head(inbound) = "good" /\ ~canceled
      BY <2>2 DEF OnResponse, Answer, NoClosure
    <3>2. /\ canceled' = canceled /\ error' = error /\ answered = "no"
          /\ state = "Connected" /\ inbound # <<>>
      BY <2>2, <3>1 DEF OnResponse, Answer, CallInv, Settled
    <3>3. error \in {"none", "garbage"}
      BY <3>1, <3>2 DEF CallInv, TypeOK, Explained, Errors
    <3> QED
      BY <3>1, <3>2, <3>3
  <2>3. CASE OnTimeout
    BY <2>3 DEF OnTimeout, StartCancel, SetError, NoClosure
  <2> QED
    BY <2>1, <2>2, <2>3
<1> QED
  BY <1>1, CallInvariant, PTL DEF Spec, ClosureIsTold
=============================================================================
