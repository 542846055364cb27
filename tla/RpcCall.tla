------------------------------ MODULE RpcCall ------------------------------
(***************************************************************************)
(* net/rpc/rpc_channel.cc and net/tcp/tcp_client.cc: one RPC call of a     *)
(* client, from CallMethod to the closure, in the thread that runs the     *)
(* client's event loop; the timeout event, the connection's callbacks and  *)
(* the response race through the batches of that loop.                     *)
(*                                                                         *)
(* The loop is the one of EventLoop with a single thread: a batch holds    *)
(* the handlers of one epoll_wait in the order it reported the fds, and a  *)
(* stop takes effect after the next epoll_wait.  The server is a           *)
(* nondeterministic peer that answers a request at most once.              *)
(***************************************************************************)
EXTENDS Naturals, Sequences

VARIABLES
    pc,          \* "start", "check", "run" or "poll" in loop(), "returned", "killed"
    isLooping,   \* m_is_looping: CallMethod may itself run in a handler
    stopFlag,    \* m_stop_flag
    batch,       \* handlers still to be run: "IN", "OUT", "TIMER"
    interest,    \* the events of the connection's fd that epoll reports
    onOut,       \* m_write_callback: onConnect's lambda or onWrite
    state,       \* TcpConnection::m_state
    clientError, \* TcpClient::m_error_code is set
    writeDone,   \* the request is in m_write_dones, not yet encoded
    unsent,      \* m_out_buffer holds bytes of it that were not written
    readDone,    \* m_read_dones has the response callback
    timer,       \* the timeout event: "new", "pending", "gone"
    timerCancel, \* its m_is_cancel
    expired,     \* the timerfd has expired
    error,       \* RpcController::m_error_code
    canceled,    \* RpcController::m_is_canceled
    closureRuns, \* how often the closure was run
    \* the peer:
    request,     \* "none", "delivered", "answered"
    inbound,     \* the responses in the socket
    peerClosed,
    \* history, read by the properties only:
    answered     \* the response callback ran first: "no", or what it found

loopVars   == <<pc, isLooping, stopFlag, batch>>
fdVars     == <<interest, onOut>>
clientVars == <<state, clientError, writeDone, unsent, readDone>>
timerVars  == <<timer, timerCancel, expired>>
callVars   == <<error, canceled, closureRuns, answered>>
peerVars   == <<request, inbound, peerClosed>>
vars == <<loopVars, fdVars, clientVars, timerVars, callVars, peerVars>>

Responses == {"good", "failed", "garbled", "other"}

\* "none" is code 0; "garbage" is what an uninitialised m_error_code may hold.
Errors == {"none", "garbage", "init", "serialize", "timeout", "connect", "failed", "garbled"}
-----------------------------------------------------------------------------
(* TcpClient and RpcController *)

SetError(e)   == error' = e
StartCancel   == canceled' = TRUE
AddTimerEvent == timer' = "pending"

Stop ==
    IF isLooping THEN stopFlag' = TRUE /\ isLooping' = FALSE
                 ELSE UNCHANGED <<stopFlag, isLooping>>

\* The request is queued and the connection listens for writability.
WriteMessage == writeDone' = TRUE /\ interest' = {"OUT"} /\ onOut' = "onWrite"

\* The response callback is kept and the connection listens for readability:
\* what it listens to besides `others'.
ReadMessage(others) == readDone' = TRUE /\ interest' = others \cup {"IN"}

\* Closure::Run(): the user's callback, which may stop the client.
RunClosure ==
    /\ closureRuns' = closureRuns + 1
    /\ Stop \/ UNCHANGED <<stopFlag, isLooping>>

NoClosure == UNCHANGED <<closureRuns, stopFlag, isLooping>>

\* The lambda given to onConnect, for a connection that succeeded ...
Connected ==
    /\ state' = "Connected"
    /\ WriteMessage
    /\ UNCHANGED <<clientError, unsent, readDone, error>>

\* (mutant of ConnectFailed: errno is stored where an error code belongs)
ConnectErrno ==
    /\ clientError' = TRUE
    /\ error' = "errno"
    /\ interest' = {}
    /\ UNCHANGED <<onOut, state, writeDone, unsent, readDone>>

\* ... and for one that failed: the error is set, and nothing else happens.
ConnectFailed ==
    /\ clientError' = TRUE
    /\ SetError("connect")
    /\ interest' = {}
    /\ UNCHANGED <<onOut, state, writeDone, unsent, readDone>>

\* Whether a loop is running that CallMethod returns to.  m_is_looping is also
\* left set by a loop() that returned at once, the stop flag being never reset.
LoopRuns == {b \in BOOLEAN : (b => isLooping) /\ (~b => ~isLooping \/ stopFlag)}
Resumes  == {IF b THEN "run" ELSE "returned" : b \in LoopRuns}

\* CallMethod with an argument that is NULL, without Init, or with a request
\* that cannot be serialised.  (The error for a NULL controller is set on it.)
CallRefused ==
    /\ pc = "start"
    /\ \/ pc' \in Resumes /\ (SetError("init") \/ SetError("serialize"))
       \/ pc' = "killed" /\ UNCHANGED error
    /\ UNCHANGED <<isLooping, stopFlag, batch, fdVars, clientVars, timerVars, canceled,
                   closureRuns, answered, peerVars>>

\* CallMethod: the timeout event is added, then connect() is called.  Only a
\* connection in progress starts the loop, unless it is running already.
CallMethod ==
    /\ pc = "start"
    /\ AddTimerEvent
    /\ \/ /\ Connected \/ ConnectFailed
          /\ pc' \in Resumes
          /\ UNCHANGED isLooping
       \/ /\ interest' = {"OUT"} /\ onOut' = "connect"       \* EINPROGRESS
          /\ pc' \in IF isLooping THEN Resumes ELSE {"check"}
          /\ isLooping' = TRUE
          /\ UNCHANGED <<clientVars, error>>
    /\ UNCHANGED <<stopFlag, batch, timerCancel, expired, canceled, closureRuns,
                   answered, peerVars>>
-----------------------------------------------------------------------------
(* The handlers *)

\* onConnect's lambda calls connect() again for the result.  The fd is deleted
\* from epoll either way.
OnConnect ==
    /\ onOut = "connect"
    /\ Connected \/ ConnectFailed
    /\ NoClosure
    /\ UNCHANGED <<timerVars, canceled, answered, peerVars>>

\* TcpConnection::onWrite of a client: the request is encoded and written; the
\* success callback runs even if the socket was full, and listens for the
\* response.
OnWrite ==
    /\ onOut = "onWrite" /\ state = "Connected"
    /\ writeDone' = FALSE
    /\ \E others \in {interest \ {"OUT"}, interest} :
          /\ IF writeDone THEN ReadMessage(others) ELSE interest' = others /\ UNCHANGED readDone
          /\ IF "OUT" \notin others                           \* all written
             THEN /\ unsent' = FALSE
                  /\ request' = IF writeDone \/ unsent THEN "delivered" ELSE request
             ELSE /\ writeDone \/ unsent                      \* EAGAIN
                  /\ unsent' = TRUE
                  /\ UNCHANGED request
    /\ NoClosure
    /\ UNCHANGED <<onOut, state, clientError, timerVars, error, canceled, answered,
                   inbound, peerClosed>>

\* Neither onRead nor onWrite does anything on a connection that was closed.
OnClosed(k) ==
    /\ state # "Connected" /\ (k = "OUT" => onOut = "onWrite")
    /\ NoClosure
    /\ UNCHANGED <<fdVars, clientVars, timerVars, error, canceled, answered, peerVars>>

\* Mutants of Answer: the timeout event stays; a call that timed out is not
\* told apart.
AnswerKeepTimer(r) ==
    /\ error' = IF r \in {"failed", "garbled"} THEN r ELSE error
    /\ answered' = IF canceled THEN answered ELSE r
    /\ IF r = "good" /\ ~canceled THEN RunClosure ELSE NoClosure
    /\ UNCHANGED timerCancel
AnswerLate(r) ==
    /\ timerCancel' = TRUE
    /\ error' = IF r \in {"failed", "garbled"} THEN r ELSE error
    /\ answered' = IF canceled THEN answered ELSE r
    /\ IF r = "good" THEN RunClosure ELSE NoClosure

\* The response callback: it cancels the timeout event, returns early when the
\* response cannot be parsed or carries an error code, and runs the closure of
\* a call that has not timed out.
Answer(r) ==
    /\ timerCancel' = TRUE
    /\ error' = IF r \in {"failed", "garbled"} THEN r ELSE error
    /\ answered' = IF canceled THEN answered ELSE r
    /\ IF r = "good" /\ ~canceled THEN RunClosure ELSE NoClosure

\* onRead of a client with a response in the socket: it is decoded and its
\* callback looked up by message id.  (A response that fills the read buffer
\* is lost: see TcpBuffer.)
OnResponse ==
    /\ state = "Connected" /\ inbound # <<>>
    /\ inbound' = <<>>
    /\ \/ readDone /\ Head(inbound) # "other" /\ Answer(Head(inbound))
       \/ NoClosure /\ UNCHANGED <<timerCancel, error, answered>>
    /\ UNCHANGED <<fdVars, clientVars, timer, expired, canceled, request, peerClosed>>

\* onRead at the end of the stream: TcpConnection::clear().
OnPeerClosed ==
    /\ state = "Connected" /\ inbound = <<>> /\ peerClosed
    /\ interest' = {}
    /\ state' = "Closed"
    /\ NoClosure
    /\ UNCHANGED <<onOut, clientError, writeDone, unsent, readDone, timerVars, error,
                   canceled, answered, peerVars>>

\* onRead with nothing to read: EAGAIN.
OnNothing ==
    /\ state = "Connected" /\ inbound = <<>> /\ ~peerClosed
    /\ NoClosure
    /\ UNCHANGED <<fdVars, clientVars, timerVars, error, canceled, answered, peerVars>>

\* Mutant of OnTimeout: the call is cancelled without its closure.
TimeoutSilently ==
    /\ expired' = FALSE
    /\ timer' = "gone"
    /\ IF timer = "pending" /\ ~timerCancel
       THEN StartCancel /\ SetError("timeout") ELSE UNCHANGED <<canceled, error>>
    /\ NoClosure
    /\ UNCHANGED <<fdVars, clientVars, timerCancel, answered, peerVars>>

\* (mutant: the error is not set)
TimeoutUntold ==
    /\ expired' = FALSE
    /\ timer' = "gone"
    /\ IF timer = "pending" /\ ~timerCancel
       THEN StartCancel /\ RunClosure ELSE NoClosure /\ UNCHANGED canceled
    /\ UNCHANGED <<fdVars, clientVars, timerCancel, error, answered, peerVars>>

\* Timer::onTimer with the timeout event due, and its callback.
OnTimeout ==
    /\ expired' = FALSE
    /\ timer' = "gone"
    /\ IF timer = "pending" /\ ~timerCancel
       THEN StartCancel /\ SetError("timeout") /\ RunClosure
       ELSE NoClosure /\ UNCHANGED <<canceled, error>>
    /\ UNCHANGED <<fdVars, clientVars, timerCancel, answered, peerVars>>

Handle(h) ==
    \/ h = "OUT" /\ (OnConnect \/ OnWrite \/ OnClosed("OUT"))
    \/ h = "IN" /\ (OnResponse \/ OnPeerClosed \/ OnNothing \/ OnClosed("IN"))
    \/ h = "TIMER" /\ OnTimeout
-----------------------------------------------------------------------------
(* EventLoop::loop() *)

Check ==
    /\ pc = "check"
    /\ pc' = IF stopFlag THEN "returned" ELSE "run"
    /\ UNCHANGED <<isLooping, stopFlag, batch, fdVars, clientVars, timerVars, callVars,
                   peerVars>>

Run ==
    /\ pc = "run" /\ batch # <<>>
    /\ Handle(Head(batch))
    /\ batch' = Tail(batch)
    /\ UNCHANGED pc

RunDone ==
    /\ pc = "run" /\ batch = <<>>
    /\ pc' = "poll"
    /\ UNCHANGED <<isLooping, stopFlag, batch, fdVars, clientVars, timerVars, callVars,
                   peerVars>>

\* A write to a connection the peer has reset raises SIGPIPE.
Killed ==
    /\ pc = "run" /\ batch # <<>> /\ Head(batch) = "OUT"
    /\ onOut = "onWrite" /\ state = "Connected" /\ peerClosed /\ (writeDone \/ unsent)
    /\ pc' = "killed"
    /\ UNCHANGED <<isLooping, stopFlag, batch, fdVars, clientVars, timerVars, callVars,
                   peerVars>>

\* IN comes before OUT; the timerfd may be reported before or after the socket.
Orders == {<<>>, <<"IN">>, <<"OUT">>, <<"IN", "OUT">>}

\* epoll_wait: what is readable or expired is reported, what may be writable may.
Poll ==
    /\ pc = "poll"
    /\ \E io \in Orders, early \in BOOLEAN :
          /\ \A i \in DOMAIN io : io[i] \in interest
          /\ ("IN" \in interest /\ (inbound # <<>> \/ peerClosed)) =>
                io \in {<<"IN">>, <<"IN", "OUT">>}
          /\ io \in {<<"IN">>, <<"IN", "OUT">>} => inbound # <<>> \/ peerClosed
          /\ batch' = IF ~expired THEN io
                      ELSE IF early THEN <<"TIMER">> \o io ELSE io \o <<"TIMER">>
    /\ pc' = "check"
    /\ UNCHANGED <<isLooping, stopFlag, fdVars, clientVars, timerVars, callVars, peerVars>>

\* The timeout passes.
Expire ==
    /\ timer = "pending" /\ ~expired
    /\ expired' = TRUE
    /\ UNCHANGED <<loopVars, fdVars, clientVars, timer, timerCancel, callVars, peerVars>>
-----------------------------------------------------------------------------
(* The peer *)

PeerAnswers ==
    /\ request = "delivered" /\ ~peerClosed
    /\ request' = "answered"
    /\ \E r \in Responses : inbound' = <<r>>
    /\ UNCHANGED <<loopVars, fdVars, clientVars, timerVars, callVars, peerClosed>>

PeerCloses ==
    /\ state = "Connected" /\ ~peerClosed
    /\ peerClosed' = TRUE
    /\ UNCHANGED <<loopVars, fdVars, clientVars, timerVars, callVars, request, inbound>>
-----------------------------------------------------------------------------
Init ==
    /\ pc = "start" /\ batch = <<>>
    /\ isLooping \in BOOLEAN /\ stopFlag \in BOOLEAN   \* what earlier calls left
    /\ interest = {} /\ onOut = "none"
    /\ state = "NotConnected" /\ clientError = FALSE
    /\ writeDone = FALSE /\ unsent = FALSE /\ readDone = FALSE
    /\ timer = "new" /\ expired = FALSE
    /\ timerCancel \in BOOLEAN             \* TimeEvent::m_is_cancel is not initialised
    /\ error \in {"none", "garbage"}       \* nor RpcController::m_error_code
    /\ canceled = FALSE /\ closureRuns = 0
    /\ request = "none" /\ inbound = <<>> /\ peerClosed = FALSE
    /\ answered = "no"

Loop == Check \/ Run \/ RunDone \/ Killed \/ Poll

Ended == pc \in {"returned", "killed"} /\ UNCHANGED vars

Next == CallMethod \/ CallRefused \/ Loop \/ Expire \/ PeerAnswers \/ PeerCloses \/ Ended

Spec == Init /\ [][Next]_vars

\* The loop's thread is scheduled and time passes.  The peer may be silent for
\* ever, and the socket never writable.
Fairness ==
    WF_vars(CallMethod \/ CallRefused) /\ WF_vars(Loop) /\ WF_vars(Expire)

FairSpec == Spec /\ Fairness
-----------------------------------------------------------------------------
(* Properties *)

\* Every variable has its type.
TypeOK ==
    /\ pc \in {"start", "check", "run", "poll", "returned", "killed"}
    /\ isLooping \in BOOLEAN /\ stopFlag \in BOOLEAN
    /\ batch \in Seq({"IN", "OUT", "TIMER"})
    /\ interest \in SUBSET {"IN", "OUT"} /\ onOut \in {"none", "connect", "onWrite"}
    /\ state \in {"NotConnected", "Connected", "Closed"} /\ clientError \in BOOLEAN
    /\ writeDone \in BOOLEAN /\ unsent \in BOOLEAN /\ readDone \in BOOLEAN
    /\ timer \in {"new", "pending", "gone"} /\ timerCancel \in BOOLEAN /\ expired \in BOOLEAN
    /\ error \in Errors /\ canceled \in BOOLEAN /\ closureRuns \in Nat
    /\ request \in {"none", "delivered", "answered"} /\ inbound \in Seq(Responses)
    /\ peerClosed \in BOOLEAN /\ answered \in {"no"} \cup Responses

\* The closure runs at most once, although the timeout and the response may
\* come in the same batch, in either order.
ClosureAtMostOnce == closureRuns <= 1

\* A response handled before the timeout settles the call: the timeout does
\* not fire afterwards.
AnswerSettles == answered # "no" => ~canceled

\* A call that was accepted and whose loop runs (the connection is in progress)
\* ends with its closure whatever the peer does, unless the response says it
\* failed, the timeout event was cancelled by its uninitialised flag, or
\* SIGPIPE kills the process.  (A loop that was stopped once does not run again:
\* eventloop.cc:139 sets a flag that nobody resets.)
ClosureRuns ==
    pc = "check" /\ timer = "pending" /\ ~stopFlag ~>
        \/ closureRuns > 0 \/ answered \in {"failed", "garbled"} \/ pc = "killed"
        \/ answered = "no" /\ timerCancel

\* What the closure is told, at the step that runs it: a call that timed out
\* has the timeout's code, even if its connection failed first with a code of
\* its own; a call that was answered in time has no code but what the
\* uninitialised field held.
ClosureIsTold ==
    [][closureRuns' # closureRuns =>
          IF canceled' THEN error' = "timeout" ELSE error' \in {"none", "garbage"}]_vars

\* Claimed: the closure is told of a failed call as of a successful one
\* (test_rpc_client.cc.template:34-42), so every response leads to it.
AnswerRunsClosure == answered # "no" ~> closureRuns > 0
=============================================================================
