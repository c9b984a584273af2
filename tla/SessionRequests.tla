-------------------------- MODULE SessionRequests --------------------------
(***************************************************************************)
(* The requests of one client session on their way through the daemon: the *)
(* Connection Manager (CM, src/connection_manager.c), whose event loop     *)
(* passes one request of a session at a time to the Request Processor (RP, *)
(* src/request_processor.c) and keeps the others in a queue of its own;    *)
(* the RP workers; requests that are paused until providers of operational *)
(* data have answered or a timer expires, and requests that another client *)
(* answers (RPC); and the end of the session, by a request of the client   *)
(* or by the loss of its connection.                                       *)
(*                                                                         *)
(* The event loop is one thread: each CM action is one of its callbacks.   *)
(* A worker takes a message, handles it (under cur_req_mutex where the     *)
(* code does), sends the response and only then gives the message back to  *)
(* msg_count.  Every use of the RP session checks that it is allocated; a  *)
(* use after its release sets `broken', and what follows is not described. *)
(***************************************************************************)
EXTENDS Naturals, Sequences, FiniteSets

CONSTANTS
    Thread,      \* RP worker threads
    Kind,        \* what the requests of the client are, in their order
    MaxProvider, \* data providers that a request may have to wait for
    Vanishes     \* whether the client may be gone before the CM notices

ASSUME RequestsAssumption ==
    /\ Kind \in Seq({"plain", "data", "rpc", "denied"})
    /\ MaxProvider \in Nat
    /\ Vanishes \in BOOLEAN

Req == DOMAIN Kind

\* Answers come from a provider, or again from a provider for nested data.
Provider == 1..2 * MaxProvider

\* Messages: what they are, the request they belong to and the provider.
RpMsg == {"req", "timeout", "rpcresp", "dpresp"} \X Req \X (Provider \union {0})
CmMsg == {"resp", "timer", "rpcreq", "dpreq"} \X Req \X (Provider \union {0})

Idle == <<"none", 0, 0>>

VARIABLES
    sent,          \* requests the client has sent so far
    peer,          \* the client's end of the connection: open, closed, or gone
                   \* before the CM noticed
    cm,            \* the session in the CM and in the Session Manager
    rp,            \* the session in the RP
    request_queue, \* the queue of the RP
    worker,        \* the RP worker threads
    msg_queue,     \* messages from the RP to the CM
    timers,        \* requests with an armed timer
    asked,         \* requests sent to providers and not answered
    answered,      \* responses the client has received
    broken         \* memory of the session was used after its release

vars == <<sent, peer, cm, rp, request_queue, worker, msg_queue, timers, asked,
          answered, broken>>

CmSession == [alive : BOOLEAN, connected : BOOLEAN, rp_req_cnt : Nat,
              rp_resp_expected : Nat, rp_request_queue : Seq(Req),
              stop_requested : BOOLEAN]

RpState == {"new", "waiting", "timed_out", "data_loaded", "finished"}

RpSession == [alive : BOOLEAN, state : RpState, req : Req \union {0},
              dp_req_waiting : Nat, msg_count : Nat, stop_requested : BOOLEAN]

\* The types of the variables.
TypeOK ==
    /\ sent \in 0..Len(Kind)
    /\ peer \in {"open", "closed", "gone"}
    /\ cm \in CmSession
    /\ rp \in RpSession
    /\ request_queue \in Seq(RpMsg)
    /\ worker \in [Thread -> [pc : {"idle", "handle", "respond", "finish"},
                              msg : RpMsg \union {Idle}]]
    /\ msg_queue \in Seq(CmMsg)
    /\ timers \subseteq Req
    /\ asked \subseteq {"dpresp", "rpcresp"} \X Req \X (Provider \union {0})
    /\ answered \in Seq(Req)
    /\ broken \in BOOLEAN

\* cm_session_start_internal and rp_session_start have succeeded.
Init ==
    /\ sent = 0
    /\ peer = "open"
    /\ cm = [alive |-> TRUE, connected |-> TRUE, rp_req_cnt |-> 0,
             rp_resp_expected |-> 0, rp_request_queue |-> <<>>,
             stop_requested |-> FALSE]
    /\ rp = [alive |-> TRUE, state |-> "new", req |-> 0,
             dp_req_waiting |-> 0, msg_count |-> 0, stop_requested |-> FALSE]
    /\ request_queue = <<>>
    /\ worker = [t \in Thread |-> [pc |-> "idle", msg |-> Idle]]
    /\ msg_queue = <<>>
    /\ timers = {}
    /\ asked = {}
    /\ answered = <<>>
    /\ broken = FALSE

-----------------------------------------------------------------------------
(* The RP session as the CM uses it.                                       *)

\* Fault: the message is not counted.
Uncounted(s) == s

\* rp_msg_process: the message is counted before it is enqueued.
Counted(s) == [s EXCEPT !.msg_count = @ + 1]

\* Fault: the messages that are still unprocessed are not looked at.
FreedAtOnce(s) == [s EXCEPT !.alive = FALSE]

\* rp_session_stop: the session is freed, or left to the worker that processes
\* its last message.
StoppedRp(s) ==
    IF s.msg_count > 0 THEN [s EXCEPT !.stop_requested = TRUE]
                       ELSE [s EXCEPT !.alive = FALSE]

\* sm_session_drop, with cm_session_data_cleanup: the requests that wait in
\* the session's queue are freed with it.
Dropped(s) == [s EXCEPT !.alive = FALSE, !.connected = FALSE,
                        !.rp_request_queue = <<>>]

\* Fault: a request is passed on whatever the RP is doing for the session.
PassedAlways(s) == TRUE

\* The RP has no request of the session.
MayPass(s) == s.rp_req_cnt = 0

\* cm_req_process.
CmRequest ==
    /\ ~broken
    /\ peer = "open" /\ cm.alive /\ cm.connected /\ ~cm.stop_requested
    /\ sent < Len(Kind)
    /\ sent' = sent + 1
    /\ IF MayPass(cm)
       THEN /\ cm' = [cm EXCEPT !.rp_req_cnt = @ + 1]
            /\ rp' = Counted(rp)
            /\ request_queue' = Append(request_queue, <<"req", sent', 0>>)
            /\ broken' = ~rp.alive
       ELSE /\ cm' = [cm EXCEPT !.rp_request_queue = Append(@, sent')]
            /\ UNCHANGED <<rp, request_queue, broken>>
    /\ UNCHANGED <<peer, worker, msg_queue, timers, asked, answered>>

\* cm_conn_close, for a session that is on the connection's list.
Closed ==
    IF cm.rp_req_cnt > 0
    THEN /\ cm' = [cm EXCEPT !.stop_requested = TRUE, !.connected = FALSE]
         /\ UNCHANGED <<rp, broken>>
    ELSE /\ rp' = StoppedRp(rp)
         /\ cm' = Dropped(cm)
         /\ broken' = ~rp.alive

\* cm_session_stop_req_process.  The response is written between the stop in
\* the RP and the drop in the Session Manager; if the client is gone, the
\* write error closes the connection, which stops and drops the session too.
CmSessionStop ==
    /\ ~broken
    /\ cm.alive /\ cm.connected /\ ~cm.stop_requested
    /\ IF cm.rp_req_cnt > 0
       THEN /\ cm' = [cm EXCEPT !.stop_requested = TRUE, !.connected = peer = "open"]
            /\ UNCHANGED <<rp, broken>>
       ELSE /\ rp' = StoppedRp(rp)
            /\ cm' = Dropped(cm)
            /\ broken' = (~rp.alive \/ peer # "open")
    /\ UNCHANGED <<sent, peer, request_queue, worker, msg_queue, timers,
                   asked, answered>>

\* The client is gone, and cm_conn_read_cb finds out at once ...
CmDisconnect ==
    /\ ~broken
    /\ cm.alive /\ cm.connected
    /\ Closed
    /\ peer' = IF peer = "open" THEN "closed" ELSE peer
    /\ UNCHANGED <<sent, request_queue, worker, msg_queue, timers, asked,
                   answered>>

\* ... or later.
ClientVanishes ==
    /\ ~broken
    /\ Vanishes
    /\ peer = "open"
    /\ peer' = "gone"
    /\ UNCHANGED <<sent, cm, rp, request_queue, worker, msg_queue, timers,
                   asked, answered, broken>>

-----------------------------------------------------------------------------
(* Messages from the RP: cm_msg_enqueue_cb.                                *)

\* Fault: a stop that had to wait for the last response is forgotten.
StopForgotten(s) == FALSE

\* The session was stopped while the RP had a request of it.
StopPending(s) == s.stop_requested

\* The end of cm_out_msg_process: the last response stops the session if that
\* was asked for, and otherwise passes on the next request of the queue.
AfterResponse(s) ==
    IF s.rp_req_cnt = 0 /\ StopPending(s)
    THEN /\ rp' = StoppedRp(rp)
         /\ cm' = Dropped(s)
         /\ broken' = ~rp.alive
         /\ UNCHANGED request_queue
    ELSE IF s.rp_req_cnt = 0 /\ s.rp_request_queue # <<>>
    THEN /\ rp' = Counted(rp)
         /\ cm' = [s EXCEPT !.rp_req_cnt = 1, !.rp_request_queue = Tail(@)]
         /\ broken' = ~rp.alive
         /\ request_queue' = Append(request_queue,
                                <<"req", Head(s.rp_request_queue), 0>>)
    ELSE /\ cm' = s
         /\ UNCHANGED <<rp, request_queue, broken>>

\* cm_out_msg_process.  A client that is gone makes the write fail, which
\* closes the connection; with no request left in the RP that releases the
\* session, and the rest of the function works on released memory.
CmResponse(r) ==
    LET s == [cm EXCEPT !.rp_req_cnt = IF @ > 0 THEN @ - 1 ELSE 0] IN
    IF ~s.stop_requested /\ peer # "open"
    THEN /\ rp' = StoppedRp(rp)
         /\ cm' = Dropped(s)
         /\ broken' = TRUE
         /\ UNCHANGED <<request_queue, answered>>
    ELSE /\ AfterResponse(s)
         /\ answered' = IF s.stop_requested THEN answered
                                            ELSE Append(answered, r)

\* A message of a session that is gone is dropped.  A timer is scheduled; a
\* request to a provider is sent, and an answer to it expected.
CmMessage ==
    /\ ~broken
    /\ msg_queue # <<>>
    /\ msg_queue' = Tail(msg_queue)
    /\ LET m == Head(msg_queue) IN
       \/ /\ ~cm.alive
          /\ UNCHANGED <<cm, rp, request_queue, timers, asked, answered,
                         broken>>
       \/ /\ cm.alive /\ m[1] = "resp"
          /\ CmResponse(m[2])
          /\ UNCHANGED <<timers, asked>>
       \/ /\ cm.alive /\ m[1] = "timer"
          /\ timers' = timers \union {m[2]}
          /\ UNCHANGED <<cm, rp, request_queue, asked, answered, broken>>
       \/ /\ cm.alive /\ m[1] \in {"dpreq", "rpcreq"}
          /\ cm' = [cm EXCEPT !.rp_resp_expected = @ + 1]
          /\ asked' = asked \union
                {<<IF m[1] = "dpreq" THEN "dpresp" ELSE "rpcresp", m[2], m[3]>>}
          /\ UNCHANGED <<rp, request_queue, timers, answered, broken>>
    /\ UNCHANGED <<sent, peer, worker>>

\* cm_delayed_request_cb.
CmTimer(r) ==
    /\ ~broken
    /\ r \in timers
    /\ timers' = timers \ {r}
    /\ IF cm.alive
       THEN /\ rp' = Counted(rp)
            /\ request_queue' = Append(request_queue, <<"timeout", r, 0>>)
            /\ broken' = ~rp.alive
       ELSE UNCHANGED <<rp, request_queue, broken>>
    /\ UNCHANGED <<sent, peer, cm, worker, msg_queue, asked, answered>>

\* cm_resp_process: a provider answers, perhaps long after the timer expired.
CmAnswer(a) ==
    /\ ~broken
    /\ a \in asked
    /\ asked' = asked \ {a}
    /\ IF cm.alive /\ cm.rp_resp_expected > 0
       THEN /\ cm' = [cm EXCEPT !.rp_resp_expected = @ - 1]
            /\ rp' = Counted(rp)
            /\ request_queue' = Append(request_queue, a)
            /\ broken' = ~rp.alive
       ELSE UNCHANGED <<cm, rp, request_queue, broken>>
    /\ UNCHANGED <<sent, peer, worker, msg_queue, timers, answered>>

-----------------------------------------------------------------------------
(* A worker of the RP handles a message of the session.                    *)

Take(t) ==
    /\ ~broken
    /\ worker[t].pc = "idle"
    /\ request_queue # <<>>
    /\ worker' = [worker EXCEPT
                    ![t] = [pc |-> "handle", msg |-> Head(request_queue)]]
    /\ request_queue' = Tail(request_queue)
    /\ UNCHANGED <<sent, peer, cm, rp, msg_queue, timers, asked, answered,
                   broken>>

Handles(t, kind) ==
    ~broken /\ worker[t].pc = "handle" /\ worker[t].msg[1] = kind

Goto(t, step) ==
    /\ worker' = [worker EXCEPT ![t].pc = step]
    /\ broken' = ~rp.alive
    /\ UNCHANGED <<sent, peer, cm, timers, asked, answered>>

\* Requests that a worker answers itself.
HandlePlain(t) ==
    /\ Handles(t, "req")
    /\ Kind[worker[t].msg[2]] = "plain"
    /\ Goto(t, "respond")
    /\ UNCHANGED <<rp, request_queue, msg_queue>>

\* rp_msg_dispatch frees a request that its session may not issue.
HandleDenied(t) ==
    /\ Handles(t, "req")
    /\ Kind[worker[t].msg[2]] = "denied"
    /\ Goto(t, "finish")
    /\ UNCHANGED <<rp, request_queue, msg_queue>>

\* rp_rpc_resp_process.  An answer whose validation would need data of providers is
\* refused: np_data_provider_request fails for a session without a request.
HandleRpcAnswer(t) ==
    /\ Handles(t, "rpcresp")
    /\ Goto(t, "respond")
    /\ UNCHANGED <<rp, request_queue, msg_queue>>

\* rp_handle_get_call_state.
CallState(state) ==
    CASE state = "finished" -> "new"
      [] state = "timed_out" -> "data_loaded"
      [] OTHER -> state

\* Fault: nothing limits the time that a request is paused.
TimerForgotten(r, n) == [p \in 1..n |-> <<"dpreq", r, p>>]

\* What a request that has to wait for n providers sends.
Asks(r, n) == [p \in 1..n |-> <<"dpreq", r, p>>] \o <<<<"timer", r, 0>>>>

\* rp_dt_prepare_data: a new request that needs n providers is paused ...
Paused(t, r, n) ==
    /\ rp' = [rp EXCEPT !.state = "waiting", !.req = r, !.dp_req_waiting = n]
    /\ msg_queue' = msg_queue \o Asks(r, n)
    /\ Goto(t, "finish")

\* ... and a paused one, enqueued again, is not paused a second time.
MustWait(n) == CallState(rp.state) = "new" /\ n > 0

\* rp_get_item_req_process and its like.
HandleData(t) ==
    LET r == worker[t].msg[2] IN
    /\ Handles(t, "req")
    /\ Kind[r] = "data"
    /\ \E n \in 0..MaxProvider :
          IF MustWait(n)
          THEN Paused(t, r, n)
          ELSE /\ rp' = [rp EXCEPT !.state = "finished", !.req = r]
               /\ Goto(t, "respond")
               /\ UNCHANGED msg_queue
    /\ UNCHANGED request_queue

\* rp_rpc_req_process: the validation of the input may need state data too; then
\* the request is refused, or forwarded to its subscriber.  Nothing finishes the
\* state of the session: data loaded for an RPC stay loaded.
HandleRpc(t) ==
    LET r == worker[t].msg[2] IN
    /\ Handles(t, "req")
    /\ Kind[r] = "rpc"
    /\ \E n \in 0..MaxProvider :
          IF MustWait(n)
          THEN Paused(t, r, n)
          ELSE /\ rp' = [rp EXCEPT !.state = CallState(@), !.req = 0]
               /\ \/ Goto(t, "respond") /\ UNCHANGED msg_queue
                  \/ /\ Goto(t, "finish")
                     /\ msg_queue' = Append(msg_queue, <<"rpcreq", r, 0>>)
    /\ UNCHANGED request_queue

\* The session waits for data of this request.
WaitsFor(r) == rp.state = "waiting" /\ rp.req = r

\* rp_data_provide_resp_process and rp_internal_state_data_req_process: an
\* answer may make the session ask for nested data, and the last answer
\* enqueues the request again.  (The request for internal state data, which the RP
\* sends to itself, takes the way of one that its provider answers at once.)
HandleProviderAnswer(t) ==
    LET r == worker[t].msg[2]
        p == worker[t].msg[3]
    IN
    /\ Handles(t, "dpresp")
    /\ Goto(t, "finish")
    /\ IF ~WaitsFor(r)
       THEN UNCHANGED <<rp, request_queue, msg_queue>>
       ELSE \/ /\ p <= MaxProvider
               /\ msg_queue' = Append(msg_queue,
                                    <<"dpreq", r, p + MaxProvider>>)
               /\ UNCHANGED <<rp, request_queue>>
            \/ /\ rp.dp_req_waiting > 1
               /\ rp' = [rp EXCEPT !.dp_req_waiting = @ - 1]
               /\ UNCHANGED <<request_queue, msg_queue>>
            \/ /\ rp.dp_req_waiting = 1
               /\ rp' = [Counted(rp) EXCEPT !.dp_req_waiting = 0, !.req = 0,
                                            !.state = "data_loaded"]
               /\ request_queue' = Append(request_queue, <<"req", rp.req, 0>>)
               /\ UNCHANGED msg_queue

\* Fault: it is not checked that the session still waits.
TimerAlwaysCounts(r) == rp.req = r

\* The session waits for data of the request that the timer was armed for.
TimesOut(r) == rp.state = "waiting" /\ rp.req = r

\* rp_oper_data_timeout_req_process, which gets cur_req_mutex in time.
HandleTimeout(t) ==
    LET r == worker[t].msg[2] IN
    /\ Handles(t, "timeout")
    /\ Goto(t, "finish")
    /\ UNCHANGED msg_queue
    /\ IF TimesOut(r)
       THEN /\ rp' = [Counted(rp) EXCEPT !.state = "timed_out"]
            /\ request_queue' = Append(request_queue, <<"req", rp.req, 0>>)
       ELSE UNCHANGED <<rp, request_queue>>

\* The response goes to the CM before the message is given back.  (A session
\* that has no session->req loses nothing here.)
Respond(t) ==
    /\ ~broken
    /\ worker[t].pc = "respond"
    /\ Goto(t, "finish")
    /\ rp' = [rp EXCEPT !.req = 0]
    /\ msg_queue' = Append(msg_queue, <<"resp", worker[t].msg[2], 0>>)
    /\ UNCHANGED request_queue

\* The end of rp_worker_thread_execute's turn: the last message of a stopped
\* session releases it (rp_session_cleanup).
Finish(t) ==
    /\ ~broken
    /\ worker[t].pc = "finish"
    /\ worker' = [worker EXCEPT ![t] = [pc |-> "idle", msg |-> Idle]]
    /\ rp' = [rp EXCEPT !.msg_count = @ - 1,
                        !.alive = ~(rp.msg_count = 1 /\ rp.stop_requested)]
    /\ broken' = ~rp.alive
    /\ UNCHANGED <<sent, peer, cm, request_queue, msg_queue, timers, asked,
                   answered>>

-----------------------------------------------------------------------------
WorkerStep(t) ==
    \/ Take(t)
    \/ HandlePlain(t)
    \/ HandleDenied(t)
    \/ HandleRpc(t)
    \/ HandleRpcAnswer(t)
    \/ HandleData(t)
    \/ HandleProviderAnswer(t)
    \/ HandleTimeout(t)
    \/ Respond(t)
    \/ Finish(t)

Next ==
    \/ CmRequest
    \/ CmSessionStop
    \/ CmDisconnect
    \/ ClientVanishes
    \/ CmMessage
    \/ \E r \in Req : CmTimer(r)
    \/ \E a \in asked : CmAnswer(a)
    \/ \E t \in Thread : WorkerStep(t)

Spec == Init /\ [][Next]_vars

\* The event loop handles its messages and timers, and workers run.  Clients,
\* the providers among them, owe nothing.
FairSpec ==
    /\ Spec
    /\ WF_vars(CmMessage)
    /\ \A r \in Req : WF_vars(CmTimer(r))
    /\ \A t \in Thread : WF_vars(WorkerStep(t))

-----------------------------------------------------------------------------
(* Properties.                                                             *)

Occurrences(q, kinds) ==
    Cardinality({i \in DOMAIN q : q[i][1] \in kinds})

\* Where a request that the CM passed on can be: queued, in the hands of a
\* worker, paused in the session, with the subscriber of its RPC, or on its way
\* back as a response.
InRp ==
    Occurrences(request_queue, {"req", "rpcresp"})
    + Cardinality({t \in Thread :
            \/ worker[t].pc = "respond"
            \/ worker[t].pc = "handle"
               /\ worker[t].msg[1] \in {"req", "rpcresp"}})
    + Cardinality({s \in {rp.state} : s = "waiting"})
    + Occurrences(msg_queue, {"resp", "rpcreq"})
    + Cardinality({a \in asked : a[1] = "rpcresp"})

\* rp_req_cnt is exact, and at most 1: the request it counts is in one place
\* of the RP and nowhere twice, whatever the order of answers and timer.  (The
\* validation of an RPC's answer calls rp_dt_prepare_data too, but session->req is
\* NULL by then, so no provider is asked and the session does not wait again.
\* Internal state data, asked for without that test, are left out there.)
OneRequestInRp == cm.alive => cm.rp_req_cnt = InRp /\ InRp <= 1

\* The client, which tells responses apart by their order only, receives one
\* response for each request, in the order of the requests.
AnsweredInOrder == \A i \in DOMAIN answered : answered[i] = i

\* The CM and the workers never touch a session that was released, and release
\* it once: rp_session_stop leaves it to the worker that still has a message of
\* it, and no message comes after that.  Only a client that is gone before the CM
\* notices makes a failed write release the session under its user.
MemorySafe == broken => peer = "gone"

\* An RPC is with its subscriber, who may never answer: it has no timeout.
RpcPending == \E a \in asked : a[1] = "rpcresp"

\* Every request of a session that stays open is answered: a paused request
\* ends with the timer at the latest.
Answered ==
    \A r \in Req :
        r <= sent ~> \/ \E i \in DOMAIN answered : answered[i] = r
                     \/ ~cm.alive \/ cm.stop_requested \/ RpcPending

\* A session that was stopped or has lost its connection is released in the
\* CM and in the RP, although requests of it may still be paused or queued.
Released ==
    (~cm.alive \/ cm.stop_requested)
        ~> (~cm.alive /\ ~rp.alive) \/ RpcPending
=============================================================================
