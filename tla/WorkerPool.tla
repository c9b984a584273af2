----------------------------- MODULE WorkerPool -----------------------------
(***************************************************************************)
(* The pool of worker threads of the Request Processor and its request     *)
(* queue (src/request_processor.c): the loop of rp_worker_thread_execute,  *)
(* the wake-up rule of rp_msg_process, and the shutdown of the pool by     *)
(* rp_cleanup.                                                             *)
(*                                                                         *)
(* An action is a critical section of request_queue_mutex, or the code     *)
(* between two of them.  pthread_cond_wait is the pair of steps "sleep"    *)
(* (the mutex is released, the thread is on the condition variable) and    *)
(* "woken" (it was signalled and waits for the mutex).                     *)
(***************************************************************************)
EXTENDS Naturals, Sequences, FiniteSets

CONSTANTS
    Thread,              \* the thread_pool, RP_THREAD_COUNT threads
    Msg,                 \* messages that rp_msg_process is called with
    Empty,               \* the request of rp_cleanup, with a NULL message
    RP_REQ_PER_THREADS,  \* waiting requests that one more thread is woken for
    MayStop              \* whether rp_cleanup is called

ASSUME PoolAssumption ==
    /\ IsFiniteSet(Thread) /\ Thread # {}
    /\ Empty \notin Msg
    /\ RP_REQ_PER_THREADS \in Nat
    /\ MayStop \in BOOLEAN

RP_THREAD_COUNT == Cardinality(Thread)

VARIABLES
    pc,              \* where a thread is
    req,             \* the request a thread dequeued last
    request_queue,
    active_threads,
    stop_requested,
    posted,          \* messages handed to rp_msg_process so far
    dispatched,      \* messages given to rp_msg_dispatch
    cleanup          \* where rp_cleanup is: "no", "join", "done"

vars == <<pc, req, request_queue, active_threads, stop_requested, posted,
          dispatched, cleanup>>

\* A thread that returned is "emptied" when it received an empty request, and
\* "exited" when it found the stop flag before it would have gone to sleep.
Returned == {"emptied", "exited"}

Step == {"start", "dequeue", "dispatch", "recheck", "window", "sleep",
         "woken"} \union Returned

\* The types of the variables.
TypeOK ==
    /\ pc \in [Thread -> Step]
    /\ req \in [Thread -> Msg \union {Empty}]
    /\ request_queue \in Seq(Msg \union {Empty})
    /\ active_threads \in 0..RP_THREAD_COUNT
    /\ stop_requested \in BOOLEAN
    /\ dispatched \subseteq posted
    /\ posted \subseteq Msg
    /\ cleanup \in {"no", "join", "done"}

\* rp_init has created the threads; none has run yet.
Init ==
    /\ pc = [t \in Thread |-> "start"]
    /\ req = [t \in Thread |-> Empty]
    /\ request_queue = <<>>
    /\ active_threads = 0
    /\ stop_requested = FALSE
    /\ posted = {}
    /\ dispatched = {}
    /\ cleanup = "no"

-----------------------------------------------------------------------------
(* Posting a message.                                                      *)

\* The condition for pthread_cond_signal, with `items' in the queue.
NeedsSignal(items, active) ==
    \/ active = 0
    \/ items \div active > RP_REQ_PER_THREADS /\ active < RP_THREAD_COUNT

Sleeping == {t \in Thread : pc[t] = "sleep"}

\* Threads that are back from, or never went to, the condition variable when
\* it is signalled once: one of the sleeping threads is, if there is any.
Signalled(p) ==
    IF Sleeping = {} THEN {p}
    ELSE {[p EXCEPT ![t] = "woken"] : t \in Sleeping}

\* rp_msg_process, with `p' the threads as the caller leaves them.
Post(m, p) ==
    /\ m \notin posted
    /\ posted' = posted \union {m}
    /\ request_queue' = Append(request_queue, m)
    /\ pc' \in IF NeedsSignal(Len(request_queue'), active_threads)
               THEN Signalled(p) ELSE {p}

\* The event loop hands over a message; it does so no more once it runs
\* rp_cleanup.
PostFromEventLoop(m) ==
    /\ cleanup = "no"
    /\ Post(m, pc)
    /\ UNCHANGED <<req, active_threads, stop_requested, dispatched, cleanup>>

-----------------------------------------------------------------------------
(* The loop of a worker thread.                                            *)

Goto(t, step) == pc' = [pc EXCEPT ![t] = step]

ThreadStart(t) ==
    /\ pc[t] = "start"
    /\ active_threads' = active_threads + 1
    /\ Goto(t, "dequeue")
    /\ UNCHANGED <<req, request_queue, stop_requested, posted, dispatched,
                   cleanup>>

\* A thread that gets an empty request returns; active_threads keeps it.
Dequeue(t) ==
    /\ pc[t] = "dequeue"
    /\ request_queue # <<>>
    /\ req' = [req EXCEPT ![t] = Head(request_queue)]
    /\ request_queue' = Tail(request_queue)
    /\ Goto(t, IF req'[t] = Empty THEN "emptied" ELSE "dispatch")
    /\ UNCHANGED <<active_threads, stop_requested, posted, dispatched,
                   cleanup>>

\* The spin before the second look at the queue only takes time.
DequeueNothing(t) ==
    /\ pc[t] = "dequeue"
    /\ request_queue = <<>>
    /\ Goto(t, "recheck")
    /\ UNCHANGED <<req, request_queue, active_threads, stop_requested, posted,
                   dispatched, cleanup>>

\* rp_msg_dispatch handles the message; it may call rp_msg_process itself, to
\* enqueue a paused request again or to generate a message.
Dispatch(t) ==
    /\ pc[t] = "dispatch"
    /\ dispatched' = dispatched \union {req[t]}
    /\ LET p == [pc EXCEPT ![t] = "dequeue"] IN
       \/ pc' = p /\ UNCHANGED <<request_queue, posted>>
       \/ \E m \in Msg : Post(m, p)
    /\ UNCHANGED <<req, active_threads, stop_requested, cleanup>>

\* Fault: a thread counts itself out without a second look at the queue.
NeverRechecks(t) ==
    /\ pc[t] = "recheck"
    /\ Goto(t, "window")
    /\ active_threads' = active_threads - 1

\* The second look at the queue, in the critical section in which the thread
\* counts itself out.
Recheck(t) ==
    /\ pc[t] = "recheck"
    /\ IF request_queue # <<>>
       THEN /\ Goto(t, "dequeue")
            /\ UNCHANGED active_threads
       ELSE /\ Goto(t, "window")
            /\ active_threads' = active_threads - 1

ThreadRecheck(t) ==
    /\ Recheck(t)
    /\ UNCHANGED <<req, request_queue, stop_requested, posted, dispatched,
                   cleanup>>

\* Fault: the thread waits for a signal although the pool is being stopped.
SleepsDespiteStop(t) == Goto(t, "sleep")

\* Between the two critical sections the mutex was free, and the thread was
\* neither active nor waiting.
LeaveWindow(t) == Goto(t, IF stop_requested THEN "exited" ELSE "sleep")

ThreadWait(t) ==
    /\ pc[t] = "window"
    /\ LeaveWindow(t)
    /\ UNCHANGED <<req, request_queue, active_threads, stop_requested, posted,
                   dispatched, cleanup>>

\* Fault: a thread that was woken up is not counted.
WokenUncounted(t) == Goto(t, "dequeue") /\ UNCHANGED active_threads

\* pthread_cond_wait returns.
CountIn(t) ==
    /\ Goto(t, "dequeue")
    /\ active_threads' = active_threads + 1

ThreadWoken(t) ==
    /\ pc[t] = "woken"
    /\ CountIn(t)
    /\ UNCHANGED <<req, request_queue, stop_requested, posted, dispatched,
                   cleanup>>

\* A condition variable may let a thread go that nobody signalled.
SpuriousWakeup(t) ==
    /\ pc[t] = "sleep"
    /\ Goto(t, "woken")
    /\ UNCHANGED <<req, request_queue, active_threads, stop_requested, posted,
                   dispatched, cleanup>>

-----------------------------------------------------------------------------
(* rp_cleanup.                                                             *)

\* The threads after pthread_cond_broadcast.
Broadcast == {[t \in Thread |-> IF pc[t] = "sleep" THEN "woken" ELSE pc[t]]}

\* One empty request per thread.
Empties == [i \in 1..RP_THREAD_COUNT |-> Empty]

CleanupStart ==
    /\ MayStop
    /\ cleanup = "no"
    /\ stop_requested' = TRUE
    /\ request_queue' = request_queue \o Empties
    /\ pc' \in Broadcast
    /\ cleanup' = "join"
    /\ UNCHANGED <<req, active_threads, posted, dispatched>>

\* All threads are joined; what is left in the queue is freed.
CleanupJoined ==
    /\ cleanup = "join"
    /\ \A t \in Thread : pc[t] \in Returned
    /\ request_queue' = <<>>
    /\ cleanup' = "done"
    /\ UNCHANGED <<pc, req, active_threads, stop_requested, posted,
                   dispatched>>

-----------------------------------------------------------------------------
ThreadStep(t) ==
    \/ ThreadStart(t)
    \/ Dequeue(t)
    \/ DequeueNothing(t)
    \/ Dispatch(t)
    \/ ThreadRecheck(t)
    \/ ThreadWait(t)
    \/ ThreadWoken(t)

Next ==
    \/ \E m \in Msg : PostFromEventLoop(m)
    \/ \E t \in Thread : ThreadStep(t) \/ SpuriousWakeup(t)
    \/ CleanupStart
    \/ CleanupJoined

Spec == Init /\ [][Next]_vars

\* The scheduler runs every thread that can run, and handlers return.  Nothing
\* makes a message come, a thread wake up spuriously or the daemon stop.
FairSpec ==
    /\ Spec
    /\ \A t \in Thread : WF_vars(ThreadStep(t))
    /\ WF_vars(CleanupJoined)

-----------------------------------------------------------------------------
(* Properties.                                                             *)

\* The steps at which a thread is counted in active_threads.
Counted == {"dequeue", "dispatch", "recheck"}

Queued(m) == \E i \in DOMAIN request_queue : request_queue[i] = m

\* active_threads, which rp_msg_process takes its decision from, is the number
\* of threads that are going to look at the queue before they wait, plus those
\* that returned with an empty request.
ActiveCounted ==
    active_threads =
        Cardinality({t \in Thread : pc[t] \in Counted \union {"emptied"}})

\* The wake-up rule: a message that is queued while some thread is active, or
\* was woken up, is handled.  The stop of the pool does not discard it, even if
\* it comes at once: its empty requests are behind the message.
PickedUp ==
    \A m \in Msg :
        (/\ Queued(m) /\ ~stop_requested
         /\ \E t \in Thread : pc[t] \in Counted \union {"woken"})
        ~> m \in dispatched

\* rp_cleanup returns: every thread, wherever the stop flag finds it, ends.
CleanupEnds == (cleanup = "join") ~> (cleanup = "done")
=============================================================================
