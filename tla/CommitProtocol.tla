--------------------------- MODULE CommitProtocol ---------------------------
(***************************************************************************)
(* A commit to the running datastore from its verify phase on: the commit  *)
(* state machine of rp_dt_commit (src/rp_dt_edit.c), the notifications of  *)
(* dm_commit_notify (src/data_manager.c), the book-keeping of their        *)
(* acknowledgements (src/notification_processor.c) and the resumption of   *)
(* the request by rp_all_notifications_received (src/request_processor.c). *)
(*                                                                         *)
(* The module follows one commit context.  Contexts have their own mutex   *)
(* and are found by their id, and commit_lock keeps the workers of two     *)
(* commits apart; what commits contend for, the module locks, is the       *)
(* subject of Locking.                                                     *)
(*                                                                         *)
(* Acknowledgements and timer messages are handled by worker threads of    *)
(* the pool, in any order.  Each of the four messages that may complete a  *)
(* phase is a caller of np_commit_notifications_complete: the last         *)
(* acknowledgement and the timer of the verify phase ("vack", "vtimer")    *)
(* and of the apply or abort phase ("fack", "ftimer").                     *)
(***************************************************************************)
EXTENDS Naturals

CONSTANTS
    Sub,         \* subscriptions that match the change
    Verifier,    \* those that also take part in the verify phase
    NoAbort,     \* verifiers with SR_SUBSCR_NO_ABORT_FOR_REFUSED_CFG
    Xpath,       \* names of subscriptions
    XpathOf,     \* the module name or xpath of a subscription
    WriteFails,  \* whether writing the data files may fail
    MayStop      \* whether cm_before_cleanup may be called

ASSUME CommitAssumption ==
    /\ Verifier \subseteq Sub
    /\ NoAbort \subseteq Verifier
    /\ XpathOf \in [Sub -> Xpath]
    /\ WriteFails \in BOOLEAN
    /\ MayStop \in BOOLEAN

Event == {"verify", "apply", "abort"}
Caller == {"vack", "vtimer", "fack", "ftimer"}
Code == {"ok", "refused", "timeout", "failed"}

VARIABLES
    wpc,        \* the worker that processes the commit request
    ev,         \* the event dm_commit_notify is sending
    toSend,     \* subscriptions it has still to notify
    rc,         \* its result code
    state,      \* c_ctx->state
    result,     \* c_ctx->result
    errXpaths,  \* c_ctx->err_subs_xpaths
    remove,     \* c_ctx->should_be_removed
    mutex,      \* holder of c_ctx->mutex
    alive,      \* c_ctx is allocated
    inTree,     \* c_ctx is in dm_ctx->commit_ctxs
    readers,    \* callers that hold commit_ctxs.lock for reading
    locksHeld,  \* the commit session holds its module locks
    written,    \* outcome of writing the data files
    answer,     \* result code sent to the client
    resumes,    \* how often the request was enqueued again
    np,         \* NP commit context
    inflight,   \* notifications sent and not acknowledged
    sent,       \* notifications sent
    verdict,    \* what the callbacks of the verifiers returned
    call,       \* callers of np_commit_notifications_complete
    blockReq,   \* rp_ctx->block_further_commits
    blockCtx    \* commit_ctxs.commits_blocked

worker == <<wpc, ev, toSend, rc, answer>>
ctx == <<state, result, errXpaths, remove>>
memory == <<alive, inTree, locksHeld>>
world == <<inflight, sent, verdict>>
block == <<blockReq, blockCtx>>
vars == <<wpc, ev, toSend, rc, answer, state, result, errXpaths, remove, alive, inTree, locksHeld,
          mutex, readers, written, resumes, np, inflight, sent, verdict, call, blockReq, blockCtx>>

WorkerStep == {"start", "save", "send", "pause", "paused", "queued", "found", "write",
               "cleanup", "remove", "done"}

CallerStep == {"off", "immediate", "armed", "complete", "rd", "ctx", "remove", "done"}

NpContext ==
    [here : BOOLEAN, allSent : BOOLEAN, finished : BOOLEAN, result : Code, errs : SUBSET Xpath]

Call ==
    [pc : CallerStep, expired : BOOLEAN, finished : BOOLEAN, result : Code, errs : SUBSET Xpath]

\* The types of the variables.
TypeOK ==
    /\ wpc \in WorkerStep
    /\ ev \in Event
    /\ toSend \subseteq Sub
    /\ rc \in Code
    /\ state \in {"started", "wait", "write", "abort", "finished"}
    /\ result \in Code
    /\ errXpaths \subseteq Xpath
    /\ remove \in BOOLEAN
    /\ mutex \in {"free", "worker"}
    /\ alive \in BOOLEAN /\ inTree \in BOOLEAN /\ locksHeld \in BOOLEAN
    /\ readers \subseteq Caller
    /\ written \in {"no", "yes", "failed"}
    /\ answer \in Code \union {"none"}
    /\ resumes \in Nat
    /\ np \in NpContext
    /\ inflight \subseteq Event \X Sub
    /\ sent \subseteq Event \X Sub
    /\ verdict \in [Sub -> {"none", "accept", "refuse"}]
    /\ call \in [Caller -> Call]
    /\ blockReq \in BOOLEAN /\ blockCtx \in BOOLEAN

NoCall == [pc |-> "off", expired |-> FALSE, finished |-> FALSE, result |-> "ok", errs |-> {}]

NoNp == [here |-> FALSE, allSent |-> FALSE, finished |-> FALSE, result |-> "ok", errs |-> {}]

Init ==
    /\ wpc = "start" /\ ev = "verify" /\ toSend = {} /\ rc = "ok"
    /\ state = "started" /\ result = "ok" /\ errXpaths = {} /\ remove = FALSE
    /\ mutex = "free" /\ alive = FALSE /\ inTree = FALSE /\ locksHeld = FALSE
    /\ readers = {} /\ written = "no" /\ answer = "none" /\ resumes = 0
    /\ np = NoNp
    /\ inflight = {} /\ sent = {} /\ verdict = [s \in Sub |-> "none"]
    /\ call = [c \in Caller |-> NoCall]
    /\ blockReq = FALSE /\ blockCtx = FALSE

-----------------------------------------------------------------------------
(* The worker: rp_commit_req_process and rp_dt_commit *)

Answer(r) == wpc' = "done" /\ answer' = r

\* A request met after cm_before_cleanup is refused.
Refuse ==
    /\ wpc \in {"start", "queued"}
    /\ blockReq
    /\ Answer("failed")
    /\ UNCHANGED <<ev, toSend, rc, ctx, memory, mutex, readers, written, resumes, np, world,
                   call, block>>

\* Context, locks, replay of operations, validation and access control all
\* succeed, and the context's mutex is held ...
Prepare ==
    /\ wpc = "start" /\ ~blockReq
    /\ alive' = TRUE /\ locksHeld' = TRUE
    /\ mutex' = "worker"
    /\ wpc' = "save"
    /\ UNCHANGED <<ev, toSend, rc, answer, ctx, inTree, readers, written, resumes, np, world,
                   call, block>>

\* ... or one of them fails and the context is freed.
PrepareFails ==
    /\ wpc = "start" /\ ~blockReq
    /\ Answer("failed")
    /\ UNCHANGED <<ev, toSend, rc, ctx, memory, mutex, readers, written, resumes, np, world,
                   call, block>>

\* dm_should_skip_subscription, the other way round.
ToNotify(e) ==
    {s \in Sub : /\ e = "apply" \/ s \in Verifier
                 /\ e = "abort" => XpathOf[s] \notin errXpaths}

\* Fault: the module locks are given back before the verifiers have answered.
NeverKeepsLocks(e) == FALSE

\* The module locks outlive the verify phase only.
KeepsLocks(e) == e = "verify"

\* dm_commit_notify up to the loop that sends: locks are given back except
\* in the verify phase, and the context is inserted.  The write lock is timed;
\* an insertion of a context already there is no error.
Save ==
    /\ wpc = "save"
    /\ locksHeld' = (locksHeld /\ KeepsLocks(ev))
    /\ \/ /\ readers = {}
          /\ inTree' = (inTree \/ ~blockCtx)
          /\ rc' = IF blockCtx THEN "failed" ELSE "ok"
       \/ /\ readers # {}
          /\ rc' = "timeout"
          /\ UNCHANGED inTree
    /\ remove' = FALSE
    /\ toSend' = ToNotify(ev)
    /\ wpc' = "send"
    /\ UNCHANGED <<ev, answer, state, result, errXpaths, alive, mutex, readers, written,
                   resumes, np, world, call, block>>

\* np_subscription_notify: the NP context is created with the first notification.
Send(s) ==
    /\ wpc = "send" /\ s \in toSend
    /\ toSend' = toSend \ {s}
    /\ sent' = sent \union {<<ev, s>>}
    /\ inflight' = inflight \union {<<ev, s>>}
    /\ np' = [np EXCEPT !.here = TRUE]
    /\ rc' = "ok"
    /\ UNCHANGED <<wpc, ev, answer, ctx, memory, mutex, readers, written, resumes, verdict,
                   call, block>>

Notified(e) == \E s \in Sub : <<e, s>> \in sent

\* Fault: no timer is started.
TimerForgotten == IF inflight = {} THEN "immediate" ELSE "off"

\* np_commit_notifications_sent: the commit timer is started, or the message it
\* would send is sent at once when every notification is acknowledged.
TimerStart == IF inflight = {} THEN "immediate" ELSE "armed"

NotificationsSent(finished) ==
    /\ np' = [np EXCEPT !.allSent = TRUE, !.finished = finished]
    /\ LET c == IF finished THEN "ftimer" ELSE "vtimer"
       IN  call' = [call EXCEPT ![c].pc = TimerStart,
                                ![c].expired = inflight # {}]

\* The end of dm_commit_notify for the verify event: wait, write, or give up.
VerifySent ==
    /\ wpc = "send" /\ toSend = {} /\ ev = "verify"
    /\ IF Notified("verify")
       THEN /\ state' = "wait"
            /\ wpc' = "pause"
            /\ NotificationsSent(FALSE)
            /\ UNCHANGED remove
       ELSE /\ state' = "write"
            /\ remove' = TRUE
            /\ wpc' = IF rc = "ok" THEN "write" ELSE "cleanup"
            /\ UNCHANGED <<np, call>>
    /\ UNCHANGED <<ev, toSend, rc, answer, result, errXpaths, memory, mutex, readers, written,
                   resumes, world, block>>

\* Fault: the context is left to acknowledgements that nobody sends.
NeverRemoved(e) == FALSE

\* should_be_removed: no acknowledgement will release the context.
ShouldBeRemoved(e) == ~Notified(e)

\* The same for apply and abort.  After an abort the request ends with the
\* result stored in the context.
FinishSent ==
    /\ wpc = "send" /\ toSend = {} /\ ev # "verify"
    /\ state' = "finished"
    /\ remove' = ShouldBeRemoved(ev)
    /\ IF Notified(ev) THEN NotificationsSent(TRUE) ELSE UNCHANGED <<np, call>>
    /\ rc' = IF ev = "abort" THEN result ELSE rc
    /\ wpc' = "cleanup"
    /\ UNCHANGED <<ev, toSend, answer, result, errXpaths, memory, mutex, readers, written,
                   resumes, world, block>>

\* DM_COMMIT_WAIT_FOR_NOTIFICATIONS: the handler returns.
Pause ==
    /\ wpc = "pause"
    /\ mutex' = "free"
    /\ wpc' = "paused"
    /\ UNCHANGED <<ev, toSend, rc, answer, ctx, memory, readers, written, resumes, np, world,
                   call, block>>

\* The request is processed again: the context is looked up without
\* commit_ctxs.lock ...
Find ==
    /\ wpc = "queued" /\ ~blockReq
    /\ IF inTree THEN wpc' = "found" /\ UNCHANGED answer ELSE Answer("failed")
    /\ UNCHANGED <<ev, toSend, rc, ctx, memory, mutex, readers, written, resumes, np, world,
                   call, block>>

\* ... and then its mutex is taken.
Resume ==
    /\ wpc = "found"
    /\ mutex = "free"
    /\ mutex' = "worker"
    /\ IF state = "write" THEN wpc' = "write" /\ UNCHANGED ev
                          ELSE wpc' = "save" /\ ev' = "abort"
    /\ UNCHANGED <<toSend, rc, answer, ctx, memory, readers, written, resumes, np, world, call,
                   block>>

\* DM_COMMIT_WRITE goes on to DM_COMMIT_NOTIFY_APPLY whatever its outcome.
Write ==
    /\ wpc = "write"
    /\ written' \in {"yes"} \union (IF WriteFails THEN {"failed"} ELSE {})
    /\ ev' = "apply"
    /\ wpc' = "save"
    /\ UNCHANGED <<toSend, rc, answer, ctx, memory, mutex, readers, resumes, np, world, call,
                   block>>

\* The end of rp_dt_commit: a context that is not in the tree is freed here.
Cleanup ==
    /\ wpc = "cleanup"
    /\ mutex' = "free"
    /\ IF remove THEN wpc' = "remove" /\ UNCHANGED answer ELSE Answer(rc)
    /\ alive' = (alive /\ (remove \/ inTree))
    /\ locksHeld' = (locksHeld /\ (remove \/ inTree))
    /\ UNCHANGED <<ev, toSend, rc, ctx, inTree, readers, written, resumes, np, world, call,
                   block>>

\* Fault: commit_ctxs.lock is not taken.
RemoveDespiteReaders ==
    /\ inTree' = FALSE
    /\ alive' = (alive /\ ~inTree)
    /\ locksHeld' = (locksHeld /\ ~inTree)

\* dm_remove_commit_context frees what it finds in the tree.
RemoveContext ==
    /\ readers = {}
    /\ inTree' = FALSE
    /\ alive' = (alive /\ ~inTree)
    /\ locksHeld' = (locksHeld /\ ~inTree)

WorkerRemove ==
    /\ wpc = "remove"
    /\ RemoveContext
    /\ Answer(rc)
    /\ UNCHANGED <<ev, toSend, rc, ctx, mutex, readers, written, resumes, np, world, call,
                   block>>

-----------------------------------------------------------------------------
(* Subscribers *)

\* The callback of a verifier returns; the acknowledgement is on its way.
Return(s, v) ==
    /\ <<"verify", s>> \in inflight
    /\ verdict[s] = "none"
    /\ verdict' = [verdict EXCEPT ![s] = v]
    /\ UNCHANGED <<worker, ctx, memory, mutex, readers, written, resumes, np, inflight, sent,
                   call, block>>

\* Fault: the answer of the callback is stored in place of a result code.
VerdictAsResult(e, s) == IF e = "verify" THEN verdict[s] ELSE np.result

\* The result that an acknowledgement leaves in the NP context.
AckResult(e, s) == IF e = "verify" /\ verdict[s] = "refuse" THEN "refused" ELSE np.result

\* np_commit_notification_ack: the last acknowledgement completes the phase.
Ack(e, s) ==
    /\ <<e, s>> \in inflight
    /\ e = "verify" => verdict[s] # "none"
    /\ inflight' = inflight \ {<<e, s>>}
    /\ LET spared == {t \in {s} \intersect NoAbort : e = "verify" /\ verdict[t] = "refuse"}
           c == IF np.finished THEN "fack" ELSE "vack"
       IN  /\ np' = IF np.here
                    THEN [np EXCEPT !.result = AckResult(e, s),
                                    !.errs = @ \union {XpathOf[t] : t \in spared}]
                    ELSE np
           /\ call' = IF np.here /\ np.allSent /\ inflight' = {}
                      THEN [call EXCEPT ![c].pc = "complete"]
                      ELSE call
    /\ UNCHANGED <<worker, ctx, memory, mutex, readers, written, resumes, sent, verdict, block>>

-----------------------------------------------------------------------------
(* Completion of a phase *)

\* The timer message reaches a worker.
Timer(c) ==
    /\ call[c].pc \in {"immediate", "armed"}
    /\ call' = [call EXCEPT ![c].pc = "complete"]
    /\ UNCHANGED <<worker, ctx, memory, mutex, readers, written, resumes, np, world, block>>

\* Fault: an expired timer counts as the answer of those who did not answer.
TimeoutIgnored(c) == np.result

\* What a phase is reported to have ended with.
Outcome(c) == IF call[c].expired THEN "timeout" ELSE np.result

\* np_commit_notifications_complete up to the call of
\* rp_all_notifications_received.
Complete(c) ==
    /\ call[c].pc = "complete"
    /\ IF np.here
       THEN /\ call' = [call EXCEPT ![c].pc = "rd",
                                    ![c].finished = np.finished,
                                    ![c].result = Outcome(c),
                                    ![c].errs = np.errs]
            /\ np' = IF np.finished THEN NoNp ELSE [np EXCEPT !.allSent = FALSE, !.errs = {}]
       ELSE /\ call' = [call EXCEPT ![c].pc = "done"]
            /\ UNCHANGED np
    /\ UNCHANGED <<worker, ctx, memory, mutex, readers, written, resumes, world, block>>

\* rp_all_notifications_received: the context is looked up under the read lock.
Lookup(c) ==
    /\ call[c].pc = "rd"
    /\ call' = [call EXCEPT ![c].pc = IF inTree THEN "ctx" ELSE "done"]
    /\ readers' = readers \union (IF inTree THEN {c} ELSE {})
    /\ UNCHANGED <<worker, ctx, memory, mutex, written, resumes, np, world, block>>

\* Fault: the state of the context is not looked at.
EndsWaitAgain(c) == ~call[c].finished

\* The verify phase is over, with the request still waiting for it ...
EndsWait(c) == ~call[c].finished /\ state = "wait"

\* Fault: the end of the last phase is looked for in the wrong state.
NeverEndsCommit(c) == call[c].finished /\ state = "wait"

\* ... or the last phase is.
EndsCommit(c) == call[c].finished /\ state = "finished"

\* With the context's mutex: the result is stored, then the request is resumed,
\* the context is to be released, or the call came too late.
Received(c) ==
    /\ call[c].pc = "ctx"
    /\ mutex = "free"
    /\ readers' = readers \ {c}
    /\ result' = call[c].result
    /\ IF EndsWait(c)
       THEN /\ state' = IF call[c].result = "ok" THEN "write" ELSE "abort"
            /\ errXpaths' = call[c].errs
            /\ wpc' = "queued"
            /\ resumes' = resumes + 1
       ELSE UNCHANGED <<state, errXpaths, wpc, resumes>>
    /\ call' = [call EXCEPT ![c].pc =
                   IF EndsCommit(c) THEN "remove" ELSE "done"]
    /\ UNCHANGED <<ev, toSend, rc, answer, remove, memory, mutex, written, np, world, block>>

CallerRemove(c) ==
    /\ call[c].pc = "remove"
    /\ RemoveContext
    /\ call' = [call EXCEPT ![c].pc = "done"]
    /\ UNCHANGED <<worker, ctx, mutex, readers, written, resumes, np, world, block>>

-----------------------------------------------------------------------------
\* rp_wait_for_commits_to_finish sets the two flags one after the other.
Stop ==
    /\ MayStop /\ ~blockCtx
    /\ blockReq' = TRUE
    /\ blockCtx' = blockReq
    /\ UNCHANGED <<worker, ctx, memory, mutex, readers, written, resumes, np, world, call>>

WorkerStepOf ==
    \/ Refuse \/ Prepare \/ PrepareFails \/ Save \/ \E s \in Sub : Send(s)
    \/ VerifySent \/ FinishSent \/ Pause \/ Find \/ Resume \/ Write \/ Cleanup \/ WorkerRemove

CallerStepOf(c) ==
    Timer(c) \/ Complete(c) \/ Lookup(c) \/ Received(c) \/ CallerRemove(c)

SubscriberStep ==
    \/ \E s \in Verifier, v \in {"accept", "refuse"} : Return(s, v)
    \/ \E e \in Event, s \in Sub : Ack(e, s)

Next ==
    \/ WorkerStepOf
    \/ \E c \in Caller : CallerStepOf(c)
    \/ SubscriberStep
    \/ Stop

Spec == Init /\ [][Next]_vars

\* Worker threads take every step they can, and timers expire.  Subscribers
\* owe nothing.
FairSpec ==
    /\ Spec
    /\ WF_vars(WorkerStepOf)
    /\ \A c \in Caller : WF_vars(CallerStepOf(c))

-----------------------------------------------------------------------------
(* Safety *)

Accepted == \A s \in Verifier : verdict[s] = "accept"

\* Data files are written only after the callback of every verifier accepted the
\* change, however acknowledgements and the verify timer interleave.
WriteOnlyIfAccepted == written # "no" => Accepted

\* A commit of which anybody was told to abort is not written, and nobody is told
\* to apply it: rp_all_notifications_received decides once.
AbortIsFinal == Notified("abort") => written = "no" /\ ~Notified("apply")

\* The last acknowledgement and the timer never both put the request back into
\* the queue: the second finds another state than DM_COMMIT_WAIT_FOR_NOTIFICATIONS.
ResumedOnce == resumes <= 1

\* A thread that works on the commit context has not lost it to
\* dm_remove_commit_context, called from another thread, and neither has one that
\* has looked it up but not yet taken its mutex ...
NoUseAfterFree ==
    /\ wpc \in {"found", "save", "send", "pause", "write", "cleanup"} => alive
    /\ \A c \in Caller : call[c].pc = "ctx" => alive /\ inTree

\* ... and files are written by the only thread in the context, under its locks.
WriteUnderLocks == wpc = "write" => mutex = "worker" /\ locksHeld

(* Liveness *)

\* The client is answered, if subscribers answer or not: the timer of
\* np_commit_notifications_sent resumes what no acknowledgement does.  Only the stop
\* of the daemon comes before it.
Answered == <>(answer # "none" \/ blockReq)

\* The context is freed and its modules unlocked, with the same exception, although
\* acknowledgements may be lost and the timers of both phases still expire.
Released == <>blockReq \/ <>[](~alive /\ ~inTree /\ ~locksHeld)

-----------------------------------------------------------------------------
(* The promise to the subscribers *)

Decision ==
    IF state \in {"started", "wait"} THEN "none"
    ELSE IF state = "abort" \/ ev = "abort" THEN "abort" ELSE "write"

Told == {t \in {"write", "abort"} \X Sub :
           <<IF t[1] = "write" THEN "apply" ELSE "abort", t[2]>> \in sent}

CS == INSTANCE CommitService WITH
          Subscriber <- Sub, Voter <- Verifier, vote <- verdict, decision <- Decision, told <- Told

\* The commit state machine, the acknowledgements and the timers implement the vote
\* of CommitService: dm_commit_notify tells the outcome that
\* rp_all_notifications_received decided, once, on the answers of all verifiers.
ImplementsCommitService == CS!Service
=============================================================================
