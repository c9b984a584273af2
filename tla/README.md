# A TLA+ model of sysrepo

sysrepo is a YANG datastore: applications read and edit configuration through
a client library, a daemon keeps the data files, and subscribers are asked
about, and told of, every change.  This directory models the parts of it where
threads, processes and clients meet: the locks, the commit with its
subscribers, the worker threads, the life of a request and of a session, and
the circular buffer that all queues are made of.  Paths below are relative to
the root of the repository.

## 1. The system

| Part | Source | State it keeps | Operations | Module |
|---|---|---|---|---|
| Connection Manager (CM) | `src/connection_manager.c` | event loop, message queue, per-session request queue and counters, delayed requests | receive, send, stop session, drop connection | `SessionRequests` (partly) |
| Session Manager | `src/cm_session_manager.c` | sessions and connections, indexed three ways | create, drop, find | `SessionRequests` (drop only) |
| Request Processor (RP), worker pool | `src/request_processor.c` | request queue, `active_threads`, stop flag | post, take, sleep, wake, stop | `WorkerPool` |
| RP, requests | `src/request_processor.c`, `src/rp_dt_get.c` | session state, request under way, providers owed | dispatch, pause, resume, time out | `SessionRequests` (partly) |
| Data Manager (DM), locks | `src/data_manager.c`, `src/common/sr_data_structs.c` | locking set, lock files, `locked_files`, `ds_lock` | lock and unlock a module or a datastore | `Locking` |
| Commit | `src/rp_dt_edit.c`, `src/data_manager.c`, `src/request_processor.c` | commit contexts, their mutex, state and result | lock, verify, write, apply, abort, release | `Locking`, `CommitProtocol` |
| Notification Processor (NP), commits | `src/notification_processor.c` | counters per commit, errors of verifiers | notify, acknowledge, time out, complete | `CommitProtocol` |
| NP, subscriptions and stored notifications | `src/notification_processor.c` | destination tree, notification files | subscribe, unsubscribe, store, replay | planned |
| DM, session copies | `src/data_manager.c`, `src/rp_dt_edit.c` | data trees, operations, time stamps | load, refresh, replay, copy-config | planned |
| DM, schemas; Module Dependencies | `src/data_manager.c`, `src/module_dependencies.c` | schema tree with use counts, dependency graph | load, install, uninstall, enable | planned |
| Persistence Manager | `src/persistence_manager.c` | persist files | add and remove subscriptions, features | planned |
| NACM, Access Control | `src/nacm.c`, `src/access_control.c` | rules, effective user | check, reload, switch user | planned |
| Client library | `src/clientlib/` | connections, sessions, subscription server | calls of the public API, callbacks | planned |
| Data structures | `src/common/sr_data_structs.c` | lists, trees, circular buffer, locking set | | `CircularBuffer`; locking set in `Locking` |
| Memory management | `src/common/sr_mem_mgmt.c` | blocks, snapshots, pool | allocate, restore, free | planned |
| Messages, utilities, tools | `src/common/sr_protobuf.c`, `src/utils/`, `src/executables/` | none that outlives a call | | not modelled |

How they interact.  The CM runs one thread.  It passes a request of a session
to the RP (`rp_msg_process`), at most one at a time per session, and keeps the
others in the session's own queue until the response comes back
(`cm_msg_send`).  The RP's workers take messages from one queue.  A handler
that needs state data, or a commit that needs verdicts, does not wait: it
marks the session or the commit context and returns, and an acknowledgement or
a timer (a request the CM delays) enqueues the original request again.  The DM
is called by every worker; it protects a module by a lock file and an entry in
a locking set, the first against other processes, the second against other
sessions.

What makes it hard: several workers may handle messages of one session or one
commit at the same time; timers are never cancelled; a session is released by
whichever of four events comes last; a process may die with files locked; a
subscriber may never answer; and the daemon may be stopped in the middle of
everything.  PROJECT.json lists these hazards with their lines.

## 2. Plan

Order of work, with what each module is to show.

1. `CircularBuffer` / `Fifo`: the queue under everything. *Done.*
2. `Locking` / `LockService`: who holds which lock. *Done.*
3. `CommitProtocol` / `CommitService`: one outcome per commit. *Done.*
4. `WorkerPool`: every message handled, the stop ends. *Done.*
5. `SessionRequests`: one request at a time, answered once, memory. *Done,
   without proofs;* its inductive invariant and theorems are next.
6. Session copies: time stamps, refresh, replay of operations, so that a
   commit merges with those before it; copy-config and its lock loop.
7. Subscriptions: NP destination tree and Persistence Manager together, with
   unsubscription by destination when a subscriber dies.
8. Schemas and Module Dependencies: use counts against uninstall; the
   transitive closure against a reference definition.
9. NACM: rule evaluation as an operator against a reference; reload.
10. Memory management, Session Manager, lists and bit sets.
11. Client library: calls under the connection lock, subscription server.
12. Composition of `SessionRequests` with `WorkerPool` (the queue of one is
    the environment of the other) and of `Locking` with `CommitProtocol`.

## 3. Modules

### CircularBuffer, Fifo (`sr_cbuff_*`)

State: `data` (the slots), `head`, `count`; the capacity is the number of
slots.  Actions `Enqueue` (enlarging a full buffer to twice its size and moving
the wrapped part, lines 494-525) and `Dequeue`.  Slots that `realloc` adds
hold the constant `Junk`.  `Fifo` is the specification: a sequence.  The
refinement mapping is `Contents`, the slots from `head` on.
`sr_cbuff_search`, which changes nothing, is left out.

### Locking, LockService (`dm_lock_module` ... `dm_unlock_datastore`, commit)

State: per process the lock files marked in its locking set (`lockSet`), its
`ds_lock` flags and the holder of `commit_lock`; per lock file the process
that has the operating system's lock; per session its datastore, modified
files, `holds_ds_lock`, and where its request is; per DM session
`locked_files`.  A commit has a DM session of its own
(`c_ctx->session`); its locks are listed there, or it relies on those of the
user's session.  A lock of a module is one step, because it happens under the
mutex of the locking set; a lock of the datastore, its rollback, an unlock and
the lock phase of a commit take one step per module.  `Crash` ends a process
and frees its file locks.  External: file locks (`fcntl`), permissions (the
constant `Denied`), the order of modules (`Rank`).  `LockService` has one
owner per lock file and nothing else.

### CommitProtocol, CommitService (`rp_dt_commit` from the verify phase on)

One commit of the running datastore.  State: the commit context (state,
result, errors, its mutex, whether it is in the tree or freed), the NP's entry
for the commit, the worker that runs `rp_dt_commit`, timers, and the calls to
`rp_all_notifications_received` that acknowledgements and timers make, each
between its read lock, mutex and result.  Subscribers answer with a verdict, or
never; those in `Verifier` are asked in the verify phase.  Shutdown is
`rp_wait_for_commits_to_finish`, its two flags set in two steps.  A resumed
commit looks its context up without the lock of the tree (`Find`) and takes the
context's mutex in another step (`Resume`).
`CommitService` is the vote: open, then decided once, then told.
Left out: subscriptions that do not match the change, failures of allocation
and of sending, the config-change notification, a second commit context, and a
`cur_req_mutex` that `rp_all_notifications_received` does not get within
`MUTEX_WAIT_TIME` (ten seconds): the request would not be enqueued again.  Only
the end of the handler that has just paused can hold it then.

### WorkerPool (`rp_worker_thread_execute`, `rp_msg_process`, `rp_cleanup`)

State: the queue, `active_threads`, the stop flag, a program counter per
thread and for `rp_cleanup`; a thread at "sleep" is in `pthread_cond_wait`.  A step
is a critical section of `request_queue_mutex`, or what lies between two.  The
spin before sleeping only takes time.

### SessionRequests (CM and RP for one session)

State: the session in the CM (`cm`: request counter, queue, stop and
connection flags) and in the RP (`rp`: state, request under way, providers
owed, message counter), each with a flag for being allocated, the messages
between them, timers, and what providers have been asked.  A request is plain,
a data request, an RPC, or one that a notification session must not issue.
Data requests and RPCs wait for providers (`Paused`); an RPC leaves the session
in the state "data loaded", so a request after it does not ask again.
`Vanishes` says whether the client may close its end before the daemon notices.

A request for internal state data, which the RP puts into its own queue, takes
the way of one that a provider answers at once; no order of steps is lost, since
its handler does the same but for nested data.  The handler of an RPC's answer does not wait:
`session->req` is NULL by then, and `np_data_provider_request` refuses such a
session (`src/notification_processor.c:1445`).  Left out: failures of
allocation, more than one nested request per answer, internal state data asked
for by the validation of an RPC's answer, a `cur_req_mutex` that a handler does
not get within `MUTEX_WAIT_TIME` (a timer message would be lost; in builds
without timed locks the handler waits), anything after a use of released memory,
requests the client sends after it stopped the session.

### MC and Docs modules

`MCLocking`, `MCCommit`, `MCPool`, `MCRequests`, `MCBuffer` give constants
their values.  `LockingDocs` and `CommitDocs` (and one
definition in `MCPool`) state what the repository's comments
promise where the code does something else.

In the components, definitions marked as faults (`RetryAlwaysSucceeds`,
`TimeoutIgnored`, ...) are variants with a plausible bug.  No specification
uses them; each property is violated when one takes the place of the
definition after it, as PROJECT.json records.

## 4. Runs

Passing runs (distinct states in parentheses):

| Run | Instance | Shows |
|---|---|---|
| `LockingTwo` (14633) | 2 sessions of the daemon, 2 modules, running; one user denied one module | datastore locks belong to one session; commits hold all their locks and are isolated; closed sessions hold none |
| `LockingThree` (54188) | 3 sessions in 2 processes, 2 modules (one without data), crashes | exclusion within and across processes; implements `LockService` |
| `LockingDs` (314861) | 2 sessions, 1 module, startup and candidate | the same while sessions switch datastores; an unlock or the end of a session leaves nothing locked in either |
| `Commit` (23889) | 3 subscriptions, 2 of them verifiers with a common name, 1 of those not to be told of an abort it caused; failing writes, shutdown; fair | written only if accepted, abort final, resumed once, no use of a freed context, written under locks, implements `CommitService`; client answered, context released |
| `CommitDirect` (301) | no verifiers; fair | released without a pause |
| `Pool` (84057) | 3 threads, 3 messages, stop; fair | `active_threads` exact; messages queued while a thread is active are handled; stop ends |
| `Requests` (262558) | a data request, an RPC, a plain request; 1 provider and 1 nested request; fair | one request in the RP, answers in order and once, no use of freed sessions; answered; released |
| `RequestsGone` (890679) | all 4 kinds of requests, 2 providers, client may vanish | answers in order; a released session is used only after the client has vanished |
| `Buffer` (16849) | 2 elements, capacity 2 to 8 | implements `Fifo` |

Bounds.  Two sessions suffice for every conflict over a lock; the third, in a
second process, brings in the file locks.  Two modules are the least for a
half-taken datastore lock, its rollback and a half-locked commit.  Two
verifiers and one other subscriber give a refusal, an acceptance and a
subscriber first told in the apply phase; with a common name and one of them
to be spared, an abort is told to both, or to nobody.  Three threads let one
run, one sleep and one be in between; `RP_REQ_PER_THREADS` is 1 rather than 2,
so that the rule that divides by it matters with three messages.  Three
requests are one under way and two queued, and the first two may both wait, so
that late answers to one meet the other.  `MaxItems` 6 lets the buffer be
enlarged twice, with the head at every slot.

Deadlock is checked in the runs of `Locking` and `CircularBuffer`.  The other
instances really stop: after their only commit, when the pool was stopped, when
the session is released or no request is left.

Three runs end in a violation.  Each compares one statement of the repository
with the code; the findings in PROJECT.json quote it.

| Run | The statement | What the code does |
|---|---|---|
| `DocLockKept` | a locked module stays locked until it is unlocked or the session ends (`inc/sysrepo.h:1100`) | the rollback of a datastore lock unlocks modules the session held before (`src/data_manager.c:1766`) |
| `DocOkWritten` | OK on success (`inc/sysrepo.h:1014`) | an aborted commit may answer OK (`src/request_processor.c:4252`) |
| `DocSignal` | a signal is sent if no active thread is ready to process the request (`src/request_processor.c:4208`) | the signal may reach no thread (`src/request_processor.c:3803`) |

The other definitions of `LockingDocs` and `CommitDocs` record further
disagreements.  They do not hold either; each is
refuted when it replaces the property of the run of its module (`LocksAllModels`
with `Rank <- MCRankRev`, `UnlocksItsDatastore` with two datastores in `UsedDs`,
`ApplyOnlyIfWritten` with `WriteFails` TRUE, `AbortReachesOthers` with
`MCSharedXpath`, `OnlyOngoingCommits` with `NoAbort` equal to `Verifier`,
`ShutdownDrains` with `MayStop` TRUE).

| Definition | The statement | What the code does |
|---|---|---|
| `UnlocksItsDatastore` | unlocks the datastore the session is tied to (`inc/sysrepo.h:1085`) | empties `locked_files` for every datastore |
| `LocksAllModels` | all models are locked, or the lock is refused (`inc/sysrepo.h:1071`) | skips models the user may not lock |
| `RetryOnlyChecks` | the retry checks the holder (`src/data_manager.c:4322`) | it may acquire the lock, and the user's session keeps it |
| `ApplyOnlyIfWritten` | apply comes after a successful write (`inc/sysrepo.h:1202`) | it also comes after a failed one |
| `ReleasedWhenFinished` | released when the phase has finished (`src/request_processor.c:4299`) | the verify timer, never cancelled, ends the next phase early |
| `RefuserSpared` | the refuser gets no abort event (`inc/sysrepo.h:1178`) | the list of refusers may go to the wrong thread |
| `AbortReachesOthers` | other verifiers get the abort event (`inc/sysrepo.h:1179`) | not when they share the refuser's name |
| `OnlyOngoingCommits` | a list of ongoing commits (`src/notification_processor.c:75`) | an abort nobody is told of leaves its entry |
| `ShutdownDrains` | waits until the commit is finished (`src/request_processor.h:147`) | a commit that waits for verifiers is not resumed; the wait ends by its time limit |

Limits of the results.  `MemorySafe` excepts a client that is gone before the
daemon notices: a failed write then closes the connection, and with it the
session that `cm_msg_send_session` goes on to use
(`src/connection_manager.c:1749`).  `RequestsGone` shows that nothing else leads
to the use of a released session.  `ImplementsCommitService` is about the vote:
its decision does not depend on the outcome of the write, which `rp_dt_commit`
does not look at either (`ApplyOnlyIfWritten`).
`Answered` and `Released` leave out a session whose RPC waits for its
subscriber, which has no timeout, and requests a notification session must not
issue, which are never answered (`src/request_processor.c:3661`).  `Answered` and
`Released` of a commit leave out the stop of the daemon.

Fairness.  Weak fairness of a thread's steps is what the operating system's
scheduler gives a runnable thread; of a timer and of the CM's queue, what the
event loop gives.  Clients, subscribers and providers owe nothing.  In
`CommitProtocol` and `SessionRequests` a message in the RP's queue is
eventually taken.  The pool itself guarantees that only while a thread is
active or another message comes: `DocSignal` shows the case it does not, so the
liveness results of the two hold up to that lost wake-up.

## 5. Proofs

For all values of the constants, with TLAPS:

* `LockingProofs`: `TypeOK`, `LockExclusion`, `LocksBacked`, `DsLockOwned`,
  `CommitCovered`, `CommitIsolation`, `NothingLeftLocked`, and the refinement
  of `LockService`.  The inductive invariant is `TypeOK`, `LockExclusion`,
  `LocksBacked`, `DsLockOwned` and `SessionsInv`.  Exclusion alone is not
  inductive: a session is granted a lock because the locking set says it is
  free, so the invariant must say that lists, locking set and file locks agree
  (`LocksBacked`), and `SessionsInv` what each call in progress has taken.
* `CommitProofs`: the six invariants of the run `Commit` and the refinement of
  `CommitService`.  The inductive invariant is the conjunction of `TypeOK`,
  `WorkerInv` (state of the context at each point of the worker), `MemoryInv`
  (who may still reach the context), `SentInv` and `NpInv` (the NP's counters
  against what was sent), `CallInv` (what a caller between its locks knows)
  and `DecisionInv` (result and votes).  No use after free needs `MemoryInv`,
  since removal waits for readers and the worker's mutex, and not for those
  who only hold the number of the commit, or have looked the context up and not
  yet taken its mutex: nobody removes a context that is decided and not finished.
* `PoolProofs`: `TypeOK` and `ActiveCounted`; the strengthening is that only
  posted messages are in the queue.
* `BufferProofs`: `TypeOK` and the refinement of `Fifo`, from lemmas on the
  arithmetic of wrapped indices before and after an enlargement.

The assumptions are the named `ASSUME`s of the modules: the constants have the
types their comments give, the set of threads is finite and not empty, the
initial capacity is positive, and the values that stand for "nobody", "empty"
and "junk" are none of the others.

Only model-checked: all liveness properties (`Answered`, `Released`,
`PickedUp`, `CleanupEnds`), since the prover does neither
fairness nor ENABLED; `SessionRequests`; and the disagreements of the Docs
modules.

## 6. Not modelled

Contents of data trees and their validation (libyang's work), formats of
messages, files and command lines, logging, failures of allocation.  The parts
marked "planned" above have state and are to be added in the order of the
plan.
