------------------------------ MODULE Locking ------------------------------
(***************************************************************************)
(* Module and datastore locks of the Data Manager (src/data_manager.c),    *)
(* the locking set under them (src/common/sr_data_structs.c) and the lock  *)
(* phase of a commit.                                                      *)
(*                                                                         *)
(* A lock is a lock file per module and datastore.  A process (sysrepod,   *)
(* or an application in library mode) keeps a locking set: which lock      *)
(* files it holds.  Across processes the operating system's file lock      *)
(* decides.  A session runs one request at a time (the Connection Manager  *)
(* queues the others); requests of different sessions interleave at every  *)
(* lock file they take or give back.                                       *)
(***************************************************************************)
EXTENDS Naturals

CONSTANTS
    Process,      \* processes with a Data Manager of their own
    Session,      \* client sessions
    ProcOf,       \* the process that serves a session
    Module,       \* YANG modules, all of them implemented
    Rank,         \* the order in which loops visit the modules
    NoData,       \* modules without data (can_not_be_locked)
    Denied,       \* <<session, file>>: open(2) of the lock file gives EACCES
    UsedDs,       \* bound: the datastores sessions are tied to
    Nobody        \* no process, no session

Datastore == {"startup", "running", "candidate"}

File == Module \X Datastore

\* The candidate datastore is private to a session and has no lock file on disk.
OnDisk(f) == f[2] # "candidate"

\* A client session has its own Data Manager session and, while it commits,
\* the session of the commit context.
DmSession == Session \X {"user", "commit"}

Proc(x) == ProcOf[x[1]]

ASSUME LockingAssumption ==
    /\ ProcOf \in [Session -> Process]
    /\ Rank \in [Module -> Nat]
    /\ NoData \subseteq Module
    /\ Denied \subseteq Session \X File
    /\ UsedDs \subseteq Datastore
    /\ Nobody \notin Process
    /\ Nobody \notin Session

VARIABLES
    osLock,       \* file -> the process that holds the file lock
    lockSet,      \* process -> lock files marked locked in its locking set
    dsLock,       \* process -> dm_ctx->ds_lock
    commitLock,   \* process -> the session that holds rp_ctx->commit_lock for writing
    ds,           \* session -> the datastore it is tied to
    lockedFiles,  \* DM session -> its locked_files list
    holdsDsLock,  \* session -> its holds_ds_lock flags
    modified,     \* session -> files whose session copy is modified
    pc,           \* session -> where its current request is
    todo,         \* session -> modules the loop of the request has still to visit
    locked,       \* session -> the list "locked" of dm_lock_datastore
    rc            \* session -> result so far of the request in progress

locks == <<osLock, lockSet, lockedFiles>>
vars == <<osLock, lockSet, dsLock, commitLock, ds, lockedFiles, holdsDsLock,
          modified, pc, todo, locked, rc>>

Result == {"ok", "locked", "unauthorized", "failed"}

\* Where the request of a session can be.
\* "load", "retry": dm_commit_load_modified_models; "hold": all modules locked;
\* "paused": waiting for verifiers; "resumed": verifiers answered; "release":
\* freeing the resources of the commit context.
Step == {"closed", "idle", "lock_ds", "undo", "unlock_ds", "stop",
         "load", "retry", "hold", "paused", "resumed", "release"}

\* The types of the variables.
TypeOK ==
    /\ osLock \in [File -> Process \union {Nobody}]
    /\ lockSet \in [Process -> SUBSET File]
    /\ dsLock \in [Process -> SUBSET Datastore]
    /\ commitLock \in [Process -> Session \union {Nobody}]
    /\ ds \in [Session -> Datastore]
    /\ lockedFiles \in [DmSession -> SUBSET File]
    /\ holdsDsLock \in [Session -> SUBSET Datastore]
    /\ modified \in [Session -> SUBSET File]
    /\ pc \in [Session -> Step]
    /\ todo \in [Session -> SUBSET Module]
    /\ locked \in [Session -> SUBSET Module]
    /\ rc \in [Session -> Result]

Init ==
    /\ osLock = [f \in File |-> Nobody]
    /\ lockSet = [p \in Process |-> {}]
    /\ dsLock = [p \in Process |-> {}]
    /\ commitLock = [p \in Process |-> Nobody]
    /\ ds = [s \in Session |-> "running"]
    /\ lockedFiles = [x \in DmSession |-> {}]
    /\ holdsDsLock = [s \in Session |-> {}]
    /\ modified = [s \in Session |-> {}]
    /\ pc = [s \in Session |-> "closed"]
    /\ todo = [s \in Session |-> {}]
    /\ locked = [s \in Session |-> {}]
    /\ rc = [s \in Session |-> "ok"]

-----------------------------------------------------------------------------
(* Lock files *)

FileOf(s, m) == <<m, ds[s]>>

\* Fault: the flag of the item in the locking set is not looked at.
FlagIgnored(s, f) ==
    IF <<s, f>> \in Denied THEN "unauthorized"
    ELSE IF osLock[f] \in {Nobody, ProcOf[s]} THEN "ok" ELSE "locked"

\* Fault: fcntl's refusal is not looked at.
RefusalIgnored(s, f) ==
    IF f \in lockSet[ProcOf[s]] THEN "locked"
    ELSE IF <<s, f>> \in Denied THEN "unauthorized" ELSE "ok"

\* sr_locking_set_lock_file_open, non-blocking, for writing: the item's flag,
\* then opening the file as the user, then the operating system's lock, which
\* the process itself would be granted again.
LockFileResult(s, f) ==
    IF f \in lockSet[ProcOf[s]] THEN "locked"
    ELSE IF <<s, f>> \in Denied THEN "unauthorized"
    ELSE IF osLock[f] \in {Nobody, ProcOf[s]} THEN "ok"
    ELSE "locked"

\* What dm_lock_module returns to DM session x.  A module without data and a
\* file already in the session's list need nothing; a candidate file is only
\* recorded.
LockResult(x, m) ==
    LET f == FileOf(x[1], m)
    IN  IF m \in NoData \/ f \in lockedFiles[x] \/ ~OnDisk(f)
        THEN "ok"
        ELSE LockFileResult(x[1], f)

\* Fault: the session lists the module instead of its lock file.
ModuleListed(x, m) ==
    /\ lockedFiles' = [lockedFiles EXCEPT ![x] = @ \union {m}]
    /\ UNCHANGED <<lockSet, osLock>>

\* The state change of a dm_lock_module that returns "ok".
TakeLock(x, m) ==
    LET f == FileOf(x[1], m)
        p == Proc(x)
    IN  IF m \in NoData \/ f \in lockedFiles[x]
        THEN UNCHANGED locks
        ELSE /\ lockedFiles' = [lockedFiles EXCEPT ![x] = @ \union {f}]
             /\ IF OnDisk(f)
                THEN /\ lockSet' = [lockSet EXCEPT ![p] = @ \union {f}]
                     /\ osLock' = [osLock EXCEPT ![f] = p]
                ELSE UNCHANGED <<lockSet, osLock>>

\* dm_lock_module as a whole: lock files change only when it returns "ok".
TryLock(x, m, r) ==
    /\ r = LockResult(x, m)
    /\ IF r = "ok" THEN TakeLock(x, m) ELSE UNCHANGED locks

\* Fault: the file is taken off the list and stays locked.
OnlyUnlisted(x, f) ==
    /\ lockedFiles' = [lockedFiles EXCEPT ![x] = @ \ {f}]
    /\ UNCHANGED <<lockSet, osLock>>

\* Takes file f off the list of x; sr_locking_set_unlock_close_file on it,
\* unless it is a candidate file, does nothing when the set has no such lock.
DropLock(x, f) ==
    /\ lockedFiles' = [lockedFiles EXCEPT ![x] = @ \ {f}]
    /\ IF OnDisk(f) /\ f \in lockSet[Proc(x)]
       THEN /\ lockSet' = [lockSet EXCEPT ![Proc(x)] = @ \ {f}]
            /\ osLock' = [osLock EXCEPT ![f] = Nobody]
       ELSE UNCHANGED <<lockSet, osLock>>

\* The modules whose session copy in the current datastore is modified.
ModifiedModules(s) == {m \in Module : FileOf(s, m) \in modified[s]}

\* The loops visit modules in a fixed order.
IsNext(s, m) ==
    /\ m \in todo[s]
    /\ \A n \in todo[s] : Rank[m] <= Rank[n]

Goto(s, step) == pc' = [pc EXCEPT ![s] = step]

Rc(s, r) == rc' = [rc EXCEPT ![s] = r]

\* The request of s ends; rc[s] was the result of its loop.
Answer(s) == Goto(s, "idle") /\ Rc(s, "ok")

-----------------------------------------------------------------------------
(* Sessions *)

\* rp_session_start / dm_session_start
SessionStart(s, d) ==
    /\ pc[s] = "closed"
    /\ Goto(s, "idle")
    /\ ds' = [ds EXCEPT ![s] = d]
    /\ UNCHANGED <<locks, dsLock, commitLock, holdsDsLock, modified, todo, locked, rc>>

\* rp_dt_switch_datastore
SwitchDatastore(s, d) ==
    /\ pc[s] = "idle"
    /\ ds' = [ds EXCEPT ![s] = d]
    /\ UNCHANGED <<locks, dsLock, commitLock, holdsDsLock, modified, pc, todo, locked, rc>>

\* A set, delete or move request that modifies the session copy of m; it needs
\* commit_lock for reading.
Edit(s, m) ==
    /\ pc[s] = "idle"
    /\ commitLock[ProcOf[s]] = Nobody
    /\ m \notin NoData
    /\ modified' = [modified EXCEPT ![s] = @ \union {FileOf(s, m)}]
    /\ UNCHANGED <<locks, dsLock, commitLock, ds, holdsDsLock, pc, todo, locked, rc>>

\* The session copies of the datastore s is tied to are dropped.
Discarded(s) == modified' = [modified EXCEPT ![s] = {f \in @ : f[2] # ds[s]}]

\* dm_discard_changes
DiscardChanges(s) ==
    /\ pc[s] = "idle"
    /\ Discarded(s)
    /\ UNCHANGED <<locks, dsLock, commitLock, ds, holdsDsLock, pc, todo, locked, rc>>

-----------------------------------------------------------------------------
(* Lock and unlock requests *)

\* A request that is refused at once changes nothing, and is no step.

\* rp_dt_lock with a module name: the session copy must not be modified.
LockModule(s, m) ==
    /\ pc[s] = "idle"
    /\ FileOf(s, m) \notin modified[s]
    /\ TryLock(<<s, "user">>, m, "ok")
    /\ UNCHANGED <<dsLock, commitLock, ds, holdsDsLock, modified, pc, todo, locked, rc>>

\* dm_unlock_module
UnlockModule(s, m) ==
    /\ pc[s] = "idle"
    /\ FileOf(s, m) \in lockedFiles[<<s, "user">>]
    /\ DropLock(<<s, "user">>, FileOf(s, m))
    /\ UNCHANGED <<dsLock, commitLock, ds, holdsDsLock, modified, pc, todo, locked, rc>>

\* rp_dt_lock without a module name, up to the loop of dm_lock_datastore: no
\* session copy is modified, the datastore lock is free.
LockDatastore(s) ==
    /\ pc[s] = "idle"
    /\ ModifiedModules(s) = {}
    /\ ds[s] \notin dsLock[ProcOf[s]]
    /\ dsLock' = [dsLock EXCEPT ![ProcOf[s]] = @ \union ({ds[s]} \ {"candidate"})]
    /\ holdsDsLock' = [holdsDsLock EXCEPT ![s] = @ \union {ds[s]}]
    /\ todo' = [todo EXCEPT ![s] = Module]
    /\ Goto(s, "lock_ds")
    /\ UNCHANGED <<locks, commitLock, ds, modified, locked, rc>>

\* One turn of the loop: a module the user may not lock is skipped, any other
\* failure starts the rollback.
LockDatastoreNext(s) ==
    /\ pc[s] = "lock_ds"
    /\ \E m \in Module, r \in Result :
          /\ IsNext(s, m)
          /\ TryLock(<<s, "user">>, m, r)
          /\ Rc(s, r)
          /\ IF r \in {"ok", "unauthorized"}
             THEN /\ todo' = [todo EXCEPT ![s] = @ \ {m}]
                  /\ locked' = [locked EXCEPT ![s] = IF r = "ok" THEN @ \union {m} ELSE @]
                  /\ UNCHANGED pc
             ELSE /\ Goto(s, "undo")
                  /\ todo' = [todo EXCEPT ![s] = locked[s]]
                  /\ locked' = [locked EXCEPT ![s] = {}]
    /\ UNCHANGED <<dsLock, commitLock, ds, holdsDsLock, modified>>

LockDatastoreDone(s) ==
    /\ pc[s] = "lock_ds"
    /\ todo[s] = {}
    /\ locked' = [locked EXCEPT ![s] = {}]
    /\ Answer(s)
    /\ UNCHANGED <<locks, dsLock, commitLock, ds, holdsDsLock, modified, todo>>

\* One turn of the rollback: dm_unlock_module of a module of the list.
UndoNext(s) ==
    /\ pc[s] = "undo"
    /\ \E m \in Module :
          /\ IsNext(s, m)
          /\ todo' = [todo EXCEPT ![s] = @ \ {m}]
          /\ IF FileOf(s, m) \in lockedFiles[<<s, "user">>]
             THEN DropLock(<<s, "user">>, FileOf(s, m))
             ELSE UNCHANGED locks
    /\ UNCHANGED <<dsLock, commitLock, ds, holdsDsLock, modified, pc, locked, rc>>

\* Fault: the session still believes it holds the datastore lock.
UndoneByHalf(s) ==
    /\ pc[s] = "undo"
    /\ todo[s] = {}
    /\ dsLock' = [dsLock EXCEPT ![ProcOf[s]] = @ \ {ds[s]}]
    /\ Answer(s)
    /\ UNCHANGED <<locks, commitLock, ds, holdsDsLock, modified, todo, locked>>

\* The end of the rollback gives the datastore lock back.
UndoDone(s) ==
    /\ pc[s] = "undo"
    /\ todo[s] = {}
    /\ dsLock' = [dsLock EXCEPT ![ProcOf[s]] = @ \ {ds[s]}]
    /\ holdsDsLock' = [holdsDsLock EXCEPT ![s] = @ \ {ds[s]}]
    /\ Answer(s)
    /\ UNCHANGED <<locks, commitLock, ds, modified, todo, locked>>

\* An unlock request without a module name, or the session stop that
\* the Connection Manager lets through once no request is in progress.
UnlockStart(s, step) ==
    /\ pc[s] = "idle"
    /\ step \in {"unlock_ds", "stop"}
    /\ Goto(s, step)
    /\ UNCHANGED <<locks, dsLock, commitLock, ds, holdsDsLock, modified, todo, locked, rc>>

\* One turn of the loop of dm_unlock_datastore, on the user's session ...
UnlockNext(s) ==
    /\ pc[s] \in {"unlock_ds", "stop"}
    /\ \E f \in lockedFiles[<<s, "user">>] : DropLock(<<s, "user">>, f)
    /\ UNCHANGED <<dsLock, commitLock, ds, holdsDsLock, modified, pc, todo, locked, rc>>

\* Fault: the loop may end early.
UnlockEndsEarly(s) ==
    /\ pc[s] \in {"unlock_ds", "stop"}
    /\ dsLock' = [dsLock EXCEPT ![ProcOf[s]] = @ \ holdsDsLock[s]]
    /\ holdsDsLock' = [holdsDsLock EXCEPT ![s] = {}]
    /\ Goto(s, IF pc[s] = "stop" THEN "closed" ELSE "idle")
    /\ UNCHANGED <<locks, commitLock, ds, modified, todo, locked, rc>>

\* ... and its end, which gives back every datastore lock.  dm_session_stop
\* also frees the session copies.
UnlockDone(s) ==
    /\ pc[s] \in {"unlock_ds", "stop"}
    /\ lockedFiles[<<s, "user">>] = {}
    /\ dsLock' = [dsLock EXCEPT ![ProcOf[s]] = @ \ holdsDsLock[s]]
    /\ holdsDsLock' = [holdsDsLock EXCEPT ![s] = {}]
    /\ IF pc[s] = "stop"
       THEN /\ modified' = [modified EXCEPT ![s] = {}]
            /\ Goto(s, "closed")
       ELSE /\ Goto(s, "idle")
            /\ UNCHANGED modified
    /\ UNCHANGED <<locks, commitLock, ds, todo, locked, rc>>

-----------------------------------------------------------------------------
(* Commit *)

ReleaseCommitLock(s) == commitLock' = [commitLock EXCEPT ![ProcOf[s]] = Nobody]

\* rp_dt_commit up to the loop of dm_commit_load_modified_models
CommitStart(s) ==
    /\ pc[s] = "idle"
    /\ commitLock[ProcOf[s]] = Nobody
    /\ ModifiedModules(s) # {}
    /\ Goto(s, "load")
    /\ todo' = [todo EXCEPT ![s] = ModifiedModules(s)]
    /\ commitLock' = [commitLock EXCEPT ![ProcOf[s]] = s]
    /\ UNCHANGED <<locks, dsLock, ds, holdsDsLock, modified, locked, rc>>

\* A module that was locked may still not be committed: in running, all of its nodes
\* must be enabled.
Checked(s, r) == IF r = "ok" /\ ds[s] = "running" THEN {"ok", "failed"} ELSE {r}

\* One turn of the loop: the commit's own session tries first.
CommitLoadNext(s) ==
    /\ pc[s] = "load"
    /\ \E m \in Module, r \in Result : \E c \in Checked(s, r) :
          /\ IsNext(s, m)
          /\ TryLock(<<s, "commit">>, m, r)
          /\ todo' = [todo EXCEPT ![s] = IF r = "ok" THEN @ \ {m} ELSE @]
          /\ Rc(s, c)
          /\ Goto(s, IF c = "ok" THEN "load" ELSE IF c = "locked" THEN "retry" ELSE "release")
    /\ UNCHANGED <<dsLock, commitLock, ds, holdsDsLock, modified, locked>>

\* Fault: a module locked by somebody else counts as locked by the commit.
RetryAlwaysSucceeds(s) ==
    /\ pc[s] = "retry"
    /\ \E m \in Module :
          /\ IsNext(s, m)
          /\ todo' = [todo EXCEPT ![s] = @ \ {m}]
    /\ Goto(s, "load")
    /\ UNCHANGED <<locks, dsLock, commitLock, ds, holdsDsLock, modified, locked, rc>>

\* The second call of dm_lock_module, with the session that issued the commit.
CommitRetry(s) ==
    /\ pc[s] = "retry"
    /\ \E m \in Module, r \in Result : \E c \in Checked(s, r) :
          /\ IsNext(s, m)
          /\ TryLock(<<s, "user">>, m, r)
          /\ todo' = [todo EXCEPT ![s] = IF r = "ok" THEN @ \ {m} ELSE @]
          /\ Rc(s, c)
          /\ Goto(s, IF c = "ok" THEN "load" ELSE "release")
    /\ UNCHANGED <<dsLock, commitLock, ds, holdsDsLock, modified, locked>>

CommitLoaded(s) ==
    /\ pc[s] = "load"
    /\ todo[s] = {}
    /\ Goto(s, "hold")
    /\ UNCHANGED <<locks, dsLock, commitLock, ds, holdsDsLock, modified, todo, locked, rc>>

\* Verify notifications are sent for the running datastore only; the handler
\* returns and dispatch releases commit_lock.
CommitPause(s) ==
    /\ pc[s] = "hold"
    /\ ds[s] = "running"
    /\ Goto(s, "paused")
    /\ ReleaseCommitLock(s)
    /\ UNCHANGED <<locks, dsLock, ds, holdsDsLock, modified, todo, locked, rc>>

\* The commit request is processed again once the verifiers have answered.
CommitResume(s) ==
    /\ pc[s] = "paused"
    /\ commitLock[ProcOf[s]] = Nobody
    /\ commitLock' = [commitLock EXCEPT ![ProcOf[s]] = s]
    /\ Goto(s, "resumed")
    /\ UNCHANGED <<locks, dsLock, ds, holdsDsLock, modified, todo, locked, rc>>

\* Written ("ok"), or refused: merge, validation, access control, verifiers, I/O.
CommitDecide(s, r) ==
    /\ pc[s] \in {"hold", "resumed"}
    /\ r \in {"ok", "failed"}
    /\ Goto(s, "release")
    /\ Rc(s, r)
    /\ UNCHANGED <<locks, dsLock, commitLock, ds, holdsDsLock, modified, todo, locked>>

\* One turn of the loop of dm_unlock_datastore, on the commit's session.
CommitReleaseNext(s) ==
    /\ pc[s] = "release"
    /\ \E f \in lockedFiles[<<s, "commit">>] : DropLock(<<s, "commit">>, f)
    /\ UNCHANGED <<dsLock, commitLock, ds, holdsDsLock, modified, pc, todo, locked, rc>>

\* Session copies are discarded after success, except for the candidate.
CommitDone(s) ==
    /\ pc[s] = "release"
    /\ lockedFiles[<<s, "commit">>] = {}
    /\ IF rc[s] = "ok" /\ ds[s] # "candidate" THEN Discarded(s) ELSE UNCHANGED modified
    /\ Answer(s)
    /\ ReleaseCommitLock(s)
    /\ todo' = [todo EXCEPT ![s] = {}]
    /\ UNCHANGED <<locks, dsLock, ds, holdsDsLock, locked>>

-----------------------------------------------------------------------------
\* A process dies: the kernel drops its file locks, everything else was in
\* its memory.
Crash(p) ==
    LET gone(x) == Proc(x) = p
    IN  /\ \E s \in Session : ProcOf[s] = p /\ pc[s] # "closed"
        /\ osLock' = [f \in File |-> IF osLock[f] = p THEN Nobody ELSE osLock[f]]
        /\ lockSet' = [lockSet EXCEPT ![p] = {}]
        /\ dsLock' = [dsLock EXCEPT ![p] = {}]
        /\ commitLock' = [commitLock EXCEPT ![p] = Nobody]
        /\ lockedFiles' = [x \in DmSession |-> IF gone(x) THEN {} ELSE lockedFiles[x]]
        /\ holdsDsLock' = [s \in Session |-> IF ProcOf[s] = p THEN {} ELSE holdsDsLock[s]]
        /\ modified' = [s \in Session |-> IF ProcOf[s] = p THEN {} ELSE modified[s]]
        /\ pc' = [s \in Session |-> IF ProcOf[s] = p THEN "closed" ELSE pc[s]]
        /\ todo' = [s \in Session |-> IF ProcOf[s] = p THEN {} ELSE todo[s]]
        /\ locked' = [s \in Session |-> IF ProcOf[s] = p THEN {} ELSE locked[s]]
        /\ rc' = [s \in Session |-> IF ProcOf[s] = p THEN "ok" ELSE rc[s]]
        /\ UNCHANGED ds

LockRequest(s) ==
    \/ \E m \in Module : LockModule(s, m) \/ UnlockModule(s, m)
    \/ LockDatastore(s) \/ LockDatastoreNext(s) \/ LockDatastoreDone(s)
    \/ UndoNext(s) \/ UndoDone(s)
    \/ \E step \in Step : UnlockStart(s, step)
    \/ UnlockNext(s) \/ UnlockDone(s)

Commit(s) ==
    \/ CommitStart(s) \/ CommitLoadNext(s) \/ CommitRetry(s) \/ CommitLoaded(s)
    \/ CommitPause(s) \/ CommitResume(s)
    \/ \E r \in Result : CommitDecide(s, r)
    \/ CommitReleaseNext(s) \/ CommitDone(s)

SessionStep(s) ==
    \/ \E d \in UsedDs : SessionStart(s, d) \/ SwitchDatastore(s, d)
    \/ \E m \in Module : Edit(s, m)
    \/ DiscardChanges(s)
    \/ LockRequest(s)
    \/ Commit(s)

Next ==
    \/ \E s \in Session : SessionStep(s)
    \/ \E p \in Process : Crash(p)

Spec == Init /\ [][Next]_vars

-----------------------------------------------------------------------------
(* Properties *)

\* No lock file is in the lists of two Data Manager sessions, be they of one
\* process or of two (dm_lock_module, sr_locking_set_lock_file_open).
LockExclusion ==
    \A x, y \in DmSession :
        x # y => \A f \in lockedFiles[x] \intersect lockedFiles[y] : ~OnDisk(f)

\* The three records of a lock agree at every step: a lock file is marked in the
\* locking set of a process exactly when some session of the process lists it, and
\* exactly then the process has the file lock.  No rollback, unlock loop, release
\* or crash leaves a lock nobody can give back.
LocksBacked ==
    \A p \in Process, f \in File :
        /\ f \in lockSet[p] <=>
              OnDisk(f) /\ \E x \in DmSession : Proc(x) = p /\ f \in lockedFiles[x]
        /\ osLock[f] = p <=> f \in lockSet[p]

\* A set flag of dm_ctx->ds_lock belongs to exactly one session of the process
\* (dm_lock_datastore, its rollback and dm_unlock_datastore).
DsLockOwned ==
    \A p \in Process, d \in Datastore \ {"candidate"} :
        LET holders == {s \in Session : ProcOf[s] = p /\ d \in holdsDsLock[s]}
        IN  /\ d \in dsLock[p] <=> holders # {}
            /\ \A s, t \in holders : s = t

Committing(s) == pc[s] \in {"hold", "paused", "resumed"}

\* From the moment its models are loaded until it is decided, also while paused
\* without commit_lock, a commit holds the lock of every module it is going to
\* write, in its own session or in the one that issued it.
CommitCovered ==
    \A s \in Session : Committing(s) =>
        \A m \in ModifiedModules(s) \ NoData :
            FileOf(s, m) \in lockedFiles[<<s, "user">>] \union lockedFiles[<<s, "commit">>]

\* While a commit is between load and decision no other session holds the lock
\* of a file it is going to write, and no other commit is going to write it.
CommitIsolation ==
    \A s, t \in Session : s # t /\ Committing(s) =>
        \A f \in modified[s] : f[2] = ds[s] /\ OnDisk(f) =>
            /\ f \notin lockedFiles[<<t, "user">>] \union lockedFiles[<<t, "commit">>]
            /\ Committing(t) /\ ds[t] = ds[s] => f \notin modified[t]

\* A closed session leaves nothing locked, and the session of a commit context
\* holds locks only while its commit is in progress.
NothingLeftLocked ==
    \A s \in Session :
        /\ pc[s] = "closed" =>
              lockedFiles[<<s, "user">>] = {} /\ holdsDsLock[s] = {}
        /\ pc[s] \notin {"load", "retry", "hold", "paused", "resumed", "release"} =>
              lockedFiles[<<s, "commit">>] = {}

-----------------------------------------------------------------------------
(* The promise to users *)

StoredFile == {f \in File : OnDisk(f)}

Owns(s, f) == f \in lockedFiles[<<s, "user">>] \union lockedFiles[<<s, "commit">>]

LockOwner ==
    [f \in StoredFile |->
        IF \E s \in Session : Owns(s, f) THEN CHOOSE s \in Session : Owns(s, f) ELSE Nobody]

LS == INSTANCE LockService WITH
          Client <- Session, Lockable <- StoredFile, owner <- LockOwner

\* The Data Manager's locks implement LockService: whatever the interleaving of
\* lock, unlock and commit requests, rollbacks, session stops and crashes, a lock
\* passes from one client to another only through being free.
ImplementsLockService == LS!Spec
=============================================================================
