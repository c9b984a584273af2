--------------------------- MODULE LockingProofs ---------------------------
(***************************************************************************)
(* Proofs about Locking, for any number of processes, sessions and modules. *)
(***************************************************************************)
EXTENDS Locking, TLAPS

USE LockingAssumption

LEMMA DmSessionElements ==
    ASSUME NEW s \in Session
    PROVE  /\ <<s, "user">> \in DmSession
           /\ <<s, "commit">> \in DmSession
           /\ <<s, "user">> # <<s, "commit">>
           /\ <<s, "user">>[1] = s
           /\ <<s, "commit">>[1] = s
BY DEF DmSession

LEMMA DmSessionParts ==
    ASSUME NEW x \in DmSession
    PROVE  /\ x[1] \in Session
           /\ x[2] \in {"user", "commit"}
           /\ x = <<x[1], x[2]>>
           /\ Proc(x) \in Process
BY DEF DmSession, Proc

LEMMA FileOfType ==
    ASSUME TypeOK, NEW s \in Session, NEW m \in Module
    PROVE  FileOf(s, m) \in File
BY DEF TypeOK, FileOf, File

(***************************************************************************)
(* The three ways lock files change.                                       *)
(***************************************************************************)
Taking == \E x \in DmSession, m \in Module : LockResult(x, m) = "ok" /\ TakeLock(x, m)

Dropping == \E x \in DmSession : \E f \in lockedFiles[x] : DropLock(x, f)

Crashing == \E p \in Process : Crash(p)

\* Every step of the system leaves the lock files alone, takes one, gives one
\* back that was taken, or is the death of a process.
LEMMA LockSteps ==
    ASSUME TypeOK, [Next]_vars
    PROVE  UNCHANGED locks \/ Taking \/ Dropping \/ Crashing
<1> USE DEF locks
<1>1. ASSUME NEW x \in DmSession, NEW m \in Module, NEW r \in Result, TryLock(x, m, r)
      PROVE  UNCHANGED locks \/ Taking
  BY <1>1 DEF TryLock, Taking
<1>2. CASE UNCHANGED vars
  BY <1>2 DEF vars
<1>3. ASSUME NEW s \in Session,
             \/ \E d \in UsedDs : SessionStart(s, d) \/ SwitchDatastore(s, d)
             \/ \E m \in Module : Edit(s, m)
             \/ DiscardChanges(s)
      PROVE  UNCHANGED locks
  BY <1>3 DEF SessionStart, SwitchDatastore, Edit, DiscardChanges
<1>4. ASSUME NEW s \in Session, LockRequest(s)
      PROVE  UNCHANGED locks \/ Taking \/ Dropping
  <2>1. ASSUME NEW m \in Module, LockModule(s, m)
        PROVE  UNCHANGED locks \/ Taking
    <3>1. TryLock(<<s, "user">>, m, "ok")
      BY <2>1 DEF LockModule
    <3> QED  BY <1>1, <3>1, DmSessionElements, Zenon DEF Result
  <2>2. ASSUME NEW m \in Module, UnlockModule(s, m)
        PROVE  Dropping
    BY <2>2, DmSessionElements, Zenon DEF UnlockModule, Dropping
  <2>3. CASE LockDatastoreNext(s)
    BY <1>1, <2>3, DmSessionElements, Zenon DEF LockDatastoreNext
  <2>4. CASE UndoNext(s)
    BY <2>4, DmSessionElements, Zenon DEF UndoNext, Dropping
  <2>5. CASE UnlockNext(s)
    BY <2>5, DmSessionElements, Zenon DEF UnlockNext, Dropping
  <2>6. ASSUME LockDatastore(s) \/ LockDatastoreDone(s) \/ UndoDone(s) \/ UnlockDone(s)
                  \/ \E step \in Step : UnlockStart(s, step)
        PROVE  UNCHANGED locks
    BY <2>6 DEF LockDatastore, LockDatastoreDone, UndoDone, UnlockDone, UnlockStart
  <2> QED  BY <1>4, <2>1, <2>2, <2>3, <2>4, <2>5, <2>6 DEF LockRequest
<1>5. ASSUME NEW s \in Session, Commit(s)
      PROVE  UNCHANGED locks \/ Taking \/ Dropping
  <2>1. CASE CommitLoadNext(s)
    BY <1>1, <2>1, DmSessionElements, Zenon DEF CommitLoadNext
  <2>2. CASE CommitRetry(s)
    BY <1>1, <2>2, DmSessionElements, Zenon DEF CommitRetry
  <2>3. CASE CommitReleaseNext(s)
    BY <2>3, DmSessionElements, Zenon DEF CommitReleaseNext, Dropping
  <2>4. ASSUME CommitStart(s) \/ CommitLoaded(s) \/ CommitPause(s) \/ CommitResume(s)
                  \/ CommitDone(s) \/ \E r \in Result : CommitDecide(s, r)
        PROVE  UNCHANGED locks
    BY <2>4 DEF CommitStart, CommitLoaded, CommitPause, CommitResume, CommitDone, CommitDecide
  <2> QED  BY <1>5, <2>1, <2>2, <2>3, <2>4 DEF Commit
<1> QED  BY <1>2, <1>3, <1>4, <1>5 DEF Next, SessionStep, Crashing

-----------------------------------------------------------------------------
(* Types *)

LEMMA TypeInit == Init => TypeOK
BY DEF Init, TypeOK, Datastore, Step, Result, File

\* Lock files keep their type however they change.
LEMMA TypeLocks ==
    ASSUME TypeOK, [Next]_vars
    PROVE  /\ osLock' \in [File -> Process \union {Nobody}]
           /\ lockSet' \in [Process -> SUBSET File]
           /\ lockedFiles' \in [DmSession -> SUBSET File]
<1> USE DEF TypeOK
<1>1. CASE UNCHANGED locks
  BY <1>1 DEF locks
<1>2. CASE Taking
  <2>1. PICK x \in DmSession, m \in Module : TakeLock(x, m)
    BY <1>2 DEF Taking
  <2>2. FileOf(x[1], m) \in File /\ Proc(x) \in Process
    BY DmSessionParts, FileOfType
  <2> DEFINE f == FileOf(x[1], m)
             p == Proc(x)
  <2>3. /\ lockedFiles' \in {lockedFiles, [lockedFiles EXCEPT ![x] = @ \union {f}]}
        /\ lockSet' \in {lockSet, [lockSet EXCEPT ![p] = @ \union {f}]}
        /\ osLock' \in {osLock, [osLock EXCEPT ![f] = p]}
    BY <2>1 DEF TakeLock, locks
  <2> HIDE DEF f, p
  <2>4. f \in File /\ p \in Process
    BY <2>2 DEF f, p
  <2>5. lockedFiles' \in [DmSession -> SUBSET File]
    BY <2>3, <2>4
  <2>6. lockSet' \in [Process -> SUBSET File]
    BY <2>3, <2>4
  <2>7. osLock' \in [File -> Process \union {Nobody}]
    BY <2>3, <2>4
  <2> QED  BY <2>5, <2>6, <2>7
<1>3. CASE Dropping
  <2>1. PICK x \in DmSession : \E f \in lockedFiles[x] : DropLock(x, f)
    BY <1>3 DEF Dropping
  <2>2. PICK f \in lockedFiles[x] : DropLock(x, f)
    BY <2>1
  <2>3. Proc(x) \in Process /\ f \in File
    BY <2>2, DmSessionParts
  <2> DEFINE p == Proc(x)
  <2>4. /\ lockedFiles' = [lockedFiles EXCEPT ![x] = @ \ {f}]
        /\ lockSet' \in {lockSet, [lockSet EXCEPT ![p] = @ \ {f}]}
        /\ osLock' \in {osLock, [osLock EXCEPT ![f] = Nobody]}
    BY <2>2 DEF DropLock
  <2> HIDE DEF p
  <2>5. p \in Process /\ f \in File
    BY <2>3 DEF p
  <2>6. lockedFiles' \in [DmSession -> SUBSET File]
    BY <2>4, <2>5
  <2>7. lockSet' \in [Process -> SUBSET File]
    BY <2>4, <2>5
  <2>8. osLock' \in [File -> Process \union {Nobody}]
    BY <2>4, <2>5
  <2> QED  BY <2>6, <2>7, <2>8
<1>4. CASE Crashing
  BY <1>4 DEF Crashing, Crash
<1> QED  BY <1>1, <1>2, <1>3, <1>4, LockSteps

LEMMA TypeNext ==
    ASSUME TypeOK, [Next]_vars
    PROVE  TypeOK'
<1> DEFINE Rest ==
      /\ dsLock' \in [Process -> SUBSET Datastore]
      /\ commitLock' \in [Process -> Session \union {Nobody}]
      /\ ds' \in [Session -> Datastore]
      /\ holdsDsLock' \in [Session -> SUBSET Datastore]
      /\ modified' \in [Session -> SUBSET File]
      /\ pc' \in [Session -> Step]
      /\ todo' \in [Session -> SUBSET Module]
      /\ locked' \in [Session -> SUBSET Module]
      /\ rc' \in [Session -> Result]
<1> SUFFICES Rest
  BY TypeLocks DEF TypeOK
<1> USE DEF TypeOK, Goto, Rc, Answer
<1>1. CASE UNCHANGED vars
  BY <1>1 DEF vars
<1>2. ASSUME NEW s \in Session, NEW d \in UsedDs, SessionStart(s, d) \/ SwitchDatastore(s, d)
      PROVE  Rest
  BY <1>2 DEF SessionStart, SwitchDatastore, Step
<1>3. ASSUME NEW s \in Session, NEW m \in Module, Edit(s, m)
      PROVE  Rest
  BY <1>3, FileOfType DEF Edit
<1>4. ASSUME NEW s \in Session, DiscardChanges(s)
      PROVE  Rest
  BY <1>4 DEF DiscardChanges, Discarded
<1>5. ASSUME NEW s \in Session, LockRequest(s)
      PROVE  Rest
  <2>1. ASSUME NEW m \in Module, LockModule(s, m) \/ UnlockModule(s, m)
        PROVE  Rest
    BY <2>1 DEF LockModule, UnlockModule
  <2>2. CASE LockDatastore(s)
    BY <2>2 DEF LockDatastore, Step
  <2>3. CASE LockDatastoreNext(s)
    BY <2>3 DEF LockDatastoreNext, Step
  <2>4. CASE LockDatastoreDone(s)
    BY <2>4 DEF LockDatastoreDone, Step, Result
  <2>5. CASE UndoNext(s)
    BY <2>5 DEF UndoNext
  <2>6. CASE UndoDone(s)
    BY <2>6 DEF UndoDone, Step, Result
  <2>7. ASSUME NEW step \in Step, UnlockStart(s, step)
        PROVE  Rest
    BY <2>7 DEF UnlockStart
  <2>8. CASE UnlockNext(s)
    BY <2>8 DEF UnlockNext
  <2>9. CASE UnlockDone(s)
    BY <2>9, Zenon DEF UnlockDone, Step
  <2> QED  BY <1>5, <2>1, <2>2, <2>3, <2>4, <2>5, <2>6, <2>7, <2>8, <2>9 DEF LockRequest
<1>6. ASSUME NEW s \in Session, Commit(s)
      PROVE  Rest
  <2>1. CASE CommitStart(s)
    BY <2>1 DEF CommitStart, ModifiedModules, Step
  <2>2. CASE CommitLoadNext(s)
    BY <2>2 DEF CommitLoadNext, Checked, Step, Result
  <2>3. CASE CommitRetry(s)
    BY <2>3 DEF CommitRetry, Checked, Step, Result
  <2>4. CASE CommitLoaded(s)
    BY <2>4 DEF CommitLoaded, Step
  <2>5. CASE CommitPause(s)
    BY <2>5 DEF CommitPause, ReleaseCommitLock, Step
  <2>6. CASE CommitResume(s)
    BY <2>6 DEF CommitResume, Step
  <2>7. ASSUME NEW r \in Result, CommitDecide(s, r)
        PROVE  Rest
    BY <2>7 DEF CommitDecide, Step
  <2>8. CASE CommitReleaseNext(s)
    BY <2>8 DEF CommitReleaseNext
  <2>9. CASE CommitDone(s)
    BY <2>9 DEF CommitDone, ReleaseCommitLock, Discarded, Step, Result
  <2> QED  BY <1>6, <2>1, <2>2, <2>3, <2>4, <2>5, <2>6, <2>7, <2>8, <2>9 DEF Commit
<1>7. ASSUME NEW p \in Process, Crash(p)
      PROVE  Rest
  BY <1>7 DEF Crash, Step, Result
<1> QED  BY <1>1, <1>2, <1>3, <1>4, <1>5, <1>6, <1>7 DEF Next, SessionStep

\* Every variable of the lock machinery keeps its type.
THEOREM TypeCorrect == Spec => []TypeOK
BY TypeInit, TypeNext, PTL DEF Spec

-----------------------------------------------------------------------------
(* Lock files: exclusion, and the agreement of the three records *)

LEMMA LocksInit == Init => LockExclusion /\ LocksBacked
<1> SUFFICES ASSUME Init PROVE LockExclusion /\ LocksBacked
  OBVIOUS
<1>1. LockExclusion
  BY DEF Init, LockExclusion
<1>2. LocksBacked
  BY DEF Init, LocksBacked
<1> QED  BY <1>1, <1>2

LEMMA LocksTaken ==
    ASSUME TypeOK, LockExclusion, LocksBacked, Taking
    PROVE  LockExclusion' /\ LocksBacked'
<1>1. PICK x \in DmSession, m \in Module : LockResult(x, m) = "ok" /\ TakeLock(x, m)
  BY DEF Taking
<1> DEFINE f == FileOf(x[1], m)
           p == Proc(x)
<1>2. f \in File /\ p \in Process /\ p = ProcOf[x[1]]
  BY DmSessionParts, FileOfType DEF Proc
<1>3. CASE m \in NoData \/ f \in lockedFiles[x]
  BY <1>1, <1>3 DEF TakeLock, locks, LockExclusion, LocksBacked
<1>4. CASE ~(m \in NoData \/ f \in lockedFiles[x]) /\ ~OnDisk(f)
  <2>1. /\ lockedFiles' = [lockedFiles EXCEPT ![x] = @ \union {f}]
        /\ lockSet' = lockSet
        /\ osLock' = osLock
    BY <1>1, <1>4 DEF TakeLock
  <2>2. LockExclusion'
    BY <2>1, <1>4 DEF TypeOK, LockExclusion, OnDisk
  <2>3. LocksBacked'
    BY <2>1, <1>4 DEF TypeOK, LocksBacked, OnDisk
  <2> QED  BY <2>2, <2>3
<1>5. CASE ~(m \in NoData \/ f \in lockedFiles[x]) /\ OnDisk(f)
  <2>1. /\ lockedFiles' = [lockedFiles EXCEPT ![x] = @ \union {f}]
        /\ lockSet' = [lockSet EXCEPT ![p] = @ \union {f}]
        /\ osLock' = [osLock EXCEPT ![f] = p]
    BY <1>1, <1>5 DEF TakeLock
  <2>2. f \notin lockSet[p] /\ osLock[f] \in {Nobody, p}
    BY <1>1, <1>2, <1>5 DEF LockResult, LockFileResult
  <2>3. osLock[f] = Nobody /\ \A q \in Process : f \notin lockSet[q]
    BY <1>2, <2>2 DEF LocksBacked
  <2>4. \A y \in DmSession : f \notin lockedFiles[y]
    BY <1>2, <1>5, <2>3, DmSessionParts DEF LocksBacked
  <2>5. LockExclusion'
    BY <2>1, <2>4 DEF TypeOK, LockExclusion, OnDisk
  <2>6. LocksBacked'
    BY <1>2, <1>5, <2>1, <2>3, <2>4 DEF TypeOK, LocksBacked, OnDisk
  <2> QED  BY <2>5, <2>6
<1> QED  BY <1>3, <1>4, <1>5

LEMMA LocksDropped ==
    ASSUME TypeOK, LockExclusion, LocksBacked, Dropping
    PROVE  LockExclusion' /\ LocksBacked'
<1>1. PICK x \in DmSession, f \in File : f \in lockedFiles[x] /\ DropLock(x, f)
  BY DEF TypeOK, Dropping
<1>2. f \in File /\ Proc(x) \in Process
  BY DmSessionParts
<1>3. lockedFiles' = [lockedFiles EXCEPT ![x] = @ \ {f}]
  BY <1>1 DEF DropLock
<1>4. LockExclusion'
  BY <1>3 DEF TypeOK, LockExclusion, OnDisk
<1>5. CASE ~OnDisk(f)
  <2>1. lockSet' = lockSet /\ osLock' = osLock
    BY <1>1, <1>5 DEF DropLock
  <2> QED  BY <1>3, <1>4, <1>5, <2>1 DEF TypeOK, LocksBacked, OnDisk
<1>6. CASE OnDisk(f)
  <2>1. f \in lockSet[Proc(x)] /\ osLock[f] = Proc(x)
    BY <1>1, <1>2, <1>6 DEF LocksBacked
  <2>2. /\ lockSet' = [lockSet EXCEPT ![Proc(x)] = @ \ {f}]
        /\ osLock' = [osLock EXCEPT ![f] = Nobody]
    BY <1>1, <1>6, <2>1 DEF DropLock
  <2>3. \A y \in DmSession : f \in lockedFiles[y] => y = x
    BY <1>1, <1>6 DEF LockExclusion
  <2>4. \A q \in Process : f \in lockSet[q] => q = Proc(x)
    BY <1>2, <2>1 DEF LocksBacked
  <2>5. LocksBacked'
    BY <1>2, <1>3, <2>2, <2>3, <2>4 DEF TypeOK, LocksBacked, OnDisk
  <2> QED  BY <1>4, <2>5
<1> QED  BY <1>5, <1>6

LEMMA LocksCrash ==
    ASSUME TypeOK, LockExclusion, LocksBacked, Crashing
    PROVE  LockExclusion' /\ LocksBacked'
<1>1. PICK p \in Process : Crash(p)
  BY DEF Crashing
<1>2. /\ osLock' = [f \in File |-> IF osLock[f] = p THEN Nobody ELSE osLock[f]]
      /\ lockSet' = [lockSet EXCEPT ![p] = {}]
      /\ lockedFiles' = [x \in DmSession |-> IF Proc(x) = p THEN {} ELSE lockedFiles[x]]
  BY <1>1, Zenon DEF Crash
<1>3. LockExclusion'
  BY <1>2 DEF LockExclusion
<1>4. LocksBacked'
  <2> SUFFICES ASSUME NEW q \in Process, NEW f \in File
               PROVE  /\ f \in lockSet'[q] <=>
                            OnDisk(f) /\ \E x \in DmSession : Proc(x) = q /\ f \in lockedFiles'[x]
                      /\ osLock'[f] = q <=> f \in lockSet'[q]
    BY DEF LocksBacked
  <2>1. CASE q = p
    BY <1>2, <2>1 DEF TypeOK
  <2>2. CASE q # p
    BY <1>2, <2>2 DEF TypeOK, LocksBacked
  <2> QED  BY <2>1, <2>2
<1> QED  BY <1>3, <1>4

LEMMA LocksNext ==
    ASSUME TypeOK, LockExclusion, LocksBacked, [Next]_vars
    PROVE  LockExclusion' /\ LocksBacked'
<1>1. CASE UNCHANGED locks
  BY <1>1 DEF locks, LockExclusion, LocksBacked
<1> QED  BY <1>1, LockSteps, LocksTaken, LocksDropped, LocksCrash

\* No lock file is ever in the lists of two sessions, of one process or of two.
THEOREM Exclusion == Spec => []LockExclusion
<1>1. Init => TypeOK /\ LockExclusion /\ LocksBacked
  BY TypeInit, LocksInit
<1>2. TypeOK /\ LockExclusion /\ LocksBacked /\ [Next]_vars
         => (TypeOK /\ LockExclusion /\ LocksBacked)'
  BY TypeNext, LocksNext
<1> QED  BY <1>1, <1>2, PTL DEF Spec

\* The lists of the sessions, the locking set and the operating system's locks
\* always agree: no lock is orphaned.
THEOREM NoOrphanLock == Spec => []LocksBacked
<1>1. Init => TypeOK /\ LockExclusion /\ LocksBacked
  BY TypeInit, LocksInit
<1>2. TypeOK /\ LockExclusion /\ LocksBacked /\ [Next]_vars
         => (TypeOK /\ LockExclusion /\ LocksBacked)'
  BY TypeNext, LocksNext
<1> QED  BY <1>1, <1>2, PTL DEF Spec

-----------------------------------------------------------------------------
(* Sessions: what holds of one session at each step of its request *)

CommitStep == {"load", "retry", "hold", "paused", "resumed", "release"}

\* The loop of a commit has locked what it has visited.
Loading(s) == pc[s] \in {"load", "retry"} =>
    \A m \in ModifiedModules(s) \ NoData : m \in todo[s] \/ Owns(s, FileOf(s, m))

Loaded(s) == Committing(s) =>
    \A m \in ModifiedModules(s) \ NoData : Owns(s, FileOf(s, m))

Quiet(s) ==
    /\ pc[s] = "closed" => lockedFiles[<<s, "user">>] = {} /\ holdsDsLock[s] = {}
    /\ pc[s] \notin CommitStep => lockedFiles[<<s, "commit">>] = {}

\* The rollback of dm_lock_datastore gives back a datastore lock it holds.
RollsBackOwn(s) == pc[s] \in {"lock_ds", "undo"} => ds[s] \in holdsDsLock[s]

HasData(s) == \A f \in modified[s] : f[1] \notin NoData

SessionInv(s) == Loading(s) /\ Loaded(s) /\ Quiet(s) /\ RollsBackOwn(s) /\ HasData(s)

\* What the handlers of s leave alone of another session.
Untouched(t) ==
    /\ pc'[t] = pc[t] /\ ds'[t] = ds[t] /\ todo'[t] = todo[t]
    /\ modified'[t] = modified[t] /\ holdsDsLock'[t] = holdsDsLock[t]
    /\ lockedFiles'[<<t, "user">>] = lockedFiles[<<t, "user">>]
    /\ lockedFiles'[<<t, "commit">>] = lockedFiles[<<t, "commit">>]

\* dm_lock_module grows the list of its session by the file it locks.
LEMMA TryLockList ==
    ASSUME TypeOK, NEW x \in DmSession, NEW m \in Module, NEW r \in Result, TryLock(x, m, r)
    PROVE  /\ \A y \in DmSession \ {x} : lockedFiles'[y] = lockedFiles[y]
           /\ lockedFiles[x] \subseteq lockedFiles'[x]
           /\ r = "ok" /\ m \notin NoData => FileOf(x[1], m) \in lockedFiles'[x]
BY DEF TypeOK, TryLock, TakeLock, locks

LEMMA DropLockList ==
    ASSUME TypeOK, NEW x \in DmSession, NEW f, DropLock(x, f)
    PROVE  \A y \in DmSession \ {x} : lockedFiles'[y] = lockedFiles[y]
BY DEF TypeOK, DropLock

LEMMA OthersUntouched ==
    ASSUME TypeOK, NEW s \in Session, SessionStep(s), NEW t \in Session \ {s}
    PROVE  Untouched(t)
<1> DEFINE Rest == /\ pc'[t] = pc[t] /\ ds'[t] = ds[t] /\ todo'[t] = todo[t]
                   /\ modified'[t] = modified[t] /\ holdsDsLock'[t] = holdsDsLock[t]
           Lists == /\ lockedFiles'[<<t, "user">>] = lockedFiles[<<t, "user">>]
                    /\ lockedFiles'[<<t, "commit">>] = lockedFiles[<<t, "commit">>]
<1> USE DEF TypeOK, Goto, Rc, Answer
<1>0. /\ <<t, "user">> \in DmSession \ {<<s, "user">>, <<s, "commit">>}
      /\ <<t, "commit">> \in DmSession \ {<<s, "user">>, <<s, "commit">>}
      /\ <<s, "user">> \in DmSession /\ <<s, "commit">> \in DmSession
  BY DEF DmSession
<1>1. ASSUME NEW m \in Module, NEW r \in Result,
             TryLock(<<s, "user">>, m, r) \/ TryLock(<<s, "commit">>, m, r)
      PROVE  Lists
  BY <1>0, <1>1, TryLockList
<1>2. ASSUME NEW f, DropLock(<<s, "user">>, f) \/ DropLock(<<s, "commit">>, f)
      PROVE  Lists
  BY <1>0, <1>2, DropLockList
<1>3. UNCHANGED locks => Lists
  BY DEF locks
<1> HIDE DEF Lists
<1>4. ASSUME NEW d \in UsedDs, SessionStart(s, d) \/ SwitchDatastore(s, d)
      PROVE  Rest /\ Lists
  BY <1>3, <1>4 DEF SessionStart, SwitchDatastore
<1>5. ASSUME NEW m \in Module, Edit(s, m)
      PROVE  Rest /\ Lists
  BY <1>3, <1>5 DEF Edit
<1>6. ASSUME DiscardChanges(s)
      PROVE  Rest /\ Lists
  BY <1>3, <1>6 DEF DiscardChanges, Discarded
<1>7. ASSUME LockRequest(s)
      PROVE  Rest /\ Lists
  <2>1. ASSUME NEW m \in Module, LockModule(s, m)
        PROVE  Rest /\ Lists
    BY <1>1, <2>1 DEF LockModule, Result
  <2>2. ASSUME NEW m \in Module, UnlockModule(s, m)
        PROVE  Rest /\ Lists
    BY <1>2, <2>2 DEF UnlockModule
  <2>3. CASE LockDatastore(s)
    BY <1>3, <2>3 DEF LockDatastore
  <2>4. CASE LockDatastoreNext(s)
    BY <1>1, <2>4 DEF LockDatastoreNext
  <2>5. CASE LockDatastoreDone(s)
    BY <1>3, <2>5 DEF LockDatastoreDone
  <2>6. CASE UndoNext(s)
    BY <1>2, <1>3, <2>6 DEF UndoNext
  <2>7. CASE UndoDone(s)
    BY <1>3, <2>7 DEF UndoDone
  <2>8. ASSUME NEW step \in Step, UnlockStart(s, step)
        PROVE  Rest /\ Lists
    BY <1>3, <2>8 DEF UnlockStart
  <2>9. CASE UnlockNext(s)
    BY <1>2, <2>9 DEF UnlockNext
  <2>10. CASE UnlockDone(s)
    BY <1>3, <2>10 DEF UnlockDone
  <2> QED  BY <1>7, <2>1, <2>2, <2>3, <2>4, <2>5, <2>6, <2>7, <2>8, <2>9, <2>10, Zenon
           DEF LockRequest
<1>8. ASSUME Commit(s)
      PROVE  Rest /\ Lists
  <2>1. CASE CommitStart(s)
    BY <1>3, <2>1 DEF CommitStart
  <2>2. CASE CommitLoadNext(s)
    BY <1>1, <2>2 DEF CommitLoadNext
  <2>3. CASE CommitRetry(s)
    BY <1>1, <2>3 DEF CommitRetry
  <2>4. CASE CommitLoaded(s)
    BY <1>3, <2>4 DEF CommitLoaded
  <2>5. CASE CommitPause(s)
    BY <1>3, <2>5 DEF CommitPause
  <2>6. CASE CommitResume(s)
    BY <1>3, <2>6 DEF CommitResume
  <2>7. ASSUME NEW r \in Result, CommitDecide(s, r)
        PROVE  Rest /\ Lists
    BY <1>3, <2>7 DEF CommitDecide
  <2>8. CASE CommitReleaseNext(s)
    BY <1>2, <2>8 DEF CommitReleaseNext
  <2>9. CASE CommitDone(s)
    BY <1>3, <2>9 DEF CommitDone, Discarded
  <2> QED  BY <1>8, <2>1, <2>2, <2>3, <2>4, <2>5, <2>6, <2>7, <2>8, <2>9, Zenon DEF Commit
<1>9. Rest /\ Lists
  BY <1>4, <1>5, <1>6, <1>7, <1>8, Zenon DEF SessionStep
<1> QED  BY <1>9 DEF Untouched, Lists

LEMMA UntouchedInv ==
    ASSUME NEW t \in Session, Untouched(t), SessionInv(t)
    PROVE  SessionInv(t)'
BY Zenon DEF Untouched, SessionInv, Loading, Loaded, Quiet, RollsBackOwn, HasData, Committing,
             ModifiedModules, FileOf, Owns

\* A step of s keeps the invariant of s.
LEMMA OwnInv ==
    ASSUME TypeOK, NEW s \in Session, SessionInv(s), SessionStep(s)
    PROVE  SessionInv(s)'
<1> USE DEF TypeOK, Goto, Rc, Answer, SessionInv, CommitStep
<1> DEFINE Commits == Loading(s)' /\ Loaded(s)'
           Others == Quiet(s)' /\ RollsBackOwn(s)' /\ HasData(s)'
<1>0. /\ <<s, "user">> \in DmSession /\ <<s, "commit">> \in DmSession
      /\ <<s, "user">> # <<s, "commit">>
      /\ <<s, "user">>[1] = s /\ <<s, "commit">>[1] = s
  BY DmSessionElements
<1>1. ASSUME pc'[s] \notin CommitStep
      PROVE  Commits
  BY <1>1, Zenon DEF Loading, Loaded, Committing
<1>2. ASSUME NEW d \in UsedDs, SessionStart(s, d) \/ SwitchDatastore(s, d)
      PROVE  SessionInv(s)'
  BY <1>1, <1>2 DEF SessionStart, SwitchDatastore, Quiet, RollsBackOwn, HasData, locks
<1>3. ASSUME NEW m \in Module, Edit(s, m)
      PROVE  SessionInv(s)'
  BY <1>1, <1>3 DEF Edit, Quiet, RollsBackOwn, HasData, locks, FileOf
<1>4. ASSUME DiscardChanges(s)
      PROVE  SessionInv(s)'
  BY <1>1, <1>4 DEF DiscardChanges, Discarded, Quiet, RollsBackOwn, HasData, locks
<1>5. ASSUME LockRequest(s)
      PROVE  SessionInv(s)'
  <2>1. ASSUME NEW m \in Module, LockModule(s, m)
        PROVE  SessionInv(s)'
    BY <1>0, <1>1, <2>1, TryLockList, Zenon DEF LockModule, Quiet, RollsBackOwn, HasData, Result
  <2>2. ASSUME NEW m \in Module, UnlockModule(s, m)
        PROVE  SessionInv(s)'
    BY <1>0, <1>1, <2>2, DropLockList, Zenon DEF UnlockModule, Quiet, RollsBackOwn, HasData
  <2>3. CASE LockDatastore(s)
    BY <1>1, <2>3 DEF LockDatastore, Quiet, RollsBackOwn, HasData, locks
  <2>4. CASE LockDatastoreNext(s)
    <3>1. PICK m \in Module, r \in Result : TryLock(<<s, "user">>, m, r)
      BY <2>4 DEF LockDatastoreNext
    <3>2. lockedFiles'[<<s, "commit">>] = lockedFiles[<<s, "commit">>]
      BY <1>0, <3>1, TryLockList, Zenon
    <3>3. /\ pc[s] = "lock_ds" /\ pc'[s] \in {"lock_ds", "undo"}
          /\ UNCHANGED <<ds, holdsDsLock, modified>>
      BY <2>4 DEF LockDatastoreNext
    <3> QED  BY <1>1, <3>2, <3>3, Zenon DEF Quiet, RollsBackOwn, HasData
  <2>5. CASE LockDatastoreDone(s)
    BY <1>1, <2>5 DEF LockDatastoreDone, Quiet, RollsBackOwn, HasData, locks
  <2>6. CASE UndoNext(s)
    BY <1>0, <1>1, <2>6, DropLockList DEF UndoNext, Quiet, RollsBackOwn, HasData, locks
  <2>7. CASE UndoDone(s)
    BY <1>1, <2>7, Zenon DEF UndoDone, Quiet, RollsBackOwn, HasData, locks
  <2>8. ASSUME NEW step \in Step, UnlockStart(s, step)
        PROVE  SessionInv(s)'
    BY <1>1, <2>8 DEF UnlockStart, Quiet, RollsBackOwn, HasData, locks
  <2>9. CASE UnlockNext(s)
    BY <1>0, <1>1, <2>9, DropLockList, Zenon DEF UnlockNext, Quiet, RollsBackOwn, HasData
  <2>10. CASE UnlockDone(s)
    <3>1. /\ pc[s] \notin CommitStep
          /\ pc'[s] \in {"closed", "idle"}
          /\ lockedFiles[<<s, "user">>] = {} /\ holdsDsLock'[s] = {}
          /\ lockedFiles' = lockedFiles
      BY <2>10 DEF UnlockDone, locks
    <3>2. modified'[s] \in {{}, modified[s]}
      BY <2>10 DEF UnlockDone
    <3>3. Quiet(s)' /\ RollsBackOwn(s)'
      BY <3>1, Zenon DEF Quiet, RollsBackOwn
    <3>4. HasData(s)'
      BY <3>2, Zenon DEF HasData
    <3> QED  BY <1>1, <3>1, <3>3, <3>4, Zenon
  <2> QED  BY <1>5, <2>1, <2>2, <2>3, <2>4, <2>5, <2>6, <2>7, <2>8, <2>9, <2>10 DEF LockRequest
<1>6. ASSUME Commit(s)
      PROVE  SessionInv(s)'
  <2>1. CASE CommitStart(s)
    BY <2>1, Zenon DEF CommitStart, Quiet, RollsBackOwn, HasData, locks, Loading, Loaded,
                Committing, ModifiedModules, FileOf, Owns
  <2>2. ASSUME NEW m \in Module, NEW r \in Result, NEW x \in {<<s, "user">>, <<s, "commit">>},
               TryLock(x, m, r), pc[s] \in {"load", "retry"},
               UNCHANGED <<ds, holdsDsLock, modified>>,
               todo' = [todo EXCEPT ![s] = IF r = "ok" THEN @ \ {m} ELSE @],
               pc'[s] \in {"load", "retry", "release"}
        PROVE  SessionInv(s)'
    <3>1. /\ lockedFiles[<<s, "user">>] \subseteq lockedFiles'[<<s, "user">>]
          /\ lockedFiles[<<s, "commit">>] \subseteq lockedFiles'[<<s, "commit">>]
          /\ r = "ok" /\ m \notin NoData =>
                FileOf(s, m) \in lockedFiles'[<<s, "user">>] \union lockedFiles'[<<s, "commit">>]
      BY <1>0, <2>2, TryLockList, Zenon
    <3>2. Commits
      BY <2>2, <3>1, Zenon DEF Loading, Loaded, Committing, ModifiedModules, FileOf, Owns
    <3>3. Others
      BY <2>2, Zenon DEF Quiet, RollsBackOwn, HasData
    <3> QED  BY <3>2, <3>3
  <2>3. CASE CommitLoadNext(s)
    <3>1. PICK m \in Module, r \in Result :
            /\ TryLock(<<s, "commit">>, m, r)
            /\ todo' = [todo EXCEPT ![s] = IF r = "ok" THEN @ \ {m} ELSE @]
            /\ pc'[s] \in {"load", "retry", "release"}
      BY <2>3, Zenon DEF CommitLoadNext
    <3> QED  BY <2>2, <2>3, <3>1, Zenon DEF CommitLoadNext
  <2>4. CASE CommitRetry(s)
    <3>1. PICK m \in Module, r \in Result :
            /\ TryLock(<<s, "user">>, m, r)
            /\ todo' = [todo EXCEPT ![s] = IF r = "ok" THEN @ \ {m} ELSE @]
            /\ pc'[s] \in {"load", "retry", "release"}
      BY <2>4, Zenon DEF CommitRetry
    <3> QED  BY <2>2, <2>4, <3>1, Zenon DEF CommitRetry
  <2>5. CASE CommitLoaded(s)
    BY <2>5, Zenon DEF CommitLoaded, Quiet, RollsBackOwn, HasData, locks, Loading, Loaded,
                Committing, ModifiedModules, FileOf, Owns
  <2>6. CASE CommitPause(s)
    BY <2>6, Zenon DEF CommitPause, Quiet, RollsBackOwn, HasData, locks, Loading, Loaded,
                Committing, ModifiedModules, FileOf, Owns
  <2>7. CASE CommitResume(s)
    BY <2>7, Zenon DEF CommitResume, Quiet, RollsBackOwn, HasData, locks, Loading, Loaded,
                Committing, ModifiedModules, FileOf, Owns
  <2>8. ASSUME NEW r \in Result, CommitDecide(s, r)
        PROVE  SessionInv(s)'
    BY <2>8 DEF CommitDecide, Quiet, RollsBackOwn, HasData, locks, Loading, Loaded, Committing
  <2>9. CASE CommitReleaseNext(s)
    <3>1. /\ pc[s] = "release" /\ pc' = pc
          /\ UNCHANGED <<ds, holdsDsLock, modified>>
      BY <2>9 DEF CommitReleaseNext
    <3>2. Others
      BY <3>1 DEF Quiet, RollsBackOwn, HasData
    <3>3. Commits
      BY <3>1, Zenon DEF Loading, Loaded, Committing
    <3> QED  BY <3>2, <3>3
  <2>10. CASE CommitDone(s)
    <3>1. /\ pc'[s] = "idle"
          /\ lockedFiles'[<<s, "commit">>] = {}
      BY <2>10, Zenon DEF CommitDone, locks
    <3>2. modified'[s] \subseteq modified[s]
      BY <2>10 DEF CommitDone, Discarded
    <3>3. Quiet(s)' /\ RollsBackOwn(s)'
      BY <3>1, Zenon DEF Quiet, RollsBackOwn
    <3>4. HasData(s)'
      BY <3>2, Zenon DEF HasData
    <3> QED  BY <1>1, <3>1, <3>3, <3>4, Zenon
  <2> QED  BY <1>6, <2>1, <2>3, <2>4, <2>5, <2>6, <2>7, <2>8, <2>9, <2>10 DEF Commit
<1> QED  BY <1>2, <1>3, <1>4, <1>5, <1>6 DEF SessionStep

LEMMA CrashInv ==
    ASSUME TypeOK, NEW p \in Process, Crash(p), NEW s \in Session, SessionInv(s)
    PROVE  SessionInv(s)'
<1> USE DEF TypeOK
<1>0. /\ <<s, "user">> \in DmSession /\ <<s, "commit">> \in DmSession
      /\ Proc(<<s, "user">>) = ProcOf[s] /\ Proc(<<s, "commit">>) = ProcOf[s]
  BY DmSessionElements DEF Proc
<1>1. CASE ProcOf[s] = p
  BY <1>0, <1>1 DEF Crash, SessionInv, Loading, Loaded, Quiet, RollsBackOwn, HasData, Committing
<1>2. CASE ProcOf[s] # p
  <2>1. Untouched(s)
    BY <1>0, <1>2 DEF Crash, Untouched
  <2> QED  BY <2>1, UntouchedInv
<1> QED  BY <1>1, <1>2

SessionsInv == \A s \in Session : SessionInv(s)

LEMMA SessionsInit == Init => SessionsInv
BY DmSessionElements, Zenon DEF Init, SessionsInv, SessionInv, Loading, Loaded, Quiet, RollsBackOwn,
   HasData, Committing

LEMMA SessionsNext ==
    ASSUME TypeOK, SessionsInv, [Next]_vars
    PROVE  SessionsInv'
<1> SUFFICES ASSUME NEW t \in Session PROVE SessionInv(t)'
  BY DEF SessionsInv
<1>0. SessionInv(t)
  BY DEF SessionsInv
<1>1. CASE UNCHANGED vars
  <2>1. Untouched(t)
    BY <1>1 DEF vars, Untouched
  <2> QED  BY <1>0, <2>1, UntouchedInv
<1>2. ASSUME NEW s \in Session, SessionStep(s)
      PROVE  SessionInv(t)'
  BY <1>0, <1>2, OwnInv, OthersUntouched, UntouchedInv
<1>3. ASSUME NEW p \in Process, Crash(p)
      PROVE  SessionInv(t)'
  BY <1>0, <1>3, CrashInv
<1> QED  BY <1>1, <1>2, <1>3 DEF Next

-----------------------------------------------------------------------------
(* Datastore locks *)

LEMMA DsLockInit == Init => DsLockOwned
BY DEF Init, DsLockOwned

\* The four steps that change a datastore lock.
LEMMA DsLockStep ==
    ASSUME TypeOK, NEW s \in Session, SessionStep(s)
    PROVE  \/ UNCHANGED <<dsLock, holdsDsLock>>
           \/ LockDatastore(s)
           \/ UndoDone(s)
           \/ UnlockDone(s)
BY Zenon DEF SessionStep, SessionStart, SwitchDatastore, Edit, DiscardChanges, LockRequest,
       LockModule, UnlockModule, LockDatastoreNext, LockDatastoreDone, UndoNext, UnlockStart,
       UnlockNext, Commit, CommitStart, CommitLoadNext, CommitRetry, CommitLoaded, CommitPause, CommitResume,
       CommitDecide, CommitReleaseNext, CommitDone

LEMMA DsLockNext ==
    ASSUME TypeOK, SessionsInv, DsLockOwned, [Next]_vars
    PROVE  DsLockOwned'
<1> USE DEF TypeOK
<1>1. CASE UNCHANGED <<dsLock, holdsDsLock>>
  BY <1>1 DEF DsLockOwned
<1>2. ASSUME NEW s \in Session, LockDatastore(s)
      PROVE  DsLockOwned'
  BY <1>2 DEF LockDatastore, DsLockOwned
<1>3. ASSUME NEW s \in Session, UndoDone(s)
      PROVE  DsLockOwned'
  <2>1. ds[s] \in holdsDsLock[s]
    BY <1>3 DEF UndoDone, SessionsInv, SessionInv, RollsBackOwn
  <2> QED  BY <1>3, <2>1 DEF UndoDone, DsLockOwned
<1>4. ASSUME NEW s \in Session, UnlockDone(s)
      PROVE  DsLockOwned'
  BY <1>4 DEF UnlockDone, DsLockOwned
<1>5. ASSUME NEW p \in Process, Crash(p)
      PROVE  DsLockOwned'
  <2>1. /\ dsLock' = [dsLock EXCEPT ![p] = {}]
        /\ holdsDsLock' = [s \in Session |-> IF ProcOf[s] = p THEN {} ELSE holdsDsLock[s]]
    BY <1>5 DEF Crash
  <2> SUFFICES ASSUME NEW q \in Process, NEW d \in Datastore \ {"candidate"}
               PROVE  LET holders == {s \in Session : ProcOf[s] = q /\ d \in holdsDsLock'[s]}
                      IN  /\ d \in dsLock'[q] <=> holders # {}
                          /\ \A s, t \in holders : s = t
    BY DEF DsLockOwned
  <2>2. CASE q = p
    BY <2>1, <2>2
  <2>3. CASE q # p
    BY <2>1, <2>3 DEF DsLockOwned
  <2> QED  BY <2>2, <2>3, Zenon
<1> QED  BY <1>1, <1>2, <1>3, <1>4, <1>5, DsLockStep DEF Next, vars

-----------------------------------------------------------------------------
(* The inductive invariant and what follows from it *)

IndInv == TypeOK /\ LockExclusion /\ LocksBacked /\ SessionsInv /\ DsLockOwned

LEMMA IndInvInit == Init => IndInv
BY TypeInit, LocksInit, SessionsInit, DsLockInit DEF IndInv

LEMMA IndInvNext == IndInv /\ [Next]_vars => IndInv'
BY TypeNext, LocksNext, SessionsNext, DsLockNext DEF IndInv

LEMMA Invariance == Spec => []IndInv
BY IndInvInit, IndInvNext, PTL DEF Spec

\* A flag of ds_lock has exactly one holder, through rollbacks, unlocks and crashes.
THEOREM DatastoreLockOwned == Spec => []DsLockOwned
BY Invariance, PTL DEF IndInv

\* A commit between load and decision holds the lock of every module it will write.
THEOREM CommitIsCovered == Spec => []CommitCovered
<1>1. IndInv => CommitCovered
  BY DEF IndInv, SessionsInv, SessionInv, Loaded, CommitCovered, Owns
<1> QED  BY <1>1, Invariance, PTL

\* Nobody else locks or commits a file that a commit is about to write.
THEOREM CommitIsIsolated == Spec => []CommitIsolation
<1>1. ASSUME IndInv PROVE CommitIsolation
  <2> SUFFICES ASSUME NEW s \in Session, NEW t \in Session, s # t, Committing(s),
                      NEW f \in modified[s], f[2] = ds[s], OnDisk(f)
               PROVE  /\ f \notin lockedFiles[<<t, "user">>] \union lockedFiles[<<t, "commit">>]
                      /\ Committing(t) /\ ds[t] = ds[s] => f \notin modified[t]
    BY DEF CommitIsolation
  <2>1. \A u \in Session : Committing(u) /\ ds[u] = ds[s] /\ f \in modified[u] => Owns(u, f)
    <3> SUFFICES ASSUME NEW u \in Session, Committing(u), ds[u] = ds[s], f \in modified[u]
                 PROVE  Owns(u, f)
      OBVIOUS
    <3>a. f \in File
      BY <1>1 DEF IndInv, TypeOK
    <3>b. HasData(u)
      BY <1>1 DEF IndInv, SessionsInv, SessionInv
    <3>1. f \in File /\ f[1] \in Module /\ f = FileOf(u, f[1]) /\ f[1] \notin NoData
      BY <3>a, <3>b DEF File, FileOf, HasData
    <3>2. f[1] \in ModifiedModules(u) \ NoData
      BY <3>1 DEF ModifiedModules
    <3> QED  BY <1>1, <3>1, <3>2 DEF IndInv, SessionsInv, SessionInv, Loaded
  <2>2. Owns(s, f) /\ ~Owns(t, f)
    <3>1. Owns(s, f)
      BY <2>1
    <3>2. /\ <<s, "user">> # <<t, "user">> /\ <<s, "user">> # <<t, "commit">>
          /\ <<s, "commit">> # <<t, "user">> /\ <<s, "commit">> # <<t, "commit">>
      OBVIOUS
    <3> QED  BY <1>1, <3>1, <3>2, DmSessionElements DEF IndInv, LockExclusion, Owns
  <2> QED  BY <2>1, <2>2 DEF Owns
<1> QED  BY <1>1, Invariance, PTL

\* Closed sessions and finished commits leave nothing locked.
THEOREM NothingLeft == Spec => []NothingLeftLocked
<1>1. IndInv => NothingLeftLocked
  BY DEF IndInv, SessionsInv, SessionInv, Quiet, CommitStep, NothingLeftLocked
<1> QED  BY <1>1, Invariance, PTL

-----------------------------------------------------------------------------
(* Refinement of LockService *)

\* A stored file has one owner at most, so the choice in LockOwner is determined.
LEMMA OwnerUnique ==
    ASSUME LockExclusion, NEW f \in StoredFile, NEW s \in Session, NEW t \in Session,
           Owns(s, f), Owns(t, f)
    PROVE  s = t
<1> SUFFICES ASSUME s # t PROVE FALSE
  OBVIOUS
<1>1. /\ <<s, "user">> # <<t, "user">> /\ <<s, "user">> # <<t, "commit">>
      /\ <<s, "commit">> # <<t, "user">> /\ <<s, "commit">> # <<t, "commit">>
  OBVIOUS
<1> QED  BY <1>1, DmSessionElements DEF LockExclusion, Owns, StoredFile

LEMMA OwnerIs ==
    ASSUME LockExclusion, NEW f \in StoredFile
    PROVE  /\ LockOwner[f] \in Session \union {Nobody}
           /\ \A s \in Session : LockOwner[f] = s <=> Owns(s, f)
           /\ LockOwner[f] = Nobody <=> \A s \in Session : ~Owns(s, f)
<1>1. CASE \E s \in Session : Owns(s, f)
  <2>1. PICK s \in Session : Owns(s, f)
    BY <1>1
  <2>2. \A t \in Session : Owns(t, f) => t = s
    BY <2>1, OwnerUnique
  <2>3. (CHOOSE t \in Session : Owns(t, f)) = s
    BY <2>1, <2>2
  <2>4. LockOwner[f] = s
    BY <1>1, <2>3 DEF LockOwner
  <2> QED  BY <2>1, <2>2, <2>4
<1>2. CASE \A s \in Session : ~Owns(s, f)
  <2>1. LockOwner[f] = Nobody
    BY <1>2 DEF LockOwner
  <2> QED  BY <1>2, <2>1
<1> QED  BY <1>1, <1>2

\* LockOwner after a step, from who owns what after it.
LEMMA OwnerNext ==
    ASSUME LockExclusion'
    PROVE  \A f \in StoredFile :
              /\ LockOwner'[f] \in Session \union {Nobody}
              /\ \A s \in Session : LockOwner'[f] = s <=> Owns(s, f)'
              /\ LockOwner'[f] = Nobody <=> \A s \in Session : ~(Owns(s, f)')
<1> SUFFICES ASSUME NEW f \in StoredFile
             PROVE  /\ LockOwner'[f] \in Session \union {Nobody}
                    /\ \A s \in Session : LockOwner'[f] = s <=> Owns(s, f)'
                    /\ LockOwner'[f] = Nobody <=> \A s \in Session : ~(Owns(s, f)')
  OBVIOUS
<1>0. \A s, t \in Session : Owns(s, f)' /\ Owns(t, f)' => s = t
  <2> SUFFICES ASSUME NEW s \in Session, NEW t \in Session, Owns(s, f)', Owns(t, f)', s # t
               PROVE  FALSE
    OBVIOUS
  <2>1. /\ <<s, "user">> # <<t, "user">> /\ <<s, "user">> # <<t, "commit">>
        /\ <<s, "commit">> # <<t, "user">> /\ <<s, "commit">> # <<t, "commit">>
    OBVIOUS
  <2> QED  BY <2>1, DmSessionElements DEF LockExclusion, Owns, StoredFile
<1>1. CASE \E s \in Session : Owns(s, f)'
  <2>1. PICK s \in Session : Owns(s, f)'
    BY <1>1
  <2>2. (CHOOSE t \in Session : Owns(t, f)') = s
    BY <1>0, <2>1
  <2>3. LockOwner'[f] = s
    BY <1>1, <2>2 DEF LockOwner
  <2> QED  BY <1>0, <2>1, <2>3
<1>2. CASE \A s \in Session : ~(Owns(s, f)')
  <2>1. LockOwner'[f] = Nobody
    BY <1>2 DEF LockOwner
  <2> QED  BY <1>2, <2>1
<1> QED  BY <1>1, <1>2

LEMMA RefinesInit == Init => LS!Init
BY Zenon DEF Init, LS!Init, LockOwner, Owns, DmSession

LEMMA OwnsDm ==
    ASSUME NEW s \in Session, NEW f
    PROVE  /\ Owns(s, f) <=> \E x \in DmSession : x[1] = s /\ f \in lockedFiles[x]
           /\ Owns(s, f)' <=> \E x \in DmSession : x[1] = s /\ f \in lockedFiles'[x]
BY DmSessionElements, DmSessionParts DEF Owns

LEMMA OwnersSame ==
    ASSUME LockExclusion, LockExclusion',
           \A g \in StoredFile, s \in Session : Owns(s, g)' <=> Owns(s, g)
    PROVE  UNCHANGED LockOwner
<1>1. \A g \in StoredFile : LockOwner'[g] = LockOwner[g]
  BY OwnerIs, OwnerNext
<1>2. /\ LockOwner = [g \in StoredFile |-> LockOwner[g]]
      /\ LockOwner' = [g \in StoredFile |-> LockOwner'[g]]
  BY DEF LockOwner
<1> QED  BY <1>1, <1>2

LEMMA RefinesNext ==
    ASSUME IndInv, IndInv', [Next]_vars
    PROVE  [LS!Next]_LockOwner
<1> USE DEF IndInv
<1>0. /\ LockOwner = [g \in StoredFile |-> LockOwner[g]]
      /\ LockOwner' = [g \in StoredFile |-> LockOwner'[g]]
  BY DEF LockOwner
<1>1. CASE UNCHANGED locks
  BY <1>1, OwnersSame DEF locks, Owns
<1>2. CASE Taking
  <2>1. PICK x \in DmSession, m \in Module : LockResult(x, m) = "ok" /\ TakeLock(x, m)
    BY <1>2 DEF Taking
  <2> DEFINE f == FileOf(x[1], m)
  <2>2. x[1] \in Session /\ f \in File /\ Proc(x) \in Process
    BY DmSessionParts, FileOfType
  <2>3. CASE m \in NoData \/ f \in lockedFiles[x]
    BY <1>1, <2>1, <2>3 DEF TakeLock
  <2>4. CASE ~(m \in NoData \/ f \in lockedFiles[x])
    <3> HIDE DEF f
    <3>1. lockedFiles' = [lockedFiles EXCEPT ![x] = @ \union {f}]
      BY <2>1, <2>4 DEF TakeLock, f
    <3>2. \A y \in DmSession, g \in StoredFile :
             g \in lockedFiles'[y] <=> g \in lockedFiles[y] \/ (y = x /\ g = f)
      BY <3>1 DEF TypeOK
    <3>3. \A s \in Session, g \in StoredFile :
             Owns(s, g)' <=> Owns(s, g) \/ (s = x[1] /\ g = f)
      BY <3>2, OwnsDm
    <3>4. CASE ~OnDisk(f)
      BY <3>3, <3>4, OwnersSame DEF StoredFile
    <3>5. CASE OnDisk(f)
      <4>1. f \in StoredFile
        BY <2>2, <3>5 DEF StoredFile
      <4>2. f \notin lockSet[Proc(x)] /\ osLock[f] \in {Nobody, Proc(x)}
        BY <2>1, <2>4, <3>5 DEF LockResult, LockFileResult, Proc, f
      <4>a. \A q \in Process : f \in lockSet[q] => osLock[f] = q
        BY <2>2, Zenon DEF LocksBacked
      <4>3. \A q \in Process : f \notin lockSet[q]
        BY <4>2, <4>a, LockingAssumption
      <4>4. \A y \in DmSession : f \notin lockedFiles[y]
        BY <2>2, <3>5, <4>3, DmSessionParts DEF LocksBacked
      <4>5. \A s \in Session : ~Owns(s, f)
        BY <4>4, OwnsDm
      <4>6. LockOwner[f] = Nobody
        BY <4>1, <4>5, OwnerIs
      <4>7. LockOwner'[f] = x[1]
        BY <2>2, <3>3, <4>1, OwnerNext
      <4>8. \A g \in StoredFile \ {f} : LockOwner'[g] = LockOwner[g]
        BY <3>3, OwnerIs, OwnerNext
      <4>9. LockOwner' = [LockOwner EXCEPT ![f] = x[1]]
        BY <1>0, <4>1, <4>7, <4>8
      <4> QED  BY <2>2, <4>1, <4>6, <4>9, Zenon DEF LS!Next, LS!Acquire
    <3> QED  BY <3>4, <3>5
  <2> QED  BY <2>3, <2>4
<1>3. CASE Dropping
  <2>1. PICK x \in DmSession, f \in File : f \in lockedFiles[x] /\ DropLock(x, f)
    BY <1>3 DEF TypeOK, Dropping
  <2>2. x[1] \in Session
    BY DmSessionParts
  <2>3. \A y \in DmSession, g \in StoredFile :
           g \in lockedFiles'[y] <=> g \in lockedFiles[y] /\ ~(y = x /\ g = f)
    BY <2>1 DEF TypeOK, DropLock
  <2>4. \A s \in Session, g \in StoredFile : g # f => (Owns(s, g)' <=> Owns(s, g))
    BY <2>3, OwnsDm, Zenon
  <2>5. CASE ~OnDisk(f)
    BY <2>4, <2>5, OwnersSame DEF StoredFile
  <2>6. CASE OnDisk(f)
    <3>1. f \in StoredFile
      BY <2>1, <2>6 DEF StoredFile
    <3>2. \A y \in DmSession : f \notin lockedFiles'[y]
      BY <2>1, <2>3, <2>6, <3>1 DEF LockExclusion
    <3>3. \A s \in Session : ~(Owns(s, f)')
      BY <3>2, OwnsDm
    <3>4. LockOwner[f] = x[1]
      BY <2>1, <2>2, <3>1, OwnerIs, OwnsDm
    <3>5. LockOwner'[f] = Nobody
      BY <3>1, <3>3, OwnerNext
    <3>6. \A g \in StoredFile \ {f} : LockOwner'[g] = LockOwner[g]
      BY <2>4, OwnerIs, OwnerNext
    <3>7. LockOwner' = [LockOwner EXCEPT ![f] = Nobody]
      BY <1>0, <3>1, <3>5, <3>6
    <3> QED  BY <2>2, <3>1, <3>4, <3>7, Zenon DEF LS!Next, LS!Release
  <2> QED  BY <2>5, <2>6
<1>4. CASE Crashing
  <2>1. PICK p \in Process : Crash(p)
    BY <1>4 DEF Crashing
  <2> DEFINE C == {s \in Session : ProcOf[s] = p}
  <2>2. lockedFiles' = [x \in DmSession |-> IF Proc(x) = p THEN {} ELSE lockedFiles[x]]
    BY <2>1, Zenon DEF Crash
  <2>3. \A s \in Session, g \in StoredFile : Owns(s, g)' <=> Owns(s, g) /\ s \notin C
    BY <2>2, OwnsDm DEF Proc
  <2> HIDE DEF C
  <2>4. C \in SUBSET Session
    BY DEF C
  <2>5. \A g \in StoredFile :
           LockOwner'[g] = IF LockOwner[g] \in C THEN Nobody ELSE LockOwner[g]
    BY <2>3, <2>4, OwnerIs, OwnerNext
  <2>6. LS!Abandon(C)
    BY <1>0, <2>5 DEF LS!Abandon
  <2> QED  BY <2>4, <2>6 DEF LS!Next
<1> QED  BY <1>1, <1>2, <1>3, <1>4, LockSteps

\* The locks of the Data Manager implement the abstract lock service.
THEOREM LocksRefine == Spec => ImplementsLockService
BY RefinesInit, RefinesNext, Invariance, PTL DEF Spec, LS!Spec, ImplementsLockService
=============================================================================
