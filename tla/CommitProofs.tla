---------------------------- MODULE CommitProofs ----------------------------
(***************************************************************************)
(* Proofs about CommitProtocol, for any set of subscriptions.              *)
(***************************************************************************)
EXTENDS CommitProtocol, TLAPS

-----------------------------------------------------------------------------
(* The inductive invariant *)

VerifySentAll == \A s \in Verifier : <<"verify", s>> \in sent
Verified == VerifySentAll /\ \A s \in Sub : <<"verify", s>> \notin inflight

\* c_ctx->state and the event being sent follow the worker.
WorkerInv ==
    /\ wpc \in {"start", "pause", "paused", "queued", "found", "write"} => ev = "verify"
    /\ wpc = "start" => state = "started"
    /\ wpc \in {"save", "send"} =>
          state = (IF ev = "verify" THEN "started" ELSE IF ev = "apply" THEN "write" ELSE "abort")
    /\ wpc \in {"pause", "paused"} <=> state = "wait"
    /\ wpc \in {"queued", "found"} => state \in {"write", "abort"}
    /\ wpc = "write" => state = "write"
    /\ state = "finished" => wpc \in {"cleanup", "remove", "done"} /\ ev # "verify"
    /\ state = "abort" /\ wpc \in {"cleanup", "remove", "done"} => ev = "verify"
    /\ state = "write" /\ wpc \in {"cleanup", "remove", "done"} => ev = "verify"

\* The context belongs to the worker while it works on it; callers hold it in the tree.
MemoryInv ==
    /\ wpc \in {"save", "send", "pause", "write", "cleanup"} => mutex = "worker" /\ alive
    /\ inTree \/ wpc = "found" => alive
    /\ wpc \in {"pause", "paused", "queued", "found", "write"} => locksHeld
    /\ wpc \in {"save", "send"} /\ ev = "verify" => locksHeld
    /\ \A c \in Caller :
          /\ call[c].pc = "ctx" => c \in readers /\ inTree
          /\ call[c].pc = "remove" => wpc \in {"remove", "done"}

\* Notifications: what was sent when.
SentInv ==
    /\ inflight \subseteq sent
    /\ \A e \in Event, s \in Sub : <<e, s>> \in sent => e = "verify" \/ e = ev
    /\ \A s \in Sub : <<"verify", s>> \in sent => s \in Verifier
    /\ \A s \in Verifier : <<"verify", s>> \in sent \ inflight => verdict[s] # "none"
    /\ wpc = "send" /\ ev = "verify" =>
          /\ toSend \subseteq Verifier
          /\ \A s \in Verifier : s \in toSend \/ <<"verify", s>> \in sent
    /\ written # "no" => ev = "apply"

\* The NP context knows of every refusal acknowledged so far.
NpInv ==
    /\ np.here /\ np.result = "ok" =>
          \A s \in Verifier : <<"verify", s>> \in sent \ inflight => verdict[s] = "accept"
    /\ ~np.here /\ wpc \notin {"cleanup", "remove", "done"} => sent = {}
    /\ np.finished => wpc \in {"cleanup", "remove", "done"}
    /\ np.allSent /\ ~np.finished => VerifySentAll
    /\ state = "started" => ~np.allSent /\ \A c \in Caller : call[c].pc = "off"

\* A caller that may report success for the verify phase has seen its end.
CallInv ==
    /\ call["vack"].pc = "complete" => Verified
    /\ call["vtimer"].pc \in {"immediate", "complete"} /\ ~call["vtimer"].expired => Verified
    /\ call["vack"].pc \notin {"immediate", "armed"}
    /\ call["vtimer"].pc = "armed" => call["vtimer"].expired
    /\ \A c \in {"fack", "ftimer"} :
          /\ call[c].pc \in {"armed", "immediate", "complete"} /\ np.here => np.finished
          /\ call[c].pc # "off" => wpc \in {"cleanup", "remove", "done"}
    /\ \A c \in Caller :
          call[c].pc \in {"rd", "ctx"} /\ ~call[c].finished /\ call[c].result = "ok" => Accepted

\* Decisions.
DecisionInv ==
    /\ state = "write" => Accepted
    /\ WriteOnlyIfAccepted
    /\ state \in {"started", "wait"} => resumes = 0
    /\ ResumedOnce

IndInv ==
    TypeOK /\ WorkerInv /\ MemoryInv /\ SentInv /\ NpInv /\ CallInv /\ DecisionInv

-----------------------------------------------------------------------------
(* Facts that several steps share *)

\* np_commit_notifications_sent changes two fields of the NP context and one timer.
LEMMA TimerSet ==
    ASSUME TypeOK, NEW f \in BOOLEAN, NEW t \in Caller,
           t = (IF f THEN "ftimer" ELSE "vtimer"), NotificationsSent(f)
    PROVE  /\ np' \in NpContext
           /\ call' \in [Caller -> Call]
           /\ np'.allSent /\ np'.finished = f
           /\ np'.here = np.here /\ np'.result = np.result /\ np'.errs = np.errs
           /\ \A c \in Caller : c # t => call'[c] = call[c]
           /\ call'[t].pc = TimerStart
           /\ call'[t].expired = (inflight # {})
<1> DEFINE expired == inflight # {}
<1>1. expired \in BOOLEAN /\ TimerStart \in CallerStep
  BY DEF TimerStart, CallerStep
<1>2. call' = [call EXCEPT ![t] = [call[t] EXCEPT !.pc = TimerStart, !.expired = expired]]
  BY Zenon DEF NotificationsSent, TypeOK
<1> HIDE DEF expired
<1>3. [call[t] EXCEPT !.pc = TimerStart, !.expired = expired] \in Call
  <2>1. call[t] \in Call
    BY DEF TypeOK
  <2> QED
    BY <1>1, <2>1, Zenon DEF Call
<1>4. call' \in [Caller -> Call]
  BY <1>2, <1>3 DEF TypeOK
<1>5. /\ np' \in NpContext
      /\ np'.allSent /\ np'.finished = f
      /\ np'.here = np.here /\ np'.result = np.result /\ np'.errs = np.errs
  BY Zenon DEF NotificationsSent, TypeOK, NpContext
<1>6. call'[t].pc = TimerStart /\ call'[t].expired = expired
  BY <1>2 DEF TypeOK, Call
<1>7. \A c \in Caller : c # t => call'[c] = call[c]
  BY <1>2 DEF TypeOK
<1> QED
  BY <1>4, <1>5, <1>6, <1>7 DEF expired

\* dm_remove_commit_context keeps the types of what it changes.
LEMMA RemoveType ==
    ASSUME TypeOK, RemoveContext
    PROVE  inTree' \in BOOLEAN /\ alive' \in BOOLEAN /\ locksHeld' \in BOOLEAN
  BY Zenon DEF RemoveContext, TypeOK

-----------------------------------------------------------------------------
(* Every step preserves the invariant: one lemma per action *)

LEMMA RefuseInv == ASSUME IndInv, Refuse PROVE IndInv'
<1> USE CommitAssumption DEF IndInv, worker, ctx, memory, world, block, Caller
<1>1. TypeOK'
  BY DEF Refuse, Answer, TypeOK, WorkerStep, CallerStep, Code, Event, Call, NpContext
<1>2. WorkerInv'
  BY DEF Refuse, Answer, WorkerInv, TypeOK, MemoryInv, Call
<1>3. MemoryInv'
  BY DEF Refuse, Answer, MemoryInv, WorkerInv, TypeOK, Call
<1>4. SentInv'
  BY DEF Refuse, Answer, SentInv, WorkerInv, TypeOK, Event
<1>5. NpInv'
  BY DEF Refuse, Answer, NpInv, SentInv, WorkerInv, TypeOK, VerifySentAll, MemoryInv, NpContext,
         Call
<1>6. CallInv'
  BY DEF Refuse, Answer, CallInv, NpInv, SentInv, WorkerInv, TypeOK, Verified, VerifySentAll,
         Accepted, NpContext, Call
<1>7. DecisionInv'
  BY DEF Refuse, Answer, DecisionInv, CallInv, SentInv, WorkerInv, TypeOK, Accepted,
         WriteOnlyIfAccepted, ResumedOnce
<1> QED
  BY <1>1, <1>2, <1>3, <1>4, <1>5, <1>6, <1>7

LEMMA PrepareInv == ASSUME IndInv, Prepare PROVE IndInv'
<1> USE CommitAssumption DEF IndInv, worker, ctx, memory, world, block, Caller
<1>1. TypeOK'
  BY DEF Prepare, TypeOK, WorkerStep, CallerStep, Code, Event, Call, NpContext
<1>2. WorkerInv'
  BY DEF Prepare, WorkerInv, TypeOK, MemoryInv, Call
<1>3. MemoryInv'
  BY DEF Prepare, MemoryInv, WorkerInv, TypeOK, Call
<1>4. SentInv'
  BY DEF Prepare, SentInv, WorkerInv, TypeOK, Event
<1>5. NpInv'
  BY DEF Prepare, NpInv, SentInv, WorkerInv, TypeOK, VerifySentAll, MemoryInv, NpContext, Call
<1>6. CallInv'
  BY DEF Prepare, CallInv, NpInv, SentInv, WorkerInv, TypeOK, Verified, VerifySentAll, Accepted,
         NpContext, Call
<1>7. DecisionInv'
  BY DEF Prepare, DecisionInv, CallInv, SentInv, WorkerInv, TypeOK, Accepted, WriteOnlyIfAccepted,
         ResumedOnce
<1> QED
  BY <1>1, <1>2, <1>3, <1>4, <1>5, <1>6, <1>7

LEMMA PrepareFailsInv == ASSUME IndInv, PrepareFails PROVE IndInv'
<1> USE CommitAssumption DEF IndInv, worker, ctx, memory, world, block, Caller
<1>1. TypeOK'
  BY DEF PrepareFails, Answer, TypeOK, WorkerStep, CallerStep, Code, Event, Call, NpContext
<1>2. WorkerInv'
  BY DEF PrepareFails, Answer, WorkerInv, TypeOK, MemoryInv, Call
<1>3. MemoryInv'
  BY DEF PrepareFails, Answer, MemoryInv, WorkerInv, TypeOK, Call
<1>4. SentInv'
  BY DEF PrepareFails, Answer, SentInv, WorkerInv, TypeOK, Event
<1>5. NpInv'
  BY DEF PrepareFails, Answer, NpInv, SentInv, WorkerInv, TypeOK, VerifySentAll, MemoryInv,
         NpContext, Call
<1>6. CallInv'
  BY DEF PrepareFails, Answer, CallInv, NpInv, SentInv, WorkerInv, TypeOK, Verified,
         VerifySentAll, Accepted, NpContext, Call
<1>7. DecisionInv'
  BY DEF PrepareFails, Answer, DecisionInv, CallInv, SentInv, WorkerInv, TypeOK, Accepted,
         WriteOnlyIfAccepted, ResumedOnce
<1> QED
  BY <1>1, <1>2, <1>3, <1>4, <1>5, <1>6, <1>7

LEMMA SaveInv == ASSUME IndInv, Save PROVE IndInv'
<1> USE CommitAssumption DEF IndInv, worker, ctx, memory, world, block, Caller
<1>1. TypeOK'
  <2>1. locksHeld' \in BOOLEAN /\ inTree' \in BOOLEAN /\ remove' \in BOOLEAN
    BY Zenon DEF Save, TypeOK
  <2>2. toSend' \subseteq Sub
    BY DEF Save, ToNotify
  <2>3. rc' \in Code /\ wpc' \in WorkerStep
    BY DEF Save, Code, WorkerStep
  <2> QED
    BY <2>1, <2>2, <2>3 DEF Save, TypeOK
<1>2. WorkerInv'
  BY DEF Save, KeepsLocks, ToNotify, WorkerInv, TypeOK, MemoryInv, Call
<1>3. MemoryInv'
  BY DEF Save, KeepsLocks, ToNotify, MemoryInv, WorkerInv, TypeOK, Call
<1>4. SentInv'
  BY DEF Save, KeepsLocks, ToNotify, SentInv, WorkerInv, TypeOK, Event
<1>5. NpInv'
  BY DEF Save, KeepsLocks, ToNotify, NpInv, SentInv, WorkerInv, TypeOK, VerifySentAll, MemoryInv,
         NpContext, Call
<1>6. CallInv'
  BY DEF Save, KeepsLocks, ToNotify, CallInv, NpInv, SentInv, WorkerInv, TypeOK, Verified,
         VerifySentAll, Accepted, NpContext, Call
<1>7. DecisionInv'
  BY DEF Save, KeepsLocks, ToNotify, DecisionInv, CallInv, SentInv, WorkerInv, TypeOK, Accepted,
         WriteOnlyIfAccepted, ResumedOnce
<1> QED
  BY <1>1, <1>2, <1>3, <1>4, <1>5, <1>6, <1>7

LEMMA VerifySentMain == ASSUME IndInv, VerifySent PROVE TypeOK' /\ MemoryInv' /\ CallInv'
<1> USE CommitAssumption DEF IndInv
<1>0. /\ wpc = "send" /\ toSend = {} /\ ev = "verify" /\ state = "started"
      /\ \A c \in Caller : call[c].pc = "off"
      /\ mutex = "worker" /\ alive /\ locksHeld
      /\ VerifySentAll
  BY DEF VerifySent, WorkerInv, NpInv, MemoryInv, SentInv, VerifySentAll
<1>1. UNCHANGED <<ev, toSend, rc, answer, result, errXpaths, memory, mutex, readers, written,
                   resumes, world, block>>
  BY DEF VerifySent
<1>2. CASE Notified("verify")
  <2>1. state' = "wait" /\ wpc' = "pause" /\ remove' = remove /\ NotificationsSent(FALSE)
    BY <1>2, Zenon DEF VerifySent
  <2>2. /\ np' \in NpContext
        /\ call' \in [Caller -> Call]
        /\ np'.here = np.here /\ np'.result = np.result
        /\ \A c \in Caller : c # "vtimer" => call'[c] = call[c]
        /\ call'["vtimer"].pc = TimerStart
        /\ call'["vtimer"].expired = (inflight # {})
    BY <2>1, TimerSet, Zenon DEF Caller
  <2>3. TypeOK'
    BY <1>1, <2>1, <2>2 DEF TypeOK, WorkerStep, worker, ctx, memory, world, block
  <2>4. MemoryInv'
    BY <1>0, <1>1, <2>1, <2>2 DEF MemoryInv, memory, TimerStart
  <2>5. CallInv'
    BY <1>0, <1>1, <2>1, <2>2, Zenon
       DEF CallInv, TimerStart, Verified, VerifySentAll, Accepted, world, Caller
  <2> QED
    BY <2>3, <2>4, <2>5
<1>3. CASE ~Notified("verify")
  <2>1. state' = "write" /\ wpc' \in {"write", "cleanup"} /\ remove' = TRUE /\ UNCHANGED <<np, call>>
    BY <1>3 DEF VerifySent
  <2>3. TypeOK'
    BY <1>1, <2>1 DEF TypeOK, WorkerStep, worker, ctx, memory, world, block
  <2>4. MemoryInv'
    BY <1>0, <1>1, <2>1 DEF MemoryInv, memory
  <2>5. CallInv'
    BY <1>0, <1>1, <2>1
       DEF CallInv, Verified, VerifySentAll, Accepted, world, Caller
  <2> QED
    BY <2>3, <2>4, <2>5
<1> QED
  BY <1>2, <1>3

LEMMA VerifySentInv == ASSUME IndInv, VerifySent PROVE IndInv'
<1> USE CommitAssumption DEF IndInv, worker, ctx, memory, world, block, Caller
<1>2. WorkerInv'
  BY DEF VerifySent, NotificationsSent, TimerStart, Notified, WorkerInv, TypeOK, MemoryInv, Call
<1>4. SentInv'
  BY DEF VerifySent, NotificationsSent, TimerStart, Notified, SentInv, WorkerInv, TypeOK, Event
<1>5. NpInv'
  BY Zenon DEF VerifySent, NotificationsSent, TimerStart, Notified, NpInv, SentInv, WorkerInv,
         TypeOK, VerifySentAll, MemoryInv, NpContext, Call
<1>7. DecisionInv'
  BY DEF VerifySent, NotificationsSent, TimerStart, Notified, DecisionInv, CallInv, SentInv,
         WorkerInv, TypeOK, Accepted, WriteOnlyIfAccepted, ResumedOnce
<1> QED
  BY <1>2, <1>4, <1>5, <1>7, VerifySentMain

LEMMA FinishSentMain == ASSUME IndInv, FinishSent PROVE TypeOK' /\ MemoryInv' /\ NpInv' /\ CallInv'
<1> USE CommitAssumption DEF IndInv
<1>0. /\ wpc = "send" /\ toSend = {} /\ ev # "verify" /\ state \in {"write", "abort"}
      /\ mutex = "worker" /\ alive
      /\ ~np.finished
      /\ \A c \in Caller : call[c].pc # "remove"
  BY DEF FinishSent, WorkerInv, NpInv, MemoryInv, TypeOK, Event
<1>1. /\ state' = "finished" /\ wpc' = "cleanup" /\ remove' \in BOOLEAN /\ rc' \in Code
      /\ UNCHANGED <<ev, toSend, answer, result, errXpaths, memory, mutex, readers, written,
                     resumes, world, block>>
  <2>1. remove' \in BOOLEAN
    BY DEF FinishSent, ShouldBeRemoved
  <2> QED
    BY <2>1 DEF FinishSent, TypeOK
<1>2. CASE Notified(ev)
  <2>1. NotificationsSent(TRUE)
    BY <1>2, Zenon DEF FinishSent
  <2>2. /\ np' \in NpContext
        /\ call' \in [Caller -> Call]
        /\ np'.finished
        /\ np'.here = np.here /\ np'.result = np.result
        /\ \A c \in Caller : c # "ftimer" => call'[c] = call[c]
        /\ call'["ftimer"].pc = TimerStart
    BY <2>1, TimerSet, Zenon DEF Caller
  <2>3. TypeOK'
    BY <1>1, <2>2 DEF TypeOK, WorkerStep, worker, ctx, memory, world, block
  <2>4. MemoryInv'
    BY <1>0, <1>1, <2>2 DEF MemoryInv, memory, TimerStart
  <2>5. CallInv'
    BY <1>0, <1>1, <2>2
       DEF CallInv, TimerStart, Verified, VerifySentAll, Accepted, world, Caller
  <2>6. NpInv'
    BY <1>0, <1>1, <2>2 DEF NpInv, world
  <2> QED
    BY <2>3, <2>4, <2>5, <2>6
<1>3. CASE ~Notified(ev)
  <2>1. UNCHANGED <<np, call>>
    BY <1>3 DEF FinishSent
  <2>3. TypeOK'
    BY <1>1, <2>1 DEF TypeOK, WorkerStep, worker, ctx, memory, world, block
  <2>4. MemoryInv'
    BY <1>0, <1>1, <2>1 DEF MemoryInv, memory
  <2>5. CallInv'
    BY <1>0, <1>1, <2>1
       DEF CallInv, Verified, VerifySentAll, Accepted, world, Caller
  <2>6. NpInv'
    BY <1>0, <1>1, <2>1 DEF NpInv, world, VerifySentAll
  <2> QED
    BY <2>3, <2>4, <2>5, <2>6
<1> QED
  BY <1>2, <1>3

LEMMA FinishSentInv == ASSUME IndInv, FinishSent PROVE IndInv'
<1> USE CommitAssumption DEF IndInv, worker, ctx, memory, world, block, Caller
<1>2. WorkerInv'
  BY DEF FinishSent, NotificationsSent, TimerStart, Notified, ShouldBeRemoved, WorkerInv, TypeOK,
         MemoryInv, Call
<1>4. SentInv'
  BY DEF FinishSent, NotificationsSent, TimerStart, Notified, ShouldBeRemoved, SentInv, WorkerInv,
         TypeOK, Event
<1>7. DecisionInv'
  BY DEF FinishSent, NotificationsSent, TimerStart, Notified, ShouldBeRemoved, DecisionInv,
         CallInv, SentInv, WorkerInv, TypeOK, Accepted, WriteOnlyIfAccepted, ResumedOnce
<1> QED
  BY <1>2, <1>4, <1>7, FinishSentMain

LEMMA PauseInv == ASSUME IndInv, Pause PROVE IndInv'
<1> USE CommitAssumption DEF IndInv, worker, ctx, memory, world, block, Caller
<1>1. TypeOK'
  BY DEF Pause, TypeOK, WorkerStep, CallerStep, Code, Event, Call, NpContext
<1>2. WorkerInv'
  BY DEF Pause, WorkerInv, TypeOK, MemoryInv, Call
<1>3. MemoryInv'
  BY DEF Pause, MemoryInv, WorkerInv, TypeOK, Call
<1>4. SentInv'
  BY DEF Pause, SentInv, WorkerInv, TypeOK, Event
<1>5. NpInv'
  BY DEF Pause, NpInv, SentInv, WorkerInv, TypeOK, VerifySentAll, MemoryInv, NpContext, Call
<1>6. CallInv'
  BY DEF Pause, CallInv, NpInv, SentInv, WorkerInv, TypeOK, Verified, VerifySentAll, Accepted,
         NpContext, Call
<1>7. DecisionInv'
  BY DEF Pause, DecisionInv, CallInv, SentInv, WorkerInv, TypeOK, Accepted, WriteOnlyIfAccepted,
         ResumedOnce
<1> QED
  BY <1>1, <1>2, <1>3, <1>4, <1>5, <1>6, <1>7

LEMMA FindInv == ASSUME IndInv, Find PROVE IndInv'
<1> USE CommitAssumption DEF IndInv, worker, ctx, memory, world, block, Caller
<1>1. TypeOK'
  BY DEF Find, Answer, TypeOK, WorkerStep, CallerStep, Code, Event, Call, NpContext
<1>2. WorkerInv'
  BY DEF Find, Answer, WorkerInv, TypeOK, MemoryInv, Call
<1>3. MemoryInv'
  BY DEF Find, Answer, MemoryInv, WorkerInv, TypeOK, Call
<1>4. SentInv'
  BY DEF Find, Answer, SentInv, WorkerInv, TypeOK, Event
<1>5. NpInv'
  BY DEF Find, Answer, NpInv, SentInv, WorkerInv, TypeOK, VerifySentAll, MemoryInv, NpContext,
         Call
<1>6. CallInv'
  BY DEF Find, Answer, CallInv, NpInv, SentInv, WorkerInv, TypeOK, Verified, VerifySentAll,
         Accepted, NpContext, Call
<1>7. DecisionInv'
  BY DEF Find, Answer, DecisionInv, CallInv, SentInv, WorkerInv, TypeOK, Accepted,
         WriteOnlyIfAccepted, ResumedOnce
<1> QED
  BY <1>1, <1>2, <1>3, <1>4, <1>5, <1>6, <1>7

LEMMA ResumeInv == ASSUME IndInv, Resume PROVE IndInv'
<1> USE CommitAssumption DEF IndInv, worker, ctx, memory, world, block, Caller
<1>1. TypeOK'
  BY DEF Resume, TypeOK, WorkerStep, CallerStep, Code, Event, Call, NpContext
<1>2. WorkerInv'
  BY DEF Resume, WorkerInv, TypeOK, MemoryInv, Call
<1>3. MemoryInv'
  BY DEF Resume, MemoryInv, WorkerInv, TypeOK, Call
<1>4. SentInv'
  BY DEF Resume, SentInv, WorkerInv, TypeOK, Event
<1>5. NpInv'
  BY DEF Resume, NpInv, SentInv, WorkerInv, TypeOK, VerifySentAll, MemoryInv, NpContext,
         Call
<1>6. CallInv'
  BY DEF Resume, CallInv, NpInv, SentInv, WorkerInv, TypeOK, Verified, VerifySentAll,
         Accepted, NpContext, Call
<1>7. DecisionInv'
  BY DEF Resume, DecisionInv, CallInv, SentInv, WorkerInv, TypeOK, Accepted,
         WriteOnlyIfAccepted, ResumedOnce
<1> QED
  BY <1>1, <1>2, <1>3, <1>4, <1>5, <1>6, <1>7

LEMMA WriteInv == ASSUME IndInv, Write PROVE IndInv'
<1> USE CommitAssumption DEF IndInv, worker, ctx, memory, world, block, Caller
<1>1. TypeOK'
  BY DEF Write, TypeOK, WorkerStep, CallerStep, Code, Event, Call, NpContext
<1>2. WorkerInv'
  BY DEF Write, WorkerInv, TypeOK, MemoryInv, Call
<1>3. MemoryInv'
  BY DEF Write, MemoryInv, WorkerInv, TypeOK, Call
<1>4. SentInv'
  BY DEF Write, SentInv, WorkerInv, TypeOK, Event
<1>5. NpInv'
  BY DEF Write, NpInv, SentInv, WorkerInv, TypeOK, VerifySentAll, MemoryInv, NpContext, Call
<1>6. CallInv'
  BY DEF Write, CallInv, NpInv, SentInv, WorkerInv, TypeOK, Verified, VerifySentAll, Accepted,
         NpContext, Call
<1>7. DecisionInv'
  BY DEF Write, DecisionInv, CallInv, SentInv, WorkerInv, TypeOK, Accepted, WriteOnlyIfAccepted,
         ResumedOnce
<1> QED
  BY <1>1, <1>2, <1>3, <1>4, <1>5, <1>6, <1>7

LEMMA CleanupInv == ASSUME IndInv, Cleanup PROVE IndInv'
<1> USE CommitAssumption DEF IndInv, worker, ctx, memory, world, block, Caller
<1>1. TypeOK'
  BY DEF Cleanup, Answer, TypeOK, WorkerStep, CallerStep, Code, Event, Call, NpContext
<1>2. WorkerInv'
  BY DEF Cleanup, Answer, WorkerInv, TypeOK, MemoryInv, Call
<1>3. MemoryInv'
  BY DEF Cleanup, Answer, MemoryInv, WorkerInv, TypeOK, Call
<1>4. SentInv'
  BY DEF Cleanup, Answer, SentInv, WorkerInv, TypeOK, Event
<1>5. NpInv'
  BY DEF Cleanup, Answer, NpInv, SentInv, WorkerInv, TypeOK, VerifySentAll, MemoryInv, NpContext,
         Call
<1>6. CallInv'
  BY DEF Cleanup, Answer, CallInv, NpInv, SentInv, WorkerInv, TypeOK, Verified, VerifySentAll,
         Accepted, NpContext, Call
<1>7. DecisionInv'
  BY DEF Cleanup, Answer, DecisionInv, CallInv, SentInv, WorkerInv, TypeOK, Accepted,
         WriteOnlyIfAccepted, ResumedOnce
<1> QED
  BY <1>1, <1>2, <1>3, <1>4, <1>5, <1>6, <1>7

LEMMA WorkerRemoveInv == ASSUME IndInv, WorkerRemove PROVE IndInv'
<1> USE CommitAssumption DEF IndInv, worker, ctx, memory, world, block, Caller
<1>1. TypeOK'
  BY RemoveType DEF WorkerRemove, Answer, TypeOK, WorkerStep, Code
<1>2. WorkerInv'
  BY DEF WorkerRemove, RemoveContext, Answer, WorkerInv, TypeOK, MemoryInv, Call
<1>3. MemoryInv'
  BY DEF WorkerRemove, RemoveContext, Answer, MemoryInv, WorkerInv, TypeOK, Call
<1>4. SentInv'
  BY DEF WorkerRemove, RemoveContext, Answer, SentInv, WorkerInv, TypeOK, Event
<1>5. NpInv'
  BY DEF WorkerRemove, RemoveContext, Answer, NpInv, SentInv, WorkerInv, TypeOK, VerifySentAll,
         MemoryInv, NpContext, Call
<1>6. CallInv'
  BY DEF WorkerRemove, RemoveContext, Answer, CallInv, NpInv, SentInv, WorkerInv, TypeOK,
         Verified, VerifySentAll, Accepted, NpContext, Call
<1>7. DecisionInv'
  BY DEF WorkerRemove, RemoveContext, Answer, DecisionInv, CallInv, SentInv, WorkerInv, TypeOK,
         Accepted, WriteOnlyIfAccepted, ResumedOnce
<1> QED
  BY <1>1, <1>2, <1>3, <1>4, <1>5, <1>6, <1>7

LEMMA SendMain == ASSUME IndInv, NEW s \in Sub, Send(s) PROVE SentInv' /\ CallInv'
<1> USE CommitAssumption DEF IndInv
<1>1. /\ wpc = "send" /\ s \in toSend /\ toSend' = toSend \ {s}
      /\ sent' = sent \union {<<ev, s>>} /\ inflight' = inflight \union {<<ev, s>>}
      /\ np'.here /\ np'.finished = np.finished
      /\ UNCHANGED <<wpc, ev, written, verdict, call>>
  BY DEF Send, TypeOK, NpContext
<1>2. ev = "verify" => s \in Verifier
  BY <1>1 DEF SentInv
<1>3. SentInv'
  BY <1>1, <1>2, Zenon DEF SentInv, TypeOK, Event
<1>4. CASE ev = "verify"
  <2>1. \A c \in Caller : call[c].pc = "off"
    BY <1>1, <1>4 DEF WorkerInv, NpInv
  <2> QED
    BY <1>1, <1>3, <2>1, Zenon DEF CallInv, Caller
<1>5. CASE ev # "verify"
  <2>1. Verified' = Verified
    BY <1>1, <1>5 DEF Verified, VerifySentAll
  <2> QED
    BY <1>1, <1>3, <2>1, Zenon DEF CallInv, Accepted
<1> QED
  BY <1>4, <1>5

LEMMA SendInv == ASSUME IndInv, NEW s \in Sub, Send(s) PROVE IndInv'
<1> USE CommitAssumption DEF IndInv, worker, ctx, memory, world, block, Caller
<1>1. TypeOK'
  <2>1. np' \in NpContext
    BY Zenon DEF Send, TypeOK, NpContext
  <2>2. sent' \subseteq Event \X Sub /\ inflight' \subseteq Event \X Sub
    BY DEF Send, TypeOK
  <2>3. toSend' \subseteq Sub /\ rc' \in Code
    BY DEF Send, TypeOK, Code
  <2> QED
    BY <2>1, <2>2, <2>3 DEF Send, TypeOK
<1>2. WorkerInv'
  BY DEF Send, WorkerInv, TypeOK, MemoryInv, Call
<1>3. MemoryInv'
  BY DEF Send, MemoryInv, WorkerInv, TypeOK, Call
<1>5. NpInv'
  BY DEF Send, NpInv, SentInv, WorkerInv, TypeOK, VerifySentAll, MemoryInv, NpContext, Call
<1>7. DecisionInv'
  BY DEF Send, DecisionInv, CallInv, SentInv, WorkerInv, TypeOK, Accepted, WriteOnlyIfAccepted,
         ResumedOnce
<1> QED
  BY <1>1, <1>2, <1>3, <1>5, <1>7, SendMain

LEMMA ReturnInv == ASSUME IndInv, NEW s \in Verifier, NEW v \in {"accept", "refuse"}, Return(s, v) PROVE IndInv'
<1> USE CommitAssumption DEF IndInv, worker, ctx, memory, world, block, Caller
<1>1. TypeOK'
  BY DEF Return, TypeOK, WorkerStep, CallerStep, Code, Event, Call, NpContext
<1>2. WorkerInv'
  BY DEF Return, WorkerInv, TypeOK, MemoryInv, Call
<1>3. MemoryInv'
  BY DEF Return, MemoryInv, WorkerInv, TypeOK, Call
<1>4. SentInv'
  BY DEF Return, SentInv, WorkerInv, TypeOK, Event
<1>5. NpInv'
  BY DEF Return, NpInv, SentInv, WorkerInv, TypeOK, VerifySentAll, MemoryInv, NpContext, Call
<1>6. CallInv'
  BY DEF Return, CallInv, NpInv, SentInv, WorkerInv, TypeOK, Verified, VerifySentAll, Accepted,
         NpContext, Call
<1>7. DecisionInv'
  BY DEF Return, DecisionInv, CallInv, SentInv, WorkerInv, TypeOK, Accepted, WriteOnlyIfAccepted,
         ResumedOnce
<1> QED
  BY <1>1, <1>2, <1>3, <1>4, <1>5, <1>6, <1>7

LEMMA AckInv == ASSUME IndInv, NEW e \in Event, NEW s \in Sub, Ack(e, s) PROVE IndInv'
<1> USE CommitAssumption DEF IndInv, worker, ctx, memory, world, block, Caller
<1>1. TypeOK'
  <2>1. AckResult(e, s) \in Code
    BY DEF AckResult, TypeOK, Code, NpContext
  <2>2. np' \in NpContext
    <3> DEFINE spared == {t \in {s} \intersect NoAbort : e = "verify" /\ verdict[t] = "refuse"}
               new == {XpathOf[t] : t \in spared}
               r == AckResult(e, s)
    <3>1. np' = np \/ np' = [np EXCEPT !.result = r, !.errs = @ \union new]
      BY DEF Ack
    <3>2. new \subseteq Xpath
      BY DEF CommitAssumption
    <3>3. r \in Code /\ np \in NpContext
      BY <2>1 DEF TypeOK
    <3> HIDE DEF new, r
    <3> QED
      BY <3>1, <3>2, <3>3, Zenon DEF NpContext
  <2>3. call' \in [Caller -> Call]
    BY DEF Ack, TypeOK, CallerStep, Call
  <2>4. inflight' \subseteq Event \X Sub
    BY DEF Ack, TypeOK
  <2>5. UNCHANGED <<worker, ctx, memory, mutex, readers, written, resumes, sent, verdict, block>>
    BY DEF Ack
  <2> QED
    BY <2>2, <2>3, <2>4, <2>5 DEF TypeOK
<1>2. WorkerInv'
  BY DEF Ack, AckResult, WorkerInv, TypeOK, MemoryInv, Call
<1>3. MemoryInv'
  BY DEF Ack, AckResult, MemoryInv, WorkerInv, TypeOK, Call
<1>4. SentInv'
  BY DEF Ack, AckResult, SentInv, WorkerInv, TypeOK, Event
<1>5. NpInv'
  BY DEF Ack, AckResult, NpInv, SentInv, WorkerInv, TypeOK, VerifySentAll, MemoryInv, NpContext,
         Call
<1>6. CallInv'
  BY DEF Ack, AckResult, CallInv, NpInv, SentInv, WorkerInv, TypeOK, Verified, VerifySentAll,
         Accepted, NpContext, Call
<1>7. DecisionInv'
  BY DEF Ack, AckResult, DecisionInv, CallInv, SentInv, WorkerInv, TypeOK, Accepted,
         WriteOnlyIfAccepted, ResumedOnce
<1> QED
  BY <1>1, <1>2, <1>3, <1>4, <1>5, <1>6, <1>7

LEMMA TimerInv == ASSUME IndInv, NEW c \in Caller, Timer(c) PROVE IndInv'
<1> USE CommitAssumption DEF IndInv, worker, ctx, memory, world, block, Caller
<1>1. TypeOK'
  BY DEF Timer, TypeOK, WorkerStep, CallerStep, Code, Event, Call, NpContext
<1>2. WorkerInv'
  BY DEF Timer, WorkerInv, TypeOK, MemoryInv, Call
<1>3. MemoryInv'
  BY DEF Timer, MemoryInv, WorkerInv, TypeOK, Call
<1>4. SentInv'
  BY DEF Timer, SentInv, WorkerInv, TypeOK, Event
<1>5. NpInv'
  BY DEF Timer, NpInv, SentInv, WorkerInv, TypeOK, VerifySentAll, MemoryInv, NpContext, Call
<1>6. CallInv'
  <2>1. /\ call'[c].pc = "complete" /\ call'[c].expired = call[c].expired
        /\ \A d \in Caller : d # c => call'[d] = call[d]
        /\ UNCHANGED <<wpc, np, sent, inflight, verdict>>
    BY DEF Timer, TypeOK, Call
  <2>2. call[c].pc \in {"immediate", "armed"} /\ c # "vack"
    BY DEF Timer, CallInv
  <2> QED
    BY <2>1, <2>2 DEF CallInv, Verified, VerifySentAll, Accepted
<1>7. DecisionInv'
  BY DEF Timer, DecisionInv, CallInv, SentInv, WorkerInv, TypeOK, Accepted, WriteOnlyIfAccepted,
         ResumedOnce
<1> QED
  BY <1>1, <1>2, <1>3, <1>4, <1>5, <1>6, <1>7

LEMMA CompleteInv == ASSUME IndInv, NEW c \in Caller, Complete(c) PROVE IndInv'
<1> USE CommitAssumption DEF IndInv, worker, ctx, memory, world, block, Caller
<1>1. TypeOK'
  <2>1. Outcome(c) \in Code
    BY DEF Outcome, TypeOK, Code, NpContext
  <2>2. np' \in NpContext
    <3>1. NoNp \in NpContext
      BY DEF NoNp, NpContext, Code
    <3>2. [np EXCEPT !.allSent = FALSE, !.errs = {}] \in NpContext
      BY Zenon DEF TypeOK, NpContext
    <3> QED
      BY <3>1, <3>2 DEF Complete, TypeOK
  <2>3. call' \in [Caller -> Call]
    <3> DEFINE finished == np.finished
               errs == np.errs
               r == Outcome(c)
    <3>0. finished \in BOOLEAN /\ errs \in SUBSET Xpath /\ r \in Code /\ call[c] \in Call
      BY <2>1 DEF TypeOK, NpContext
    <3> HIDE DEF finished, errs, r
    <3>1. [call[c] EXCEPT !.pc = "rd", !.finished = finished, !.result = r, !.errs = errs] \in Call
      BY <3>0, Zenon DEF CallerStep, Call
    <3>2. [call[c] EXCEPT !.pc = "done"] \in Call
      BY DEF TypeOK, CallerStep, Call
    <3>3. \/ call' = [call EXCEPT ![c] = [call[c] EXCEPT !.pc = "rd", !.finished = np.finished,
                                            !.result = Outcome(c), !.errs = np.errs]]
          \/ call' = [call EXCEPT ![c] = [call[c] EXCEPT !.pc = "done"]]
      BY Zenon DEF Complete
    <3> QED
      BY <3>1, <3>2, <3>3 DEF TypeOK, finished, errs, r
  <2> QED
    BY <2>2, <2>3 DEF Complete, TypeOK
<1>2. WorkerInv'
  BY DEF Complete, Outcome, NoNp, WorkerInv, TypeOK, MemoryInv, Call
<1>3. MemoryInv'
  BY DEF Complete, Outcome, NoNp, MemoryInv, WorkerInv, TypeOK, Call
<1>4. SentInv'
  BY DEF Complete, Outcome, NoNp, SentInv, WorkerInv, TypeOK, Event
<1>5. NpInv'
  <2>1. CASE np.here /\ np.finished
    <3>1. ~np'.here /\ ~np'.finished /\ ~np'.allSent
      BY <2>1 DEF Complete, NoNp
    <3> QED
      BY <2>1, <3>1 DEF Complete, NpInv, VerifySentAll
  <2>2. CASE np.here /\ ~np.finished
    <3>1. np' = [np EXCEPT !.allSent = FALSE, !.errs = {}]
      BY <2>2 DEF Complete
    <3>2. np'.here = np.here /\ np'.finished = np.finished /\ np'.allSent = FALSE
          /\ np'.result = np.result
      BY <3>1 DEF TypeOK, NpContext
    <3> QED
      BY <2>2, <3>2 DEF Complete, NpInv
  <2>3. CASE ~np.here
    BY <2>3 DEF Complete, NpInv, TypeOK, Call, VerifySentAll
  <2> QED
    BY <2>1, <2>2, <2>3
<1>6. CallInv'
  <2>1. /\ call[c].pc = "complete"
        /\ \A d \in Caller : d # c => call'[d] = call[d]
        /\ UNCHANGED <<wpc, sent, inflight, verdict>>
        /\ call'[c].pc \in {"rd", "done"}
    BY DEF Complete, TypeOK, Call
  <2>3. np'.here => np.here /\ np'.finished = np.finished
    <3>1. np' = np \/ np' = NoNp \/ np' = [np EXCEPT !.allSent = FALSE, !.errs = {}]
      BY DEF Complete
    <3>2. ~NoNp.here
      BY DEF NoNp
    <3>3. CASE np' = [np EXCEPT !.allSent = FALSE, !.errs = {}]
      <4>1. np'.here = np.here /\ np'.finished = np.finished
        BY <3>3 DEF TypeOK, NpContext
      <4> QED
        BY <4>1
    <3> QED
      BY <3>1, <3>2, <3>3
  <2>2. ASSUME call'[c].pc = "rd", ~call'[c].finished, call'[c].result = "ok"
        PROVE  Accepted
    <3>1. np.here /\ ~np.finished /\ ~call[c].expired /\ np.result = "ok"
      BY <2>2 DEF Complete, TypeOK, Call, Outcome
    <3>2. Verified
      BY <2>1, <3>1 DEF CallInv
    <3> QED
      BY <3>1, <3>2, Zenon DEF NpInv, Verified, VerifySentAll, Accepted
  <2> QED
    BY <2>1, <2>2, <2>3 DEF CallInv, Verified, VerifySentAll, Accepted
<1>7. DecisionInv'
  BY DEF Complete, Outcome, NoNp, DecisionInv, CallInv, SentInv, WorkerInv, TypeOK, Accepted,
         WriteOnlyIfAccepted, ResumedOnce
<1> QED
  BY <1>1, <1>2, <1>3, <1>4, <1>5, <1>6, <1>7

LEMMA LookupInv == ASSUME IndInv, NEW c \in Caller, Lookup(c) PROVE IndInv'
<1> USE CommitAssumption DEF IndInv, worker, ctx, memory, world, block, Caller
<1>1. TypeOK'
  BY DEF Lookup, TypeOK, WorkerStep, CallerStep, Code, Event, Call, NpContext
<1>2. WorkerInv'
  BY DEF Lookup, WorkerInv, TypeOK, MemoryInv, Call
<1>3. MemoryInv'
  BY DEF Lookup, MemoryInv, WorkerInv, TypeOK, Call
<1>4. SentInv'
  BY DEF Lookup, SentInv, WorkerInv, TypeOK, Event
<1>5. NpInv'
  BY DEF Lookup, NpInv, SentInv, WorkerInv, TypeOK, VerifySentAll, MemoryInv, NpContext, Call
<1>6. CallInv'
  BY DEF Lookup, CallInv, NpInv, SentInv, WorkerInv, TypeOK, Verified, VerifySentAll, Accepted,
         NpContext, Call
<1>7. DecisionInv'
  BY DEF Lookup, DecisionInv, CallInv, SentInv, WorkerInv, TypeOK, Accepted, WriteOnlyIfAccepted,
         ResumedOnce
<1> QED
  BY <1>1, <1>2, <1>3, <1>4, <1>5, <1>6, <1>7

LEMMA ReceivedInv == ASSUME IndInv, NEW c \in Caller, Received(c) PROVE IndInv'
<1> USE CommitAssumption DEF IndInv, worker, ctx, memory, world, block, Caller
<1>1. TypeOK'
  BY DEF Received, EndsWait, EndsCommit, TypeOK, WorkerStep, CallerStep, Code, Event, Call,
         NpContext
<1>2. WorkerInv'
  BY DEF Received, EndsWait, EndsCommit, WorkerInv, TypeOK, MemoryInv, Call
<1>3. MemoryInv'
  BY DEF Received, EndsWait, EndsCommit, MemoryInv, WorkerInv, TypeOK, Call
<1>4. SentInv'
  BY DEF Received, EndsWait, EndsCommit, SentInv, WorkerInv, TypeOK, Event
<1>5. NpInv'
  BY DEF Received, EndsWait, EndsCommit, NpInv, SentInv, WorkerInv, TypeOK, VerifySentAll,
         MemoryInv, NpContext, Call
<1>6. CallInv'
  BY DEF Received, EndsWait, EndsCommit, CallInv, NpInv, SentInv, WorkerInv, TypeOK, Verified,
         VerifySentAll, Accepted, NpContext, Call
<1>7. DecisionInv'
  BY DEF Received, EndsWait, EndsCommit, DecisionInv, CallInv, SentInv, WorkerInv, TypeOK,
         Accepted, WriteOnlyIfAccepted, ResumedOnce
<1> QED
  BY <1>1, <1>2, <1>3, <1>4, <1>5, <1>6, <1>7

LEMMA CallerRemoveInv == ASSUME IndInv, NEW c \in Caller, CallerRemove(c) PROVE IndInv'
<1> USE CommitAssumption DEF IndInv, worker, ctx, memory, world, block, Caller
<1>1. TypeOK'
  <2>1. call' \in [Caller -> Call]
    BY DEF CallerRemove, TypeOK, Call, CallerStep
  <2> QED
    BY <2>1, RemoveType DEF CallerRemove, TypeOK
<1>2. WorkerInv'
  BY DEF CallerRemove, RemoveContext, WorkerInv, TypeOK, MemoryInv, Call
<1>3. MemoryInv'
  BY DEF CallerRemove, RemoveContext, MemoryInv, WorkerInv, TypeOK, Call
<1>4. SentInv'
  BY DEF CallerRemove, RemoveContext, SentInv, WorkerInv, TypeOK, Event
<1>5. NpInv'
  BY DEF CallerRemove, RemoveContext, NpInv, SentInv, WorkerInv, TypeOK, VerifySentAll, MemoryInv,
         NpContext, Call
<1>6. CallInv'
  BY DEF CallerRemove, RemoveContext, CallInv, NpInv, SentInv, WorkerInv, TypeOK, Verified,
         VerifySentAll, Accepted, NpContext, Call
<1>7. DecisionInv'
  BY DEF CallerRemove, RemoveContext, DecisionInv, CallInv, SentInv, WorkerInv, TypeOK, Accepted,
         WriteOnlyIfAccepted, ResumedOnce
<1> QED
  BY <1>1, <1>2, <1>3, <1>4, <1>5, <1>6, <1>7

LEMMA StopInv == ASSUME IndInv, Stop PROVE IndInv'
<1> USE CommitAssumption DEF IndInv, worker, ctx, memory, world, block, Caller
<1>1. TypeOK'
  BY DEF Stop, TypeOK, WorkerStep, CallerStep, Code, Event, Call, NpContext
<1>2. WorkerInv'
  BY DEF Stop, WorkerInv, TypeOK, MemoryInv, Call
<1>3. MemoryInv'
  BY DEF Stop, MemoryInv, WorkerInv, TypeOK, Call
<1>4. SentInv'
  BY DEF Stop, SentInv, WorkerInv, TypeOK, Event
<1>5. NpInv'
  BY DEF Stop, NpInv, SentInv, WorkerInv, TypeOK, VerifySentAll, MemoryInv, NpContext, Call
<1>6. CallInv'
  BY DEF Stop, CallInv, NpInv, SentInv, WorkerInv, TypeOK, Verified, VerifySentAll, Accepted,
         NpContext, Call
<1>7. DecisionInv'
  BY DEF Stop, DecisionInv, CallInv, SentInv, WorkerInv, TypeOK, Accepted, WriteOnlyIfAccepted,
         ResumedOnce
<1> QED
  BY <1>1, <1>2, <1>3, <1>4, <1>5, <1>6, <1>7

-----------------------------------------------------------------------------
(* The invariant, and what follows from it *)

LEMMA InitInv == Init => IndInv
<1> SUFFICES ASSUME Init PROVE IndInv
  OBVIOUS
<1> USE CommitAssumption DEF Init
<1>1. NoNp \in NpContext /\ NoCall \in Call
  BY DEF NoNp, NoCall, NpContext, Call, Code, CallerStep
<1>2. TypeOK
  BY <1>1, Zenon DEF TypeOK, WorkerStep, Event, Code
<1>3. \A c \in Caller : call[c].pc = "off"
  BY DEF NoCall
<1>4. ~np.here /\ ~np.allSent /\ ~np.finished
  BY DEF NoNp
<1>5. WorkerInv /\ MemoryInv /\ SentInv
  BY <1>3 DEF WorkerInv, MemoryInv, SentInv
<1>6. NpInv /\ CallInv /\ DecisionInv
  BY <1>3, <1>4 DEF NpInv, CallInv, DecisionInv, Caller, WriteOnlyIfAccepted, ResumedOnce
<1> QED
  BY <1>2, <1>5, <1>6 DEF IndInv

LEMMA StutterInv == ASSUME IndInv, UNCHANGED vars PROVE IndInv'
<1> USE DEF IndInv, vars
<1>1. TypeOK' /\ WorkerInv' /\ MemoryInv' /\ SentInv'
  BY DEF TypeOK, WorkerInv, MemoryInv, SentInv
<1>2. NpInv' /\ CallInv' /\ DecisionInv'
  BY DEF NpInv, CallInv, DecisionInv, VerifySentAll, Verified, Accepted, WriteOnlyIfAccepted,
         ResumedOnce
<1> QED
  BY <1>1, <1>2

LEMMA NextInv == IndInv /\ [Next]_vars => IndInv'
<1> SUFFICES ASSUME IndInv, [Next]_vars PROVE IndInv'
  OBVIOUS
<1>1. CASE WorkerStepOf
  BY <1>1, RefuseInv, PrepareInv, PrepareFailsInv, SaveInv, SendInv, VerifySentInv,
     FinishSentInv, PauseInv, FindInv, ResumeInv, WriteInv, CleanupInv, WorkerRemoveInv
     DEF WorkerStepOf
<1>2. CASE \E c \in Caller : CallerStepOf(c)
  BY <1>2, TimerInv, CompleteInv, LookupInv, ReceivedInv, CallerRemoveInv DEF CallerStepOf
<1>3. CASE SubscriberStep
  BY <1>3, ReturnInv, AckInv DEF SubscriberStep
<1>4. CASE Stop
  BY <1>4, StopInv
<1>5. CASE UNCHANGED vars
  BY <1>5, StutterInv
<1> QED
  BY <1>1, <1>2, <1>3, <1>4, <1>5 DEF Next

LEMMA Invariance == Spec => []IndInv
  BY InitInv, NextInv, PTL DEF Spec

\* Every variable keeps its type.
THEOREM CommitTypes == Spec => []TypeOK
<1>1. IndInv => TypeOK
  BY DEF IndInv
<1> QED
  BY <1>1, Invariance, PTL

\* No data file is written (dm_commit_write_files) before all verifiers have
\* accepted, for any number of subscriptions and any order of acknowledgements,
\* timeouts and shutdown.
THEOREM WritesAreAccepted == Spec => []WriteOnlyIfAccepted
<1>1. IndInv => WriteOnlyIfAccepted
  BY DEF IndInv, DecisionInv
<1> QED
  BY <1>1, Invariance, PTL

\* A commit aborted for one subscriber is aborted: not written, applied for nobody.
THEOREM AbortsAreFinal == Spec => []AbortIsFinal
<1>1. IndInv => AbortIsFinal
  BY Zenon DEF IndInv, SentInv, AbortIsFinal, Notified, Event
<1> QED
  BY <1>1, Invariance, PTL

\* rp_all_notifications_received puts the request back at most once.
THEOREM SingleResumption == Spec => []ResumedOnce
<1>1. IndInv => ResumedOnce
  BY DEF IndInv, DecisionInv
<1> QED
  BY <1>1, Invariance, PTL

\* The commit context is not freed under a thread that uses it.
THEOREM ContextSafe == Spec => []NoUseAfterFree
<1>1. IndInv => NoUseAfterFree
  BY DEF IndInv, MemoryInv, NoUseAfterFree
<1> QED
  BY <1>1, Invariance, PTL

\* Files are written with the module locks held and by the owner of the context.
THEOREM WritesAreLocked == Spec => []WriteUnderLocks
<1>1. IndInv => WriteUnderLocks
  BY DEF IndInv, MemoryInv, WriteUnderLocks
<1> QED
  BY <1>1, Invariance, PTL

-----------------------------------------------------------------------------
(* Refinement of CommitService *)

\* A step that leaves the votes, the outcome and what was told as they are.
LEMMA Unseen ==
    ASSUME UNCHANGED <<state, sent, verdict>>,
           state \in {"started", "wait", "abort"} \/ UNCHANGED ev
                \/ (state = "write" /\ ev # "abort" /\ ev' # "abort")
    PROVE  UNCHANGED CS!votes
<1>1. Decision' = Decision
  BY DEF Decision
<1>2. Told' = Told
  BY DEF Told
<1> QED
  BY <1>1, <1>2 DEF CS!votes

LEMMA StepRefines == IndInv /\ [Next]_vars => [CS!Change]_(CS!votes)
<1> SUFFICES ASSUME IndInv, [Next]_vars PROVE [CS!Change]_(CS!votes)
  OBVIOUS
<1> USE DEF worker, ctx, memory, world, block
<1>1. CASE Refuse \/ Prepare \/ PrepareFails \/ Save \/ Pause \/ Find \/ Cleanup \/ WorkerRemove
  BY <1>1, Unseen, Zenon
     DEF Refuse, Prepare, PrepareFails, Save, Pause, Find, Cleanup, WorkerRemove, Answer
<1>2. CASE Resume
  BY <1>2, Unseen DEF Resume, IndInv, WorkerInv
<1>3. CASE Write
  BY <1>3, Unseen DEF Write, IndInv, WorkerInv
<1>4. ASSUME NEW s \in Sub, Send(s) PROVE [CS!Change]_(CS!votes)
  <2>1. UNCHANGED <<state, ev, verdict>> /\ sent' = sent \union {<<ev, s>>} /\ wpc = "send"
    BY <1>4 DEF Send
  <2>2. Decision' = Decision
    BY <2>1 DEF Decision
  <2>3. CASE ev = "verify"
    <3>1. Told' = Told
      BY <2>1, <2>3 DEF Told
    <3> QED
      BY <2>1, <2>2, <3>1 DEF CS!votes
  <2>4. CASE ev # "verify"
    <3>1. Decision = (IF ev = "apply" THEN "write" ELSE "abort")
      BY <2>1, <2>4 DEF IndInv, WorkerInv, Decision, TypeOK, Event
    <3>2. Told' = Told \union {<<Decision, s>>}
      BY <2>1, <2>4, <3>1 DEF Told, IndInv, TypeOK, Event
    <3>3. CS!Tell(s)
      BY <2>1, <2>2, <3>1, <3>2 DEF CS!Tell
    <3> QED
      BY <3>3 DEF CS!Change
  <2> QED
    BY <2>3, <2>4
<1>5. CASE VerifySent
  <2>1. UNCHANGED <<ev, sent, verdict>> /\ ev = "verify" /\ state = "started" /\ Told' = Told
    BY <1>5 DEF VerifySent, IndInv, WorkerInv, Told
  <2>2. CASE state' = "wait"
    BY <2>1, <2>2 DEF CS!votes, Decision
  <2>3. CASE state' # "wait"
    <3>1. state' = "write" /\ ~Notified("verify")
      BY <1>5, <2>3, Zenon DEF VerifySent
    <3>2. Verifier = {}
      BY <1>5, <3>1, CommitAssumption DEF VerifySent, IndInv, SentInv, Notified, CommitAssumption
    <3>3. CS!Decide("write")
      BY <2>1, <3>1, <3>2 DEF CS!Decide, Decision
    <3> QED
      BY <3>3 DEF CS!Change
  <2> QED
    BY <2>2, <2>3
<1>6. CASE FinishSent
  <2>1. /\ UNCHANGED <<ev, sent, verdict>> /\ state' = "finished"
        /\ state = (IF ev = "apply" THEN "write" ELSE "abort")
        /\ ev \in {"apply", "abort"}
        /\ Told' = Told
    BY <1>6 DEF FinishSent, IndInv, WorkerInv, TypeOK, Event, Told
  <2>2. Decision' = Decision
    BY <2>1 DEF Decision
  <2> QED
    BY <2>1, <2>2 DEF CS!votes
<1>7. ASSUME NEW s \in Verifier, NEW v \in {"accept", "refuse"}, Return(s, v)
      PROVE  [CS!Change]_(CS!votes)
  <2>1. Decision' = Decision /\ Told' = Told
    BY <1>7 DEF Return, Decision, Told
  <2>2. CS!Vote(s, v)
    BY <1>7, <2>1 DEF Return, CS!Vote
  <2> QED
    BY <2>2 DEF CS!Change
<1>8. ASSUME NEW e \in Event, NEW s \in Sub, Ack(e, s) PROVE [CS!Change]_(CS!votes)
  BY <1>8, Unseen DEF Ack
<1>9. ASSUME NEW c \in Caller, Timer(c) \/ Complete(c) \/ Lookup(c) \/ CallerRemove(c)
      PROVE  [CS!Change]_(CS!votes)
  BY <1>9, Unseen DEF Timer, Complete, Lookup, CallerRemove
<1>10. ASSUME NEW c \in Caller, Received(c) PROVE [CS!Change]_(CS!votes)
  <2>1. UNCHANGED <<ev, sent, verdict>> /\ Told' = Told
    BY <1>10 DEF Received, Told
  <2>2. CASE EndsWait(c)
    <3>1. /\ state = "wait" /\ ev = "verify" /\ call[c].pc = "ctx" /\ ~call[c].finished
          /\ state' = IF call[c].result = "ok" THEN "write" ELSE "abort"
      BY <1>10, <2>2 DEF Received, EndsWait, IndInv, WorkerInv
    <3>2. state' = "write" => Accepted
      BY <3>1 DEF IndInv, CallInv
    <3>3. CS!Decide(state')
      BY <2>1, <3>1, <3>2 DEF CS!Decide, Decision, Accepted
    <3> QED
      BY <3>1, <3>3 DEF CS!Change
  <2>3. CASE ~EndsWait(c)
    BY <1>10, <2>1, <2>3, Unseen DEF Received
  <2> QED
    BY <2>2, <2>3
<1>11. CASE Stop \/ UNCHANGED vars
  BY <1>11, Unseen DEF Stop, vars
<1> QED
  BY <1>1, <1>2, <1>3, <1>4, <1>5, <1>6, <1>7, <1>8, <1>9, <1>10, <1>11
     DEF Next, WorkerStepOf, CallerStepOf, SubscriberStep

\* The commit machinery implements the vote of CommitService: one decision, taken on
\* the answers of all verifiers, and nobody told another one.
THEOREM CommitRefines == Spec => ImplementsCommitService
<1>1. Init => CS!Begin
  BY DEF Init, CS!Begin, Decision, Told
<1> QED
  BY <1>1, StepRefines, Invariance, PTL DEF Spec, ImplementsCommitService, CS!Service
=============================================================================
