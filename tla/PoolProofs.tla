----------------------------- MODULE PoolProofs -----------------------------
(***************************************************************************)
(* active_threads is exact, for every number of worker threads and of      *)
(* messages.  With the types, the equation is inductive: a step moves at   *)
(* most one thread into the set that is counted, or out of it.  That only  *)
(* messages that were posted are dispatched, a part of the types, needs    *)
(* that only such messages are in the queue and in the hands of threads.   *)
(***************************************************************************)
EXTENDS WorkerPool, FiniteSetTheorems, SequenceTheorems, TLAPS

\* Only messages that were posted are queued or being dispatched.
OnlyPosted ==
    /\ request_queue \in Seq(posted \union {Empty})
    /\ \A t \in Thread : pc[t] = "dispatch" => req[t] \in posted

IndInv == TypeOK /\ ActiveCounted /\ OnlyPosted

\* The threads that active_threads counts.
Active == {t \in Thread : pc[t] \in Counted \union {"emptied"}}

\* The set of threads that are counted is finite, and no larger than the pool.
LEMMA ActiveFinite ==
    IsFiniteSet(Active) /\ Cardinality(Active) \in 0..RP_THREAD_COUNT
  <1>1. Active \subseteq Thread /\ IsFiniteSet(Thread)
    BY PoolAssumption DEF Active
  <1>2. IsFiniteSet(Active) /\ Cardinality(Active) <= Cardinality(Thread)
    BY <1>1, FS_Subset
  <1>3. Cardinality(Active) \in Nat /\ Cardinality(Thread) \in Nat
    BY <1>1, <1>2, FS_CardinalityType
  <1> QED
    BY <1>2, <1>3 DEF RP_THREAD_COUNT

\* The same after a step.
LEMMA ActiveFiniteNext ==
    IsFiniteSet(Active') /\ Cardinality(Active') \in 0..RP_THREAD_COUNT
  <1>1. Active' \subseteq Thread /\ IsFiniteSet(Thread)
    BY PoolAssumption DEF Active
  <1>2. IsFiniteSet(Active') /\ Cardinality(Active') <= Cardinality(Thread)
    BY <1>1, FS_Subset
  <1>3. Cardinality(Active') \in Nat /\ Cardinality(Thread) \in Nat
    BY <1>1, <1>2, FS_CardinalityType
  <1> QED
    BY <1>2, <1>3 DEF RP_THREAD_COUNT

\* A step that counts nobody in or out.
LEMMA SameActive ==
    ASSUME ActiveCounted, Active' = Active, active_threads' = active_threads
    PROVE  ActiveCounted' /\ active_threads' \in 0..RP_THREAD_COUNT
  <1>1. active_threads = Cardinality(Active)
    BY DEF ActiveCounted, Active
  <1> QED
    BY <1>1, ActiveFinite DEF ActiveCounted, Active

\* A thread counts itself in.
LEMMA OneMoreActive ==
    ASSUME ActiveCounted, NEW t \in Thread, t \notin Active,
           Active' = Active \union {t}, active_threads' = active_threads + 1
    PROVE  ActiveCounted' /\ active_threads' \in 0..RP_THREAD_COUNT
  <1>1. active_threads = Cardinality(Active)
    BY DEF ActiveCounted, Active
  <1>2. Cardinality(Active') = Cardinality(Active) + 1
    BY ActiveFinite, FS_AddElement
  <1> QED
    BY <1>1, <1>2, ActiveFiniteNext DEF ActiveCounted, Active

\* A thread counts itself out.
LEMMA OneLessActive ==
    ASSUME ActiveCounted, NEW t \in Thread, t \in Active,
           Active' = Active \ {t}, active_threads' = active_threads - 1
    PROVE  ActiveCounted' /\ active_threads' \in 0..RP_THREAD_COUNT
  <1>1. active_threads = Cardinality(Active)
    BY DEF ActiveCounted, Active
  <1>2. Cardinality(Active') = Cardinality(Active) - 1
    BY ActiveFinite, FS_RemoveElement
  <1> QED
    BY <1>1, <1>2, ActiveFiniteNext DEF ActiveCounted, Active

\* A signal wakes a thread up, which is not counted yet.
LEMMA SignalledKeeps ==
    ASSUME NEW p \in [Thread -> Step], NEW q \in Signalled(p),
           \A t \in Sleeping : p[t] = "sleep"
    PROVE  /\ q \in [Thread -> Step]
           /\ \A t \in Thread : \/ q[t] = p[t]
                                \/ p[t] = "sleep" /\ q[t] = "woken"
  <1>1. CASE Sleeping = {}
    BY <1>1 DEF Signalled
  <1>2. CASE Sleeping # {}
    <2>1. PICK u \in Sleeping : q = [p EXCEPT ![u] = "woken"]
      BY <1>2 DEF Signalled
    <2>2. u \in Thread /\ p[u] = "sleep"
      BY <2>1 DEF Sleeping
    <2> QED
      BY <2>1, <2>2 DEF Step
  <1> QED
    BY <1>1, <1>2

\* A queue of messages that were posted stays one when more are posted.
LEMMA StillPosted ==
    ASSUME NEW S, NEW T, S \subseteq T, NEW q \in Seq(S)
    PROVE  q \in Seq(T)
  OBVIOUS

\* rp_msg_process, from whichever thread.
LEMMA PostKeeps ==
    ASSUME IndInv, NEW m \in Msg, NEW p \in [Thread -> Step], Post(m, p),
           \A t \in Sleeping : p[t] = "sleep"
    PROVE  /\ pc' \in [Thread -> Step]
           /\ \A t \in Thread : \/ pc'[t] = p[t]
                                \/ p[t] = "sleep" /\ pc'[t] = "woken"
           /\ request_queue' \in Seq(posted' \union {Empty})
           /\ posted' = posted \union {m}
  <1>1. pc' \in Signalled(p) \/ pc' = p
    BY DEF Post
  <1>2. request_queue' \in Seq(posted' \union {Empty})
    <2>1. request_queue \in Seq(posted' \union {Empty})
      BY StillPosted DEF IndInv, OnlyPosted, Post
    <2> QED
      BY <2>1 DEF Post
  <1> QED
    BY <1>1, <1>2, SignalledKeeps DEF Post

\* What is left to show of a step that counts right: the other types, from
\* the queue of posted messages.
LEMMA PostedTyped ==
    ASSUME NEW p \in SUBSET Msg, NEW q \in Seq(p \union {Empty})
    PROVE  q \in Seq(Msg \union {Empty})
  <1>1. p \union {Empty} \subseteq Msg \union {Empty}
    OBVIOUS
  <1> QED
    BY <1>1, StillPosted

-----------------------------------------------------------------------------
(* One lemma per action.                                                   *)

LEMMA PostFromEventLoopKeeps ==
    ASSUME IndInv, NEW m \in Msg, PostFromEventLoop(m)
    PROVE  IndInv'
  <1>1. pc \in [Thread -> Step] /\ Post(m, pc)
    BY DEF IndInv, TypeOK, PostFromEventLoop
  <1>2. \A t \in Sleeping : pc[t] = "sleep"
    BY DEF Sleeping
  <1>3. /\ pc' \in [Thread -> Step]
        /\ \A t \in Thread : \/ pc'[t] = pc[t]
                             \/ pc[t] = "sleep" /\ pc'[t] = "woken"
        /\ request_queue' \in Seq(posted' \union {Empty})
        /\ posted' = posted \union {m}
    BY <1>1, <1>2, PostKeeps
  <1>4. Active' = Active
    BY <1>3 DEF Active, Counted
  <1>5. ActiveCounted' /\ active_threads' \in 0..RP_THREAD_COUNT
    BY <1>4, SameActive DEF IndInv, PostFromEventLoop
  <1>6. posted' \in SUBSET Msg
    BY <1>3 DEF IndInv, TypeOK
  <1>7. TypeOK'
    BY <1>3, <1>5, <1>6, PostedTyped DEF IndInv, TypeOK, PostFromEventLoop
  <1>8. OnlyPosted'
    BY <1>3 DEF IndInv, OnlyPosted, PostFromEventLoop
  <1> QED
    BY <1>5, <1>7, <1>8 DEF IndInv

LEMMA ThreadStartKeeps ==
    ASSUME IndInv, NEW t \in Thread, ThreadStart(t)
    PROVE  IndInv'
  <1>1. pc \in [Thread -> Step] /\ pc[t] = "start"
        /\ pc' = [pc EXCEPT ![t] = "dequeue"]
    BY DEF IndInv, TypeOK, ThreadStart, Goto
  <1>2. t \notin Active /\ Active' = Active \union {t}
    BY <1>1 DEF Active, Counted
  <1>3. ActiveCounted' /\ active_threads' \in 0..RP_THREAD_COUNT
    BY <1>2, OneMoreActive DEF IndInv, ThreadStart
  <1>4. TypeOK'
    BY <1>1, <1>3 DEF IndInv, TypeOK, ThreadStart, Step
  <1>5. OnlyPosted'
    BY <1>1 DEF IndInv, OnlyPosted, ThreadStart
  <1> QED
    BY <1>3, <1>4, <1>5 DEF IndInv

LEMMA DequeueKeeps ==
    ASSUME IndInv, NEW t \in Thread, Dequeue(t)
    PROVE  IndInv'
  <1> DEFINE m == Head(request_queue)
  <1>1. m \in posted \union {Empty}
        /\ request_queue' \in Seq(posted \union {Empty})
    BY DEF IndInv, OnlyPosted, Dequeue
  <1>2. req \in [Thread -> Msg \union {Empty}] /\ posted \subseteq Msg
    BY DEF IndInv, TypeOK
  <1>3. req' = [req EXCEPT ![t] = m] /\ req'[t] = m
    BY <1>2 DEF Dequeue
  <1>4. /\ pc \in [Thread -> Step] /\ pc[t] = "dequeue"
        /\ pc' = [pc EXCEPT ![t] = IF m = Empty THEN "emptied"
                                                ELSE "dispatch"]
    BY <1>3 DEF IndInv, TypeOK, Dequeue, Goto
  <1> HIDE DEF m
  <1>5. Active' = Active
    BY <1>4 DEF Active, Counted
  <1>6. ActiveCounted' /\ active_threads' \in 0..RP_THREAD_COUNT
    BY <1>5, SameActive DEF IndInv, Dequeue
  <1>7. TypeOK'
    <2>1. pc' \in [Thread -> Step]
      BY <1>4 DEF Step, Returned
    <2>2. req' \in [Thread -> Msg \union {Empty}]
      BY <1>1, <1>2, <1>3
    <2>3. request_queue' \in Seq(Msg \union {Empty})
      BY <1>1, <1>2, PostedTyped
    <2> QED
      BY <1>6, <2>1, <2>2, <2>3 DEF IndInv, TypeOK, Dequeue
  <1>8. OnlyPosted'
    <2>1. ASSUME NEW u \in Thread, pc'[u] = "dispatch"
          PROVE  req'[u] \in posted
      <3>1. CASE u = t
        BY <1>1, <1>3, <1>4, <2>1, <3>1
      <3>2. CASE u # t
        BY <1>2, <1>3, <1>4, <2>1, <3>2 DEF IndInv, OnlyPosted
      <3> QED
        BY <3>1, <3>2
    <2> QED
      BY <1>1, <2>1 DEF OnlyPosted, Dequeue
  <1> QED
    BY <1>6, <1>7, <1>8 DEF IndInv

LEMMA DispatchKeeps ==
    ASSUME IndInv, NEW t \in Thread, Dispatch(t)
    PROVE  IndInv'
  <1> DEFINE p == [pc EXCEPT ![t] = "dequeue"]
  <1>1. p \in [Thread -> Step] /\ pc \in [Thread -> Step] /\ pc[t] = "dispatch"
    BY DEF IndInv, TypeOK, Dispatch, Step
  <1>2. \A u \in Sleeping : p[u] = "sleep"
    BY <1>1 DEF Sleeping
  <1>3. /\ pc' \in [Thread -> Step]
        /\ \A u \in Thread : \/ pc'[u] = p[u]
                             \/ p[u] = "sleep" /\ pc'[u] = "woken"
        /\ request_queue' \in Seq(posted' \union {Empty})
        /\ posted \subseteq posted' /\ posted' \subseteq Msg
    <2>1. CASE pc' = p /\ UNCHANGED <<request_queue, posted>>
      BY <1>1, <2>1 DEF IndInv, TypeOK, OnlyPosted
    <2>2. CASE \E m \in Msg : Post(m, p)
      <3>1. PICK m \in Msg : Post(m, p)
        BY <2>2
      <3> HIDE DEF p
      <3> QED
        BY <1>1, <1>2, <3>1, PostKeeps DEF IndInv, TypeOK
    <2> QED
      BY <2>1, <2>2 DEF Dispatch
  <1>4. Active' = Active
    BY <1>1, <1>3 DEF Active, Counted
  <1>5. ActiveCounted' /\ active_threads' \in 0..RP_THREAD_COUNT
    BY <1>4, SameActive DEF IndInv, Dispatch
  <1>6. dispatched' \subseteq posted'
    BY <1>1, <1>3 DEF IndInv, TypeOK, OnlyPosted, Dispatch
  <1>7. request_queue' \in Seq(Msg \union {Empty})
    BY <1>3, PostedTyped
  <1>8. TypeOK'
    BY <1>3, <1>5, <1>6, <1>7 DEF IndInv, TypeOK, Dispatch
  <1>9. OnlyPosted'
    <2>1. \A u \in Thread : pc'[u] = "dispatch" => pc[u] = "dispatch"
      BY <1>1, <1>3
    <2> QED
      BY <1>3, <2>1 DEF IndInv, OnlyPosted, Dispatch
  <1> QED
    BY <1>5, <1>8, <1>9 DEF IndInv

\* The steps in which a thread changes its place and nothing but the count.
LEMMA ThreadRecheckKeeps ==
    ASSUME IndInv, NEW t \in Thread, ThreadRecheck(t)
    PROVE  IndInv'
  <1>1. pc \in [Thread -> Step] /\ pc[t] = "recheck"
    BY DEF IndInv, TypeOK, ThreadRecheck, Recheck
  <1>2. CASE /\ pc' = [pc EXCEPT ![t] = "dequeue"]
             /\ active_threads' = active_threads
    <2>1. Active' = Active
      BY <1>1, <1>2 DEF Active, Counted
    <2>2. ActiveCounted' /\ active_threads' \in 0..RP_THREAD_COUNT
      BY <1>2, <2>1, SameActive DEF IndInv
    <2>3. TypeOK'
      BY <1>1, <1>2, <2>2 DEF IndInv, TypeOK, ThreadRecheck, Step
    <2>4. OnlyPosted'
      BY <1>1, <1>2 DEF IndInv, OnlyPosted, ThreadRecheck
    <2> QED
      BY <2>2, <2>3, <2>4 DEF IndInv
  <1>3. CASE /\ pc' = [pc EXCEPT ![t] = "window"]
             /\ active_threads' = active_threads - 1
    <2>1. t \in Active /\ Active' = Active \ {t}
      BY <1>1, <1>3 DEF Active, Counted
    <2>2. ActiveCounted' /\ active_threads' \in 0..RP_THREAD_COUNT
      BY <1>3, <2>1, OneLessActive DEF IndInv
    <2>3. TypeOK'
      BY <1>1, <1>3, <2>2 DEF IndInv, TypeOK, ThreadRecheck, Step
    <2>4. OnlyPosted'
      BY <1>1, <1>3 DEF IndInv, OnlyPosted, ThreadRecheck
    <2> QED
      BY <2>2, <2>3, <2>4 DEF IndInv
  <1> QED
    BY <1>2, <1>3 DEF ThreadRecheck, Recheck, Goto

LEMMA ThreadWokenKeeps ==
    ASSUME IndInv, NEW t \in Thread, ThreadWoken(t)
    PROVE  IndInv'
  <1>1. pc \in [Thread -> Step] /\ pc[t] = "woken"
        /\ pc' = [pc EXCEPT ![t] = "dequeue"]
    BY DEF IndInv, TypeOK, ThreadWoken, CountIn, Goto
  <1>2. t \notin Active /\ Active' = Active \union {t}
    BY <1>1 DEF Active, Counted
  <1>3. ActiveCounted' /\ active_threads' \in 0..RP_THREAD_COUNT
    BY <1>2, OneMoreActive DEF IndInv, ThreadWoken, CountIn
  <1>4. TypeOK'
    BY <1>1, <1>3 DEF IndInv, TypeOK, ThreadWoken, Step
  <1>5. OnlyPosted'
    BY <1>1 DEF IndInv, OnlyPosted, ThreadWoken
  <1> QED
    BY <1>3, <1>4, <1>5 DEF IndInv

\* The steps in which a thread goes from one place to another, neither of them
\* one where it dispatches, and is counted at both or at neither.
LEMMA MoveKeeps ==
    ASSUME IndInv, NEW t \in Thread, NEW step \in Step,
           step # "dispatch",
           pc[t] \in Counted \union {"emptied"}
                <=> step \in Counted \union {"emptied"},
           pc' = [pc EXCEPT ![t] = step],
           UNCHANGED <<req, request_queue, active_threads, stop_requested,
                       posted, dispatched, cleanup>>
    PROVE  IndInv'
  <1>1. pc \in [Thread -> Step]
    BY DEF IndInv, TypeOK
  <1>2. Active' = Active
    BY <1>1 DEF Active
  <1>3. ActiveCounted' /\ active_threads' \in 0..RP_THREAD_COUNT
    BY <1>2, SameActive DEF IndInv
  <1>4. TypeOK'
    BY <1>1, <1>3 DEF IndInv, TypeOK
  <1>5. OnlyPosted'
    BY <1>1 DEF IndInv, OnlyPosted
  <1> QED
    BY <1>3, <1>4, <1>5 DEF IndInv

LEMMA OtherThreadStepsKeep ==
    ASSUME IndInv, NEW t \in Thread,
           DequeueNothing(t) \/ ThreadWait(t) \/ SpuriousWakeup(t)
    PROVE  IndInv'
  <1>1. CASE DequeueNothing(t)
    BY <1>1, MoveKeeps DEF DequeueNothing, Goto, Counted, Step
  <1>2. CASE ThreadWait(t)
    BY <1>2, MoveKeeps DEF ThreadWait, LeaveWindow, Goto, Counted, Step, Returned
  <1>3. CASE SpuriousWakeup(t)
    BY <1>3, MoveKeeps DEF SpuriousWakeup, Goto, Counted, Step
  <1> QED
    BY <1>1, <1>2, <1>3

LEMMA CleanupStartKeeps ==
    ASSUME IndInv, CleanupStart
    PROVE  IndInv'
  <1>1. pc' = [t \in Thread |-> IF pc[t] = "sleep" THEN "woken" ELSE pc[t]]
    BY DEF CleanupStart, Broadcast
  <1>2. Active' = Active
    BY <1>1 DEF Active, Counted
  <1>3. ActiveCounted' /\ active_threads' \in 0..RP_THREAD_COUNT
    BY <1>2, SameActive DEF IndInv, CleanupStart
  <1>4. request_queue' \in Seq(posted \union {Empty})
    <2>1. RP_THREAD_COUNT \in Nat
      BY PoolAssumption, FS_CardinalityType DEF RP_THREAD_COUNT
    <2>2. Empties \in Seq(posted \union {Empty})
      BY <2>1 DEF Empties
    <2> QED
      BY <2>2, ConcatProperties DEF IndInv, OnlyPosted, CleanupStart
  <1>5. TypeOK'
    <2>1. request_queue' \in Seq(Msg \union {Empty})
      BY <1>4, PostedTyped DEF IndInv, TypeOK
    <2>2. pc' \in [Thread -> Step]
      BY <1>1 DEF IndInv, TypeOK, Step
    <2> QED
      BY <1>3, <2>1, <2>2 DEF IndInv, TypeOK, CleanupStart
  <1>6. OnlyPosted'
    BY <1>1, <1>4 DEF IndInv, OnlyPosted, CleanupStart
  <1> QED
    BY <1>3, <1>5, <1>6 DEF IndInv

LEMMA CleanupJoinedKeeps ==
    ASSUME IndInv, CleanupJoined
    PROVE  IndInv'
  <1>1. ActiveCounted' /\ active_threads' \in 0..RP_THREAD_COUNT
    BY SameActive DEF IndInv, CleanupJoined, Active
  <1>2. TypeOK'
    BY <1>1 DEF IndInv, TypeOK, CleanupJoined
  <1>3. OnlyPosted'
    BY DEF IndInv, OnlyPosted, CleanupJoined
  <1> QED
    BY <1>1, <1>2, <1>3 DEF IndInv

\* Every step of the pool keeps the inductive invariant.
LEMMA StepKeeps ==
    ASSUME IndInv, [Next]_vars
    PROVE  IndInv'
  <1>1. CASE \E m \in Msg : PostFromEventLoop(m)
    BY <1>1, PostFromEventLoopKeeps
  <1>2. CASE \E t \in Thread : ThreadStep(t) \/ SpuriousWakeup(t)
    BY <1>2, ThreadStartKeeps, DequeueKeeps, DispatchKeeps,
       ThreadRecheckKeeps, ThreadWokenKeeps, OtherThreadStepsKeep
       DEF ThreadStep
  <1>3. CASE CleanupStart
    BY <1>3, CleanupStartKeeps
  <1>4. CASE CleanupJoined
    BY <1>4, CleanupJoinedKeeps
  <1>5. CASE UNCHANGED vars
    BY <1>5 DEF vars, IndInv, TypeOK, OnlyPosted, ActiveCounted
  <1> QED
    BY <1>1, <1>2, <1>3, <1>4, <1>5 DEF Next

\* rp_init leaves the pool in order.
LEMMA InitKeeps ==
    ASSUME Init
    PROVE  IndInv
  <1>1. Active = {}
    BY DEF Init, Active, Counted
  <1>2. ActiveCounted
    BY <1>1, FS_EmptySet DEF Init, ActiveCounted, Active
  <1>3. TypeOK
    <2>1. RP_THREAD_COUNT \in Nat
      BY PoolAssumption, FS_CardinalityType DEF RP_THREAD_COUNT
    <2>2. active_threads \in 0..RP_THREAD_COUNT
      BY <2>1 DEF Init
    <2>3. stop_requested \in BOOLEAN
      BY DEF Init
    <2>4. request_queue \in Seq(Msg \union {Empty})
      BY DEF Init
    <2> QED
      BY <2>2, <2>3, <2>4 DEF Init, TypeOK, Step
  <1>4. OnlyPosted
    BY DEF Init, OnlyPosted
  <1> QED
    BY <1>2, <1>3, <1>4 DEF IndInv

\* The pool keeps its types; active_threads stays between 0 and the number of
\* threads, and a thread dispatches only what was posted.
THEOREM PoolTypes == Spec => []TypeOK
  <1>1. IndInv => TypeOK
    BY DEF IndInv
  <1> QED
    BY <1>1, InitKeeps, StepKeeps, PTL DEF Spec

\* The counter that rp_msg_process takes its decision from is exact.
THEOREM ActiveIsCounted == Spec => []ActiveCounted
  <1>1. IndInv => ActiveCounted
    BY DEF IndInv
  <1> QED
    BY <1>1, InitKeeps, StepKeeps, PTL DEF Spec
=============================================================================
