-------------------------- MODULE ThreadPoolProofs --------------------------
(* Theorems about ThreadPool, for any number of workers, tasks and sizes. *)
EXTENDS ThreadPoolProperties, QueueProofs, SequenceTheorems

\* What one notify_one() does to the two sides of a wait set: the waiters stay
\* the same threads, each still on one side.
LEMMA NotifyMoves ==
    ASSUME NEW blocked, NEW woken, blocked \cap woken = {},
           NEW W \in NotifyOne(blocked)
    PROVE  /\ W \subseteq blocked
           /\ (blocked \ W) \cup (woken \cup W) = blocked \cup woken
           /\ (blocked \ W) \cap (woken \cup W) = {}
           /\ blocked # {} => woken \cup W # {}
  BY DEF NotifyOne

\* The initial state has the types and the wait sets.
LEMMA InitTypes == Init => TypeOK /\ WaitSetsOK
<1> SUFFICES ASSUME Init PROVE TypeOK /\ WaitSetsOK
    OBVIOUS
<1> USE PoolAssumption DEF Init, SemInit, QueueInit
<1>1. m_threads \in Seq(Workers \cup {NoThread})
  <2>1. Cardinality(Initial) \in Nat
    BY FS_Subset, FS_CardinalityType
  <2> QED BY <2>1
<1>2. pc \in [Workers -> Locations] /\ held \in [Workers -> Tasks \cup {NoTask}]
  BY DEF Locations
<1>3. m_threadRealSize \in Int
  OBVIOUS
<1>4. m_stopFlag \in BOOLEAN /\ m_pauseFlag \in BOOLEAN /\ dtor \in BOOLEAN
  BY Zenon
<1>5. m_count \in Int /\ idx \in Nat
  OBVIOUS
<1>6. TypeOK
  BY <1>1, <1>2, <1>3, <1>4, <1>5, Zenon DEF TypeOK
<1>7. WaitSetsOK
  BY DEF WaitSetsOK
<1> QED BY <1>6, <1>7

\* Every step keeps the types.
LEMMA StepTypes == TypeOK /\ WaitSetsOK /\ [Next]_vars => TypeOK'
<1> SUFFICES ASSUME TypeOK, WaitSetsOK, [Next]_vars PROVE TypeOK'
    OBVIOUS
<1> USE PoolAssumption DEF TypeOK, Locations, Return, SemPost, SemSet, SemNotify,
        flagVars, mainVars, semVars, queueVars, workerVars
<1>1. ASSUME NEW w \in Workers, ThreadRoutine(w) PROVE TypeOK'
  <2>1. CASE CheckStop(w)
    BY <2>1 DEF CheckStop
  <2>2. CASE WaitReturns(w)
    BY <2>2 DEF WaitReturns, SemAcquire
  <2>3. CASE WaitSleeps(w)
    BY <2>3 DEF WaitSleeps, SemBlock
  <2>4. CASE Peek(w)
    BY <2>4 DEF Peek
  <2>5. CASE PopReturns(w)
    BY <2>5 DEF PopReturns, PopTake
  <2>6. CASE PopSleeps(w)
    BY <2>6 DEF PopSleeps, PopBlock
  <2>7. CASE FinishTask(w)
    BY <2>7 DEF FinishTask, WaitSetsOK, At
  <2>8. CASE PostToken(w)
    BY <2>8 DEF PostToken
  <2> QED BY <1>1, <2>1, <2>2, <2>3, <2>4, <2>5, <2>6, <2>7, <2>8 DEF ThreadRoutine
<1>2. ASSUME NEW w \in Workers, SpuriousWake(w) PROVE TypeOK'
  BY <1>2 DEF SpuriousWake, SemSpurious, PopSpurious
<1>3. ASSUME Client PROVE TypeOK'
  <2>1. ASSUME NEW t \in Tasks, AddTask(t) PROVE TypeOK'
    BY <2>1 DEF AddTask, Push
  <2>2. CASE Run
    BY <2>2 DEF Run
  <2>3. CASE Pause
    BY <2>3 DEF Pause
  <2>4. ASSUME NEW num \in Sizes, SetNumOfThreads(num) PROVE TypeOK'
    BY <2>4 DEF SetNumOfThreads
  <2>5. ASSUME NEW num \in Sizes, GrowBegin(num) PROVE TypeOK'
    BY <2>5 DEF GrowBegin
  <2>6. ASSUME NEW num \in Sizes, GrowNoMemory(num) PROVE TypeOK'
    BY <2>6 DEF GrowNoMemory
  <2>7. ASSUME NEW w \in Workers, GrowPush(w) PROVE TypeOK'
    BY <2>7 DEF GrowPush
  <2>8. CASE GrowNoThread
    BY <2>8 DEF GrowNoThread
  <2>9. CASE GrowRollback
    <3>1. SubSeq(m_threads, 1, idx) \in Seq(Workers \cup {NoThread})
      BY <2>9, SubSeqProperties DEF GrowRollback
    <3> QED BY <2>9, <3>1 DEF GrowRollback
  <2>10. ASSUME NEW isDtor \in BOOLEAN, StopBegin(isDtor) PROVE TypeOK'
    BY <2>10 DEF StopBegin
  <2>11. CASE StopTimeout
    BY <2>11 DEF StopTimeout
  <2>12. CASE StopLooks
    BY <2>12 DEF StopLooks
  <2>13. CASE JoinReturns
    <3>1. m_threads' \in Seq(Workers \cup {NoThread}) /\ Len(m_threads') = Len(m_threads)
      BY <2>13, ExceptSeq DEF JoinReturns
    <3> QED BY <2>13, <3>1 DEF JoinReturns
  <2>14. CASE StopEnds
    BY <2>14 DEF StopEnds
  <2> QED BY <1>3, <2>1, <2>2, <2>3, <2>4, <2>5, <2>6, <2>7, <2>8, <2>9, <2>10,
             <2>11, <2>12, <2>13, <2>14 DEF Client, CallStep
<1>4. CASE UNCHANGED vars
  BY <1>4 DEF vars
<1> QED BY <1>1, <1>2, <1>3, <1>4 DEF Next

\* Every step keeps the wait sets and the program points in agreement.
LEMMA StepWaitSets == TypeOK /\ WaitSetsOK /\ [Next]_vars => WaitSetsOK'
<1> SUFFICES ASSUME TypeOK, WaitSetsOK, [Next]_vars PROVE WaitSetsOK'
    OBVIOUS
<1> USE PoolAssumption DEF WaitSetsOK, At, NotifyOne, SemNotify, SemPost, SemSet,
        flagVars, semVars, queueVars, workerVars
<1>0. pc \in [Workers -> Locations] /\ held \in [Workers -> Tasks \cup {NoTask}]
  BY DEF TypeOK
<1>1. ASSUME NEW w \in Workers, ThreadRoutine(w) PROVE WaitSetsOK'
  <2>1. CASE CheckStop(w)
    BY <1>0, <2>1 DEF CheckStop
  <2>2. CASE WaitReturns(w)
    BY <1>0, <2>2 DEF WaitReturns, SemAcquire
  <2>3. CASE WaitSleeps(w)
    BY <1>0, <2>3 DEF WaitSleeps, SemBlock
  <2>4. CASE Peek(w)
    BY <1>0, <2>4 DEF Peek
  <2>5. CASE PopReturns(w)
    BY <1>0, <2>5 DEF PopReturns, PopTake
  <2>6. CASE PopSleeps(w)
    BY <1>0, <2>6 DEF PopSleeps, PopBlock
  <2>7. CASE FinishTask(w)
    BY <1>0, <2>7 DEF FinishTask
  <2>8. CASE PostToken(w)
    BY <1>0, <2>8 DEF PostToken
  <2> QED BY <1>1, <2>1, <2>2, <2>3, <2>4, <2>5, <2>6, <2>7, <2>8 DEF ThreadRoutine
<1>2. ASSUME NEW w \in Workers, SpuriousWake(w) PROVE WaitSetsOK'
  BY <1>0, <1>2 DEF SpuriousWake, SemSpurious, PopSpurious
<1>3. ASSUME Client PROVE WaitSetsOK'
  <2>1. ASSUME NEW t \in Tasks, AddTask(t) PROVE WaitSetsOK'
    BY <2>1 DEF AddTask, Push
  <2>2. CASE Run \/ Pause \/ GrowRollback \/ \E isDtor \in BOOLEAN : StopBegin(isDtor)
    BY <2>2 DEF Run, Pause, GrowRollback, StopBegin
  <2>3. ASSUME NEW num \in Sizes, SetNumOfThreads(num) \/ GrowBegin(num) \/ GrowNoMemory(num)
        PROVE WaitSetsOK'
    BY <2>3 DEF SetNumOfThreads, GrowBegin, GrowNoMemory
  <2>4. ASSUME NEW w \in Workers, GrowPush(w) PROVE WaitSetsOK'
    BY <1>0, <2>4 DEF GrowPush
  <2>5. CASE GrowNoThread \/ StopTimeout \/ StopLooks \/ JoinReturns \/ StopEnds
    BY <2>5 DEF GrowNoThread, StopTimeout, StopLooks, JoinReturns, StopEnds
  <2> QED BY <1>3, <2>1, <2>2, <2>3, <2>4, <2>5 DEF Client, CallStep
<1>4. CASE UNCHANGED vars
  BY <1>4 DEF vars
<1> QED BY <1>1, <1>2, <1>3, <1>4 DEF Next

\* The types hold in every reachable state, and the wait sets are the workers
\* inside the two waits.
THEOREM TypesHold == Spec => [](TypeOK /\ WaitSetsOK)
<1>1. Init => TypeOK /\ WaitSetsOK
  BY InitTypes
<1>2. TypeOK /\ WaitSetsOK /\ [Next]_vars => (TypeOK /\ WaitSetsOK)'
  BY StepTypes, StepWaitSets
<1> QED BY <1>1, <1>2, PTL DEF Spec

-----------------------------------------------------------------------------

\* A notification of the semaphore makes NoStall true, whatever the count.
LEMMA NotifyRefutesStall == SemNotify => NoStall'
<1> SUFFICES ASSUME SemNotify, sem_blocked' # {} PROVE sem_woken' # {}
    BY DEF NoStall
<1> QED BY DEF SemNotify, NotifyOne

\* Every step of a worker keeps NoStall.
LEMMA WorkerKeepsNoStall ==
    ASSUME TypeOK, WaitSetsOK, NoStall, NEW w \in Workers, ThreadRoutine(w)
    PROVE  NoStall'
<1> USE DEF At, NoStall, WillPost, WaitSetsOK, semVars, queueVars
<1>0. pc \in [Workers -> Locations] /\ m_count \in Int
  BY DEF TypeOK
<1>1. CASE CheckStop(w)
  BY <1>0, <1>1 DEF CheckStop
<1>2. CASE WaitReturns(w)
  BY <1>0, <1>2 DEF WaitReturns, SemAcquire
<1>3. CASE WaitSleeps(w)
  BY <1>0, <1>3 DEF WaitSleeps, SemBlock
<1>4. CASE Peek(w)
  BY <1>0, <1>4 DEF Peek, IsEmpty
<1>5. CASE PopReturns(w)
  BY <1>0, <1>5 DEF PopReturns, PopTake
<1>6. CASE PopSleeps(w)
  BY <1>0, <1>6 DEF PopSleeps, PopBlock, IsEmpty
<1>7. CASE FinishTask(w)
  BY <1>0, <1>7 DEF FinishTask
<1>8. CASE PostToken(w)
  BY <1>8, NotifyRefutesStall DEF PostToken, SemPost
<1> QED BY <1>1, <1>2, <1>3, <1>4, <1>5, <1>6, <1>7, <1>8 DEF ThreadRoutine

\* Every step of the client keeps NoStall: each change of the count notifies.
LEMMA ClientKeepsNoStall ==
    ASSUME TypeOK, WaitSetsOK, NoStall, Client
    PROVE  NoStall'
<1> USE DEF NoStall, WillPost, WaitSetsOK, semVars, queueVars, workerVars
<1>0. pc \in [Workers -> Locations]
  BY DEF TypeOK
<1>1. ASSUME NEW t \in Tasks, AddTask(t) PROVE NoStall'
  BY <1>1 DEF AddTask, Push
<1>2. ASSUME NEW num \in Sizes, SetNumOfThreads(num) \/ GrowBegin(num) \/ GrowNoMemory(num)
      PROVE NoStall'
  BY <1>2, NotifyRefutesStall DEF SetNumOfThreads, GrowBegin, GrowNoMemory, SemSet
<1>3. CASE Run \/ Pause \/ \E isDtor \in BOOLEAN : StopBegin(isDtor)
  BY <1>3, NotifyRefutesStall DEF Run, Pause, StopBegin, SemSet
<1>4. CASE GrowRollback
  BY <1>4, NotifyRefutesStall DEF GrowRollback, SemSet
<1>5. ASSUME NEW w \in Workers, GrowPush(w) PROVE NoStall'
  BY <1>0, <1>5 DEF GrowPush
<1>6. CASE GrowNoThread \/ StopTimeout \/ StopLooks \/ JoinReturns \/ StopEnds
  BY <1>6 DEF GrowNoThread, StopTimeout, StopLooks, JoinReturns, StopEnds
<1> QED BY <1>1, <1>2, <1>3, <1>4, <1>5, <1>6 DEF Client, CallStep

\* No reachable state has a positive count, a worker asleep on it and nobody
\* who is about to test the count or to post it.
THEOREM NeverStalled == Spec => []NoStall
<1>1. Init => NoStall
  BY DEF Init, SemInit, NoStall
<1>2. TypeOK /\ WaitSetsOK /\ NoStall /\ [Next]_vars => NoStall'
  <2> SUFFICES ASSUME TypeOK, WaitSetsOK, NoStall, [Next]_vars PROVE NoStall'
      OBVIOUS
  <2>1. ASSUME NEW w \in Workers, SpuriousWake(w) PROVE NoStall'
    BY <2>1 DEF SpuriousWake, SemSpurious, PopSpurious, NoStall, WillPost,
                semVars, queueVars, workerVars
  <2>2. CASE UNCHANGED vars
    BY <2>2 DEF vars, semVars, queueVars, workerVars, NoStall, WillPost
  <2> QED BY <2>1, <2>2, WorkerKeepsNoStall, ClientKeepsNoStall DEF Next
<1> QED BY <1>1, <1>2, TypesHold, PTL DEF Spec

-----------------------------------------------------------------------------

\* In every reachable state where a worker sleeps in Pop(), each queued task
\* has a woken worker of its own on the way to take it.
THEOREM NoTaskWakeupLost == Spec => []NoLostTaskWakeup
<1> USE DEF NoLostTaskWakeup
<1>1. Init => Countable /\ NoLostTaskWakeup
  BY FS_EmptySet DEF Init, QueueInit, Countable, Announced
<1>2. WaitSetsOK /\ Countable /\ NoLostTaskWakeup /\ [Next]_vars
        => (Countable /\ NoLostTaskWakeup)'
  <2> SUFFICES ASSUME WaitSetsOK, Countable, NoLostTaskWakeup, [Next]_vars
               PROVE  Countable' /\ NoLostTaskWakeup'
      OBVIOUS
  <2>0. pop_blocked \cap pop_woken = {}
    BY DEF WaitSetsOK
  <2>1. CASE UNCHANGED queueVars
    BY <2>1 DEF queueVars, Countable, Announced
  <2>2. ASSUME NEW w \in Workers, ThreadRoutine(w)
        PROVE  UNCHANGED queueVars \/ PopBlock(w) \/ \E t \in Tasks : PopTake(w, t)
    BY <2>2 DEF ThreadRoutine, CheckStop, WaitReturns, WaitSleeps, Peek, FinishTask,
        PostToken, PopReturns, PopSleeps
  <2>3. ASSUME Client PROVE UNCHANGED queueVars \/ \E t \in Tasks : Push(t)
    BY <2>3 DEF Client, CallStep, AddTask, Run, Pause, SetNumOfThreads, GrowBegin,
        GrowNoMemory, GrowPush, GrowNoThread, GrowRollback, StopBegin, StopTimeout,
        StopLooks, JoinReturns, StopEnds
  <2>4. ASSUME NEW w, NEW t, PopTake(w, t) PROVE Countable' /\ NoLostTaskWakeup'
    BY <2>4, TakeKeepsAnnounced DEF Announced
  <2>5. ASSUME NEW w, PopBlock(w) \/ PopSpurious(w) PROVE Countable' /\ NoLostTaskWakeup'
    BY <2>0, <2>5, BlockKeepsAnnounced, SpuriousKeepsAnnounced DEF Announced
  <2>6. ASSUME NEW t, Push(t) PROVE Countable' /\ NoLostTaskWakeup'
    BY <2>0, <2>6, PushKeepsAnnounced DEF Announced
  <2>7. UNCHANGED vars => UNCHANGED queueVars
    BY DEF vars
  <2>8. ASSUME NEW w \in Workers, SpuriousWake(w) PROVE UNCHANGED queueVars \/ PopSpurious(w)
    BY <2>8 DEF SpuriousWake
  <2> QED BY <2>1, <2>2, <2>3, <2>4, <2>5, <2>6, <2>7, <2>8 DEF Next
<1> QED BY <1>1, <1>2, TypesHold, PTL DEF Spec

-----------------------------------------------------------------------------
(* The pool implements TaskPool, and what a finished Stop() leaves behind. *)

\* Of the steps in which the abstract pool moves: AddTask() submits.
LEMMA AddTaskSubmits ==
    ASSUME WaitSetsOK, NEW t \in Tasks, AddTask(t) PROVE Promise!Submit(t)
  BY DEF AddTask, Push, Promise!Submit, Promise!Running, workerVars

\* A Pop() that returns starts a task of least rank.
LEMMA PopStarts ==
    ASSUME TypeOK, WaitSetsOK, NEW w \in Workers, PopReturns(w)
    PROVE  \E t \in Tasks : Promise!Start(w, t)
<1>1. PICK t \in Tasks : PopTake(w, t) /\ held' = [held EXCEPT ![w] = t]
  BY DEF PopReturns
<1>2. pc[w] # "do" /\ held[w] = NoTask
  BY DEF PopReturns, At, WaitSetsOK
<1> QED BY <1>1, <1>2 DEF PopTake, Front, PopReturns, Promise!Start

\* The end of Do() finishes it.
LEMMA FinishFinishes ==
    ASSUME WaitSetsOK, NEW w \in Workers, FinishTask(w) PROVE Promise!Finish(w)
  BY DEF FinishTask, At, WaitSetsOK, queueVars, Promise!Finish

\* Each step of the pool submits, starts or finishes one task, or leaves all
\* three collections as they are.
LEMMA StepSimulates ==
    TypeOK /\ WaitSetsOK /\ [Next]_vars => [Promise!Next]_(Promise!poolVars)
<1> SUFFICES ASSUME TypeOK, WaitSetsOK, [Next]_vars
             PROVE  Promise!Next \/ UNCHANGED <<m_queue, held, finished>>
    BY DEF Promise!poolVars
<1>1. ASSUME NEW w \in Workers, ThreadRoutine(w)
      PROVE  PopReturns(w) \/ FinishTask(w) \/ UNCHANGED <<m_queue, held, finished>>
  BY <1>1 DEF ThreadRoutine, CheckStop, WaitReturns, WaitSleeps, Peek, PopSleeps,
      PopBlock, PostToken, queueVars
<1>2. ASSUME NEW w \in Workers, SpuriousWake(w)
      PROVE  UNCHANGED <<m_queue, held, finished>>
  BY <1>2 DEF SpuriousWake, PopSpurious, queueVars, workerVars
<1>3. ASSUME Client
      PROVE  (\E t \in Tasks : AddTask(t)) \/ UNCHANGED <<m_queue, held, finished>>
  BY <1>3 DEF Client, CallStep, Run, Pause, SetNumOfThreads, GrowBegin, GrowNoMemory,
      GrowPush, GrowNoThread, GrowRollback, StopBegin, StopTimeout, StopLooks,
      JoinReturns, StopEnds, queueVars, workerVars
<1>4. UNCHANGED vars => UNCHANGED <<m_queue, held, finished>>
  BY DEF vars, queueVars, workerVars
<1>5. ASSUME NEW w \in Workers, PopReturns(w) \/ FinishTask(w) PROVE Promise!Next
  BY <1>5, PopStarts, FinishFinishes DEF Promise!Next
<1>6. ASSUME NEW t \in Tasks, AddTask(t) PROVE Promise!Next
  BY <1>6, AddTaskSubmits DEF Promise!Next
<1> QED BY <1>1, <1>2, <1>3, <1>4, <1>5, <1>6 DEF Next

\* The pool implements the abstract one: no task is lost, run twice or run
\* while a task of lower rank waits in the queue.
THEOREM Implementation == Spec => ImplementsTaskPool
<1>1. Init => Promise!Init
  BY DEF Init, QueueInit, Promise!Init
<1> QED BY <1>1, StepSimulates, TypesHold, PTL DEF Spec, ImplementsTaskPool, Promise!Spec

\* What the abstract pool promises about a task holds of the pool: it is in one
\* place at a time, and is never run again.
THEOREM TasksInOnePlace == Spec => []TaskInOnePlace
<1> USE DEF TaskInOnePlace, Promise!OnePlace, Promise!Running
<1>1. Init => TaskInOnePlace
  BY DEF Init, QueueInit
<1>2. TaskInOnePlace /\ TypeOK /\ [Promise!Next]_(Promise!poolVars) => TaskInOnePlace'
  <2> SUFFICES ASSUME TaskInOnePlace, TypeOK, [Promise!Next]_(Promise!poolVars)
               PROVE  TaskInOnePlace'
      OBVIOUS
  <2>0. held \in [Workers -> Tasks \cup {NoTask}] /\ NoTask \notin Tasks
    BY PoolAssumption DEF TypeOK
  <2>1. ASSUME NEW t \in Tasks, Promise!Submit(t) PROVE TaskInOnePlace'
    BY <2>0, <2>1 DEF Promise!Submit
  <2>2. ASSUME NEW w \in Workers, NEW t \in Tasks, Promise!Start(w, t) PROVE TaskInOnePlace'
    BY <2>0, <2>2 DEF Promise!Start
  <2>3. ASSUME NEW w \in Workers, Promise!Finish(w) PROVE TaskInOnePlace'
    BY <2>0, <2>3 DEF Promise!Finish
  <2>4. CASE UNCHANGED Promise!poolVars
    BY <2>4 DEF Promise!poolVars
  <2> QED BY <2>1, <2>2, <2>3, <2>4 DEF Promise!Next
<1> QED BY <1>1, <1>2, StepSimulates, TypesHold, PTL DEF Spec

-----------------------------------------------------------------------------

\* Run() may set the count to garbage; a paused pool's is not negative.
Counted == m_pauseFlag => m_count >= 0

\* Every step keeps the count of a paused pool a number of units.
LEMMA StepCounted == TypeOK /\ Counted /\ [Next]_vars => Counted'
<1> SUFFICES ASSUME TypeOK, Counted, [Next]_vars PROVE Counted'
    OBVIOUS
<1> USE DEF Counted, TypeOK, semVars, flagVars
<1>1. ASSUME NEW w \in Workers, ThreadRoutine(w) PROVE Counted'
  <2>1. CASE WaitReturns(w)
    BY <2>1 DEF WaitReturns, SemAcquire
  <2>2. CASE PostToken(w)
    BY <2>2 DEF PostToken, SemPost
  <2>3. CASE CheckStop(w) \/ WaitSleeps(w) \/ Peek(w) \/ PopReturns(w) \/ PopSleeps(w) \/ FinishTask(w)
    BY <2>3 DEF CheckStop, WaitSleeps, SemBlock, Peek, PopReturns, PopSleeps, FinishTask
  <2> QED BY <1>1, <2>1, <2>2, <2>3 DEF ThreadRoutine
<1>2. ASSUME NEW w \in Workers, SpuriousWake(w) PROVE Counted'
  BY <1>2 DEF SpuriousWake, SemSpurious
<1>3. CASE Client
  <2>1. CASE GrowRollback
    BY <2>1 DEF GrowRollback, SemSet, mainVars
  <2>2. ASSUME NEW num \in Sizes, SetNumOfThreads(num) \/ GrowBegin(num) \/ GrowNoMemory(num)
        PROVE Counted'
    <3>1. CASE GrowNoMemory(num)
      <4>1. m_count' = Len(m_threads) /\ Len(m_threads) \in Nat
        BY <3>1 DEF GrowNoMemory, SemSet
      <4> QED BY <4>1
    <3>2. CASE SetNumOfThreads(num) \/ GrowBegin(num)
      <4>1. m_pauseFlag' = m_pauseFlag /\ (m_pauseFlag => m_count' = m_count)
        BY <3>2 DEF SetNumOfThreads, GrowBegin
      <4> QED BY <4>1
    <3> QED BY <2>2, <3>1, <3>2
  <2>3. ASSUME NEW isDtor \in BOOLEAN, StopBegin(isDtor) PROVE Counted'
    BY <2>3 DEF StopBegin, SemSet
  <2>4. CASE Run \/ Pause
    BY <2>4 DEF Run, Pause, SemSet
  <2>5. CASE StopTimeout \/ CallStep \/ \E t \in Tasks : AddTask(t)
    BY <2>5 DEF StopTimeout, CallStep, GrowPush, GrowNoThread, StopLooks, JoinReturns, StopEnds,
        AddTask
  <2> QED BY <1>3, <2>1, <2>2, <2>3, <2>4, <2>5 DEF Client
<1>4. CASE UNCHANGED vars
  BY <1>4 DEF vars
<1> QED BY <1>1, <1>2, <1>3, <1>4 DEF Next

\* A worker takes its unit from the count in Wait() and gives it back in Post();
\* between the two it keeps it.
LEMMA WorkerKeepsUnits ==
    ASSUME TypeOK, WaitSetsOK, NEW w \in Workers, ThreadRoutine(w)
    PROVE  Tokens' = Tokens
<1> USE DEF Holders, TypeOK
<1>0. pc \in [Workers -> Locations] /\ IsFiniteSet(Holders) /\ Cardinality(Holders) \in Nat
  BY PoolAssumption, FS_Subset, FS_CardinalityType
<1>1. CASE WaitReturns(w)
  <2>1. w \notin Holders /\ Holders' = Holders \cup {w} /\ m_count' = m_count - 1
    BY <1>0, <1>1 DEF WaitReturns, SemAcquire, At
  <2>2. Cardinality(Holders') = Cardinality(Holders) + 1
    <3> HIDE DEF Holders, TypeOK
    <3> QED BY <1>0, <2>1, CountChange
  <2> QED BY <1>0, <2>1, <2>2 DEF Tokens
<1>2. CASE PostToken(w)
  <2>1. w \in Holders /\ Holders' = Holders \ {w} /\ m_count' = m_count + 1
    BY <1>0, <1>2 DEF PostToken, SemPost, At
  <2>2. Cardinality(Holders') = Cardinality(Holders) - 1
    <3> HIDE DEF Holders, TypeOK
    <3> QED BY <1>0, <2>1, CountChange
  <2> QED BY <1>0, <2>1, <2>2 DEF Tokens
<1>3. CASE CheckStop(w) \/ WaitSleeps(w) \/ Peek(w) \/ PopReturns(w) \/ PopSleeps(w) \/ FinishTask(w)
  <2>1. m_count' = m_count
    BY <1>3 DEF CheckStop, WaitSleeps, SemBlock, Peek, PopReturns, PopSleeps, FinishTask, semVars
  <2>2. Holders' = Holders
    BY <1>0, <1>3 DEF CheckStop, WaitSleeps, Peek, PopReturns, PopSleeps, FinishTask, At
  <2> QED BY <2>1, <2>2 DEF Tokens
<1> QED BY <1>1, <1>2, <1>3 DEF ThreadRoutine

\* A paused pool has the units that were out when Pause() was called, and gains
\* none until Run() or Stop() is called or an allocation fails.
THEOREM PausedPoolAddsNoUnit == Spec => PausedAddsNoUnit
<1>1. Init => Counted
  BY DEF Init, SemInit, Counted
<1>2. TypeOK /\ WaitSetsOK /\ Counted /\ [Next]_vars =>
        [m_pauseFlag' /\ ~m_stopFlag' /\ result' # "ThreadPoolBadAlloc"
           => Tokens' <= IF m_pauseFlag THEN Tokens ELSE Cardinality(Holders)]_vars
  <2> SUFFICES ASSUME TypeOK, WaitSetsOK, Counted, Next, m_pauseFlag', ~m_stopFlag',
                      result' # "ThreadPoolBadAlloc"
               PROVE  Tokens' <= IF m_pauseFlag THEN Tokens ELSE Cardinality(Holders)
      OBVIOUS
  <2>0. Cardinality(Holders) \in Nat /\ Tokens \in Int /\ m_count \in Int
    BY PoolAssumption, FS_Subset, FS_CardinalityType DEF Holders, Tokens, TypeOK
  <2>1. ASSUME NEW w \in Workers, ThreadRoutine(w) PROVE m_pauseFlag /\ Tokens' = Tokens
    <3>1. UNCHANGED m_pauseFlag
      BY <2>1 DEF ThreadRoutine, CheckStop, WaitReturns, WaitSleeps, Peek, PopReturns, PopSleeps,
          FinishTask, PostToken, flagVars
    <3> QED BY <2>1, <3>1, WorkerKeepsUnits
  <2>2. ASSUME NEW w \in Workers, SpuriousWake(w) PROVE m_pauseFlag /\ Tokens' = Tokens
    BY <2>2 DEF SpuriousWake, SemSpurious, semVars, workerVars, flagVars, Tokens, Holders
  <2>3. CASE Pause
    <3>1. m_count' = 0 /\ Holders' = Holders
      BY <2>3 DEF Pause, SemSet, workerVars, Holders
    <3> QED BY <2>0, <3>1 DEF Tokens, Counted
  <2>4. CASE Client /\ ~Pause
    <3>1. UNCHANGED <<m_count, m_pauseFlag>>
      BY <2>4 DEF Client, CallStep, AddTask, Run, SetNumOfThreads, GrowBegin, GrowNoMemory,
          GrowPush, GrowNoThread, GrowRollback, StopBegin, StopTimeout, StopLooks, JoinReturns,
          StopEnds, Return, semVars, flagVars
    <3>2. Holders' = Holders
      BY <2>4 DEF Client, CallStep, AddTask, Run, SetNumOfThreads, GrowBegin, GrowNoMemory,
          GrowPush, GrowNoThread, GrowRollback, StopBegin, StopTimeout, StopLooks, JoinReturns,
          StopEnds, workerVars, Holders, TypeOK
    <3> QED BY <2>0, <3>1, <3>2 DEF Tokens
  <2> QED BY <2>0, <2>1, <2>2, <2>3, <2>4 DEF Next
<1> QED BY <1>1, <1>2, StepCounted, TypesHold, PTL DEF Spec, PausedAddsNoUnit

-----------------------------------------------------------------------------

\* What QuietAfterStop is proved with: a live thread is in a slot of the vector,
\* and the slots Stop() has passed are empty.
SlotsSound ==
    /\ \A w \in Workers : pc[w] \notin {"none", "exit"} => w \in Slots
    /\ main \in {"stop", "join"} =>
          \A i \in DOMAIN m_threads : i < idx => m_threads[i] = NoThread
    /\ main = "grow" => result = "ok"

StopInv == SlotsSound /\ QuietAfterStop

\* A worker's step starts no thread and touches no slot.
LEMMA WorkerKeepsStopInv ==
    ASSUME TypeOK, WaitSetsOK, StopInv, NEW w \in Workers, ThreadRoutine(w)
    PROVE  StopInv'
<1>1. pc \in [Workers -> Locations] /\ pc[w] \notin {"none", "exit"}
  BY DEF TypeOK, WaitSetsOK, At, ThreadRoutine, CheckStop, WaitReturns, WaitSleeps, Peek,
      PopReturns, PopSleeps, FinishTask, PostToken
<1>2. UNCHANGED mainVars /\ \A v \in Workers \ {w} : pc'[v] = pc[v]
  BY <1>1 DEF ThreadRoutine, CheckStop, WaitReturns, WaitSleeps, Peek, PopReturns,
      PopSleeps, FinishTask, PostToken
<1> QED BY <1>1, <1>2 DEF StopInv, SlotsSound, QuietAfterStop, Slots, mainVars

\* Growing keeps every thread in a slot, and happens only after another call began.
LEMMA GrowKeepsStopInv ==
    ASSUME TypeOK, StopInv,
           \/ \E num \in Sizes : GrowBegin(num)
           \/ \E w \in Workers : GrowPush(w)
           \/ GrowRollback
    PROVE  StopInv'
<1> USE DEF StopInv, SlotsSound, QuietAfterStop, Slots
<1>1. m_threads \in Seq(Workers \cup {NoThread}) /\ idx \in Nat
      /\ pc \in [Workers -> Locations] /\ (main = "grow" => idx <= Len(m_threads))
  BY DEF TypeOK
<1>2. ASSUME NEW num \in Sizes, GrowBegin(num) PROVE StopInv'
  <2>1. \A i \in DOMAIN m_threads : i \in DOMAIN m_threads' /\ m_threads'[i] = m_threads[i]
    BY <1>1, <1>2, PoolAssumption DEF GrowBegin
  <2> QED BY <1>2, <2>1 DEF GrowBegin, workerVars
<1>3. ASSUME NEW w \in Workers, GrowPush(w) PROVE StopInv'
  <2>1. /\ \A i \in DOMAIN m_threads : i \in DOMAIN m_threads' /\ m_threads'[i] = m_threads[i]
        /\ Len(m_threads) + 1 \in DOMAIN m_threads' /\ m_threads'[Len(m_threads) + 1] = w
    BY <1>1, <1>3 DEF GrowPush
  <2>2. \A v \in Workers : v # w => pc'[v] = pc[v]
    BY <1>1, <1>3 DEF GrowPush
  <2> QED BY <1>3, <2>1, <2>2 DEF GrowPush
<1>4. CASE GrowRollback
  <2>1. CASE main' = "aborted"
    BY <1>4, <2>1 DEF GrowRollback, workerVars, Return
  <2>2. CASE main' # "aborted"
    <3>0. \A i \in DOMAIN m_threads : i > idx => m_threads[i] = NoThread
      BY <1>4, <2>2 DEF GrowRollback
    <3>1. m_threads' = SubSeq(m_threads, 1, idx)
      BY <1>4, <2>2 DEF GrowRollback
    <3>2. /\ DOMAIN m_threads' = 1 .. idx
          /\ \A i \in 1 .. idx : m_threads'[i] = m_threads[i]
      BY <1>1, <1>4, <3>1 DEF GrowRollback
    <3>3. \A i \in DOMAIN m_threads : m_threads[i] # NoThread => i \in 1 .. idx
      BY <1>1, <3>0
    <3>4. \A w \in Workers : w \in Slots => w \in Slots'
      BY <3>2, <3>3, PoolAssumption
    <3>5. main' = "ready" /\ result' = "ThreadPoolBadAlloc" /\ pc' = pc
      BY <1>4, <2>2 DEF GrowRollback, Return, workerVars
    <3> QED BY <3>4, <3>5
  <2> QED BY <2>1, <2>2
<1> QED BY <1>2, <1>3, <1>4

\* The loop of Stop() empties the slots in order, each when its thread has left.
LEMMA StopKeepsStopInv ==
    ASSUME TypeOK, StopInv, StopTimeout \/ StopLooks \/ JoinReturns \/ StopEnds
    PROVE  StopInv'
<1> USE DEF StopInv, SlotsSound, QuietAfterStop, Slots
<1>1. m_threads \in Seq(Workers \cup {NoThread}) /\ idx \in Nat
  BY DEF TypeOK
<1>2. CASE StopTimeout
  BY <1>2, PoolAssumption DEF StopTimeout, Return, Joinable, workerVars
<1>3. CASE StopLooks
  BY <1>1, <1>3 DEF StopLooks, workerVars
<1>4. CASE JoinReturns
  <2>1. /\ DOMAIN m_threads' = DOMAIN m_threads
        /\ \A i \in DOMAIN m_threads :
              m_threads'[i] = IF i = idx THEN NoThread ELSE m_threads[i]
    BY <1>1, <1>4 DEF JoinReturns
  <2>2. pc[m_threads[idx]] = "exit" /\ pc' = pc /\ idx' = idx + 1
        /\ main = "join" /\ main' = "stop" /\ result' = result
    BY <1>4 DEF JoinReturns, workerVars
  <2>3. \A w \in Workers : pc[w] \notin {"none", "exit"} => w \in Slots'
    BY <2>1, <2>2
  <2> QED BY <1>1, <2>1, <2>2, <2>3
<1>5. CASE StopEnds
  <2>1. Slots \subseteq {NoThread}
    BY <1>1, <1>5 DEF StopEnds
  <2>2. \A w \in Workers : pc[w] \in {"none", "exit"}
    BY <2>1, PoolAssumption
  <2> QED BY <1>5, <2>2 DEF StopEnds, Return, workerVars
<1> QED BY <1>2, <1>3, <1>4, <1>5

\* When Stop() has returned true or the destructor has run, no thread of the
\* pool is left inside its routine.
THEOREM StopLeavesNobody == Spec => []QuietAfterStop
<1>1. Init => StopInv
  BY DEF Init, StopInv, SlotsSound, QuietAfterStop
<1>2. TypeOK /\ WaitSetsOK /\ StopInv /\ [Next]_vars => StopInv'
  <2> SUFFICES ASSUME TypeOK, WaitSetsOK, StopInv, [Next]_vars PROVE StopInv'
      OBVIOUS
  <2>1. ASSUME NEW w \in Workers, SpuriousWake(w) PROVE StopInv'
    BY <2>1 DEF SpuriousWake, workerVars, mainVars, StopInv, SlotsSound, QuietAfterStop, Slots
  <2>2. CASE UNCHANGED vars
    BY <2>2 DEF vars, workerVars, mainVars, StopInv, SlotsSound, QuietAfterStop, Slots
  <2>3. ASSUME \/ \E t \in Tasks : AddTask(t)
               \/ Run \/ Pause \/ GrowNoThread
               \/ \E num \in Sizes : SetNumOfThreads(num) \/ GrowNoMemory(num)
               \/ \E isDtor \in BOOLEAN : StopBegin(isDtor)
        PROVE StopInv'
    <3>1. /\ pc' = pc /\ m_threads' = m_threads
          /\ main' = "stop" => idx' = 1
          /\ main' \in {"ready", "stop"}
          /\ result' # "true"
      BY <2>3 DEF AddTask, Run, Pause, GrowNoThread, SetNumOfThreads, GrowNoMemory,
          StopBegin, Return, workerVars
    <3>2. \A i \in DOMAIN m_threads : ~(i < 1)
      <4>1. m_threads \in Seq(Workers \cup {NoThread})
        BY DEF TypeOK
      <4> QED BY <4>1
    <3> QED BY <3>1, <3>2 DEF StopInv, SlotsSound, QuietAfterStop, Slots
  <2> QED BY <2>1, <2>2, <2>3, WorkerKeepsStopInv, GrowKeepsStopInv, StopKeepsStopInv
          DEF Next, Client, CallStep
<1>3. StopInv => QuietAfterStop
  BY DEF StopInv
<1> QED BY <1>1, <1>2, <1>3, TypesHold, PTL DEF Spec

=============================================================================
