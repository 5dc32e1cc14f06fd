----------------------------- MODULE AlmogProofs -----------------------------
(* Theorems about AlmogPool, for any number of workers, tasks and entries. *)
EXTENDS AlmogProperties, QueueProofs, SequenceTheorems

\* The initial state has the types.
LEMMA InitTypes == Init => TypeOK
<1> SUFFICES ASSUME Init PROVE TypeOK
    OBVIOUS
<1> USE AlmogAssumption DEF Init, SemInit
<1>1. Cardinality(Initial) \in Nat
  BY FS_Subset, FS_CardinalityType
<1>2. m_threads \in Seq(Workers \cup {NoThread})
  BY <1>1
<1>3. pc \in [Workers -> Locations] /\ held \in [Workers -> UserTasks \cup {NoTask}]
  BY DEF Locations
<1>4. m_isRunning \in BOOLEAN /\ m_shouldStop \in BOOLEAN /\ unbalanced \in BOOLEAN
  BY Zenon
<1>5. m_queue \subseteq Tasks /\ finished \subseteq UserTasks
  OBVIOUS
<1>6. /\ sem_blocked \cup sem_woken = {w \in Workers : pc[w] = "inWait"}
      /\ sem_blocked \cap sem_woken = {}
      /\ pop_blocked \cup pop_woken = {w \in Workers : pc[w] = "inPop"}
      /\ pop_blocked \cap pop_woken = {}
  OBVIOUS
<1>7. \A w \in Workers : held[w] # NoTask <=> pc[w] = "do"
  OBVIOUS
<1>8. m_count \in Int /\ m_actual \in Nat /\ left \in Nat
  BY <1>1
<1> QED BY <1>2, <1>3, <1>4, <1>5, <1>6, <1>7, <1>8 DEF TypeOK

\* Every step of a worker keeps the types.
LEMMA WorkerTypes ==
    ASSUME TypeOK, NEW w \in Workers, RunThreads(w) \/ SpuriousWake(w) PROVE TypeOK'
<1> USE AlmogAssumption DEF TypeOK, Locations, UserTasks, At, Goes, clientVars, sizeVars,
        flagVars, mainVars, semVars, queueVars, workerVars
<1>1. CASE CheckStop(w)
  BY <1>1 DEF CheckStop
<1>2. CASE PopReturns(w)
  BY <1>2 DEF PopReturns, PopTake
<1>3. CASE PopSleeps(w)
  BY <1>3 DEF PopSleeps, PopBlock
<1>4. CASE FinishTask(w)
  BY <1>4 DEF FinishTask
<1>5. CASE Unparks(w)
  BY <1>5 DEF Unparks, SemAcquire
<1>6. CASE Parks(w)
  BY <1>6 DEF Parks, SemBlock
<1>7. CASE SpuriousWake(w)
  BY <1>7 DEF SpuriousWake, SemSpurious, PopSpurious
<1> QED BY <1>1, <1>2, <1>3, <1>4, <1>5, <1>6, <1>7 DEF RunThreads

\* What a notification leaves of a wait set.
LEMMA NotifyKeeps ==
    ASSUME NEW blocked, NEW woken, NEW W \in NotifyOne(blocked)
    PROVE  /\ (blocked \ W) \cup (woken \cup W) = blocked \cup woken
           /\ blocked \cap woken = {} => (blocked \ W) \cap (woken \cup W) = {}
  BY DEF NotifyOne

\* A Push() of the client changes the queue and the wait sets, and no type.
LEMMA PushTypes ==
    ASSUME TypeOK, NEW e \in Tasks, Push(e)
    PROVE  /\ m_queue' \subseteq Tasks
           /\ pop_blocked' \cup pop_woken' = pop_blocked \cup pop_woken
           /\ pop_blocked' \cap pop_woken' = {}
  BY NotifyKeeps DEF Push, TypeOK

\* Set() moves at most a waiter from one wait set to the other.
LEMMA SetTypes ==
    ASSUME NEW num \in Int, sem_blocked \cap sem_woken = {}, SemSet(num)
    PROVE  /\ m_count' \in Int
           /\ sem_blocked' \cup sem_woken' = sem_blocked \cup sem_woken
           /\ sem_blocked' \cap sem_woken' = {}
  BY NotifyKeeps DEF SemSet, SemNotify

\* Every step of the client keeps the types.
LEMMA ClientTypes == ASSUME TypeOK, Client PROVE TypeOK'
<1> USE AlmogAssumption DEF TypeOK, UserTasks, Begins, Returns, Disturbs, Turns, Surplus, clientVars,
        sizeVars, flagVars, mainVars, semVars, queueVars, workerVars
<1>0. Len(m_threads) \in Nat
  OBVIOUS
<1>1. ASSUME NEW t \in Tasks, AddTask(t) PROVE TypeOK'
  BY <1>1, PushTypes DEF AddTask
<1>2. CASE Run
  BY <1>2, SetTypes DEF Run
<1>3. CASE Pause
  BY <1>3, SetTypes DEF Pause
<1>4. ASSUME NEW num \in Sizes, SetNumOfThreads(num) PROVE TypeOK'
  BY <1>0, <1>4 DEF SetNumOfThreads
<1>5. ASSUME NEW name \in {"Stop", "StopTimed", "~ThreadPool"}, Stop(name) PROVE TypeOK'
  BY <1>0, <1>5, SetTypes DEF Stop
<1>6. CASE DestroyStopped \/ StopTimeout \/ JoinThrows \/ StopEnds
  <2>1. CASE DestroyStopped
    BY <2>1 DEF DestroyStopped
  <2>2. CASE StopTimeout \/ JoinThrows
    BY <2>2 DEF StopTimeout, JoinThrows
  <2>3. CASE StopEnds
    BY <2>3 DEF StopEnds
  <2> QED BY <1>6, <2>1, <2>2, <2>3
<1>11. CASE TurnThrows
  <2>1. main' \in {"ready", "aborted"} /\ left' \in Nat /\ call' = call
    BY <1>11 DEF TurnThrows
  <2>2. unbalanced' \in BOOLEAN
    BY <1>11 DEF TurnThrows
  <2> QED BY <1>11, <2>1, <2>2 DEF TurnThrows
<1>7. ASSUME NEW entries, NEW loop, entries \subseteq Tasks, PushOne(entries, loop) PROVE TypeOK'
  <2>1. (CHOOSE e \in entries : e \notin m_queue) \in Tasks
    BY <1>7 DEF PushOne
  <2> QED BY <1>7, <2>1, PushTypes DEF PushOne
<1>8. ASSUME NEW w \in Workers, GrowPush(w) PROVE TypeOK'
  BY <1>8 DEF GrowPush, Goes, Locations
<1>9. CASE LoopEnds
  BY <1>9 DEF LoopEnds
<1>10. CASE JoinReturns
  <2>1. m_threads' \in Seq(Workers \cup {NoThread})
    BY <1>10, ExceptSeq DEF JoinReturns
  <2> QED BY <1>10, <2>1 DEF JoinReturns
<1> QED BY <1>1, <1>2, <1>3, <1>4, <1>5, <1>6, <1>7, <1>8, <1>9, <1>10, <1>11
      DEF Client, CallStep

\* The types hold in every reachable state.
THEOREM TypesHold == Spec => []TypeOK
<1>1. TypeOK /\ [Next]_vars => TypeOK'
  <2>1. TypeOK /\ UNCHANGED vars => TypeOK'
    BY DEF TypeOK, vars, sizeVars, flagVars, mainVars, semVars, queueVars, workerVars
  <2> QED BY <2>1, WorkerTypes, ClientTypes DEF Next
<1> QED BY <1>1, InitTypes, PTL DEF Spec

-----------------------------------------------------------------------------

\* A step either leaves the queue alone or is one of its operations.
LEMMA QueueSteps ==
    ASSUME [Next]_vars
    PROVE  \/ UNCHANGED queueVars
           \/ \E w \in Workers : PopBlock(w) \/ PopSpurious(w) \/ \E t \in Tasks : PopTake(w, t)
           \/ \E t : Push(t)
<1>1. ASSUME NEW w \in Workers, RunThreads(w)
      PROVE  UNCHANGED queueVars \/ PopBlock(w) \/ \E t \in Tasks : PopTake(w, t)
  BY <1>1 DEF RunThreads, CheckStop, PopReturns, PopSleeps, FinishTask, Unparks, Parks
<1>2. ASSUME NEW w \in Workers, SpuriousWake(w) PROVE UNCHANGED queueVars \/ PopSpurious(w)
  BY <1>2 DEF SpuriousWake
<1>3. ASSUME Client PROVE UNCHANGED queueVars \/ \E t : Push(t)
  BY <1>3 DEF Client, CallStep, AddTask, Run, Pause, SetNumOfThreads, Stop, DestroyStopped,
      PushOne, GrowPush, LoopEnds, TurnThrows, JoinReturns, JoinThrows, StopTimeout, StopEnds
<1> QED BY <1>1, <1>2, <1>3 DEF Next, vars

\* While a worker sleeps in Pop(), each entry of the queue has a woken worker of
\* its own on the way: AddTask, AddWaitTasks and WakeThemUp announce what they push.
THEOREM NoTaskWakeupLost == Spec => []NoLostTaskWakeup
<1> USE DEF NoLostTaskWakeup
<1>1. Init => Countable /\ NoLostTaskWakeup
  BY AlmogAssumption, FS_EmptySet, FS_Subset DEF Init, Countable, Announced
<1>2. TypeOK /\ Countable /\ NoLostTaskWakeup /\ [Next]_vars => (Countable /\ NoLostTaskWakeup)'
  <2> SUFFICES ASSUME TypeOK, Countable, NoLostTaskWakeup, [Next]_vars
               PROVE  Countable' /\ NoLostTaskWakeup'
      OBVIOUS
  <2>0. pop_blocked \cap pop_woken = {}
    BY DEF TypeOK
  <2>1. CASE UNCHANGED queueVars
    BY <2>1 DEF queueVars, Countable, Announced
  <2>2. ASSUME NEW w, NEW t, PopTake(w, t) PROVE Countable' /\ NoLostTaskWakeup'
    BY <2>2, TakeKeepsAnnounced DEF Announced
  <2>3. ASSUME NEW w, PopBlock(w) \/ PopSpurious(w) PROVE Countable' /\ NoLostTaskWakeup'
    BY <2>0, <2>3, BlockKeepsAnnounced, SpuriousKeepsAnnounced DEF Announced
  <2>4. ASSUME NEW t, Push(t) PROVE Countable' /\ NoLostTaskWakeup'
    BY <2>0, <2>4, PushKeepsAnnounced DEF Announced
  <2> QED BY <2>1, <2>2, <2>3, <2>4, QueueSteps
<1> QED BY <1>1, <1>2, TypesHold, PTL DEF Spec

-----------------------------------------------------------------------------

\* Each step submits, starts or finishes one of the user's tasks, or moves none.
LEMMA StepSimulates == TypeOK /\ [Next]_vars => [Promise!Next]_(Promise!poolVars)
<1> SUFFICES ASSUME TypeOK, [Next]_vars
             PROVE  Promise!Next \/ UNCHANGED <<m_queue \cap UserTasks, held, finished>>
    BY DEF Promise!poolVars
<1> USE AlmogAssumption
<1>1. ASSUME NEW t \in Tasks, AddTask(t) PROVE Promise!Next
  <2>1. Promise!Submit(t) /\ t \in UserTasks
    BY <1>1 DEF AddTask, Push, Promise!Submit, Promise!Running, workerVars
  <2> QED BY <2>1 DEF Promise!Next
<1>2. ASSUME NEW w \in Workers, PopReturns(w)
      PROVE  Promise!Next \/ UNCHANGED <<m_queue \cap UserTasks, held, finished>>
  <2>1. held[w] = NoTask /\ held \in [Workers -> UserTasks \cup {NoTask}]
    BY <1>2 DEF TypeOK, PopReturns, At
  <2>2. PICK t \in Tasks :
          /\ PopTake(w, t) /\ UNCHANGED finished
          /\ held' = [held EXCEPT ![w] = IF t \in UserTasks THEN t ELSE NoTask]
    BY <1>2 DEF PopReturns
  <2>3. CASE t \in UserTasks
    <3>1. Promise!Start(w, t)
      BY <2>1, <2>2, <2>3 DEF PopTake, Front, Promise!Start
    <3> QED BY <2>3, <3>1 DEF Promise!Next
  <2>4. CASE t \notin UserTasks
    BY <2>1, <2>2, <2>4 DEF PopTake
  <2> QED BY <2>3, <2>4
<1>3. ASSUME NEW w \in Workers, FinishTask(w)
      PROVE  Promise!Next \/ UNCHANGED <<m_queue \cap UserTasks, held, finished>>
  <2>1. UNCHANGED workerVars \/ Promise!Finish(w)
    BY <1>3 DEF FinishTask, At, TypeOK, queueVars, Promise!Finish
  <2> QED BY <1>3, <2>1 DEF workerVars, Promise!Next, FinishTask, queueVars
<1>4. ASSUME NEW w \in Workers, RunThreads(w)
      PROVE  \/ PopReturns(w) \/ FinishTask(w)
             \/ UNCHANGED <<m_queue \cap UserTasks, held, finished>>
  BY <1>4 DEF RunThreads, CheckStop, PopSleeps, PopBlock, Unparks, Parks, queueVars
<1>5. ASSUME NEW w \in Workers, SpuriousWake(w)
      PROVE  UNCHANGED <<m_queue \cap UserTasks, held, finished>>
  BY <1>5 DEF SpuriousWake, PopSpurious, queueVars, workerVars
<1>6. ASSUME NEW entries, entries \subseteq Waits \cup Wakes, NEW loop, PushOne(entries, loop)
      PROVE  UNCHANGED <<m_queue \cap UserTasks, held, finished>>
  <2>1. (CHOOSE e \in entries : e \notin m_queue) \notin UserTasks
    BY <1>6 DEF PushOne, UserTasks
  <2> QED BY <1>6, <2>1 DEF PushOne, Push, workerVars
<1>7. ASSUME Client
      PROVE  \/ \E t \in Tasks : AddTask(t)
             \/ PushOne(Waits, "waits") \/ PushOne(Wakes, "wakes")
             \/ UNCHANGED <<m_queue \cap UserTasks, held, finished>>
  BY <1>7 DEF Client, CallStep, Run, Pause, SetNumOfThreads, Stop, DestroyStopped, GrowPush,
      LoopEnds, TurnThrows, JoinReturns, JoinThrows, StopTimeout, StopEnds, queueVars, workerVars
<1>8. UNCHANGED vars => UNCHANGED <<m_queue \cap UserTasks, held, finished>>
  BY DEF vars, queueVars, workerVars
<1> QED BY <1>1, <1>2, <1>3, <1>4, <1>5, <1>6, <1>7, <1>8 DEF Next

\* This pool, too, implements the abstract one.
THEOREM Implementation == Spec => ImplementsTaskPool
<1>1. Init => Promise!Init
  <2>1. Waits \cap UserTasks = {}
    BY DEF UserTasks
  <2> QED BY <2>1 DEF Init, Promise!Init
<1> QED BY <1>1, StepSimulates, TypesHold, PTL DEF Spec, ImplementsTaskPool, Promise!Spec

-----------------------------------------------------------------------------
(* Why a paused pool starts nothing: the account of the free workers. *)

\* What Balanced counts can be counted.
LEMMA Countings ==
    ASSUME NEW F \in SUBSET Workers, NEW Q \in SUBSET Tasks
    PROVE  /\ IsFiniteSet(F) /\ IsFiniteSet(Q \cap Waits)
           /\ Cardinality(F) \in Nat /\ Cardinality(Q \cap Waits) \in Nat
<1>1. Q \cap Waits \subseteq Tasks
  OBVIOUS
<1>2. IsFiniteSet(F) /\ IsFiniteSet(Q \cap Waits)
  BY <1>1, AlmogAssumption, FS_Subset
<1> QED BY <1>2, FS_CardinalityType

\* A worker that is freed spends a unit, one that parks spends a WaitTask.
LEMMA WorkerBalance ==
    ASSUME TypeOK, Balanced, NEW w \in Workers, RunThreads(w) \/ SpuriousWake(w)
    PROVE  Balanced'
<1> SUFFICES ASSUME ~m_shouldStop', ~unbalanced', main' # "aborted" PROVE Balanced'
    BY DEF Balanced
<1> DEFINE Fr == Cardinality(Free)
<1>0. pc \in [Workers -> Locations] /\ m_count \in Int /\ Pledged \in Int
  BY DEF TypeOK, Pledged
<1>4. IsFiniteSet(Free) /\ IsFiniteSet(m_queue \cap Waits) /\ Fr \in Nat /\ Queued \in Nat
  BY Countings DEF TypeOK, Free, Queued
<1>5. Fr' \in Nat /\ Queued' \in Nat /\ m_count' \in Int
  BY WorkerTypes, Countings DEF TypeOK, Free, Queued
<1>1. UNCHANGED clientVars
  BY DEF RunThreads, SpuriousWake, CheckStop, PopReturns, PopSleeps, FinishTask, Unparks, Parks,
      clientVars, sizeVars, flagVars, mainVars
<1>2. Pledged' = Pledged /\ m_count >= 0
  BY <1>1 DEF Pledged, Balanced, clientVars, sizeVars, flagVars, mainVars
<1>3. m_count' >= 0 /\ Fr' + m_count' - Queued' <= Fr + m_count - Queued
  <2> USE DEF Goes, Locations
  <2>1. CASE CheckStop(w) \/ PopSleeps(w) \/ Parks(w) \/ SpuriousWake(w)
    <3>1. Free' = Free /\ UNCHANGED <<m_count, m_queue>>
      <4>1. ~m_shouldStop
        BY <1>1 DEF clientVars, flagVars
      <4>2. CASE CheckStop(w)
        BY <1>0, <4>1, <4>2 DEF CheckStop, At, Free, semVars, queueVars
      <4>3. CASE PopSleeps(w)
        BY <1>0, <4>3 DEF PopSleeps, PopBlock, At, Free, semVars
      <4>4. CASE Parks(w)
        BY <1>0, <4>4 DEF Parks, SemBlock, At, Free, queueVars
      <4>5. CASE SpuriousWake(w)
        BY <4>5 DEF SpuriousWake, SemSpurious, PopSpurious, Free, semVars, queueVars, workerVars
      <4> QED BY <2>1, <4>2, <4>3, <4>4, <4>5
    <3> QED BY <1>0, <1>2, <1>4, <3>1 DEF Queued
  <2>2. CASE FinishTask(w)
    <3>1. (Free' = Free \/ Free' = Free \ {w}) /\ UNCHANGED <<m_count, m_queue>>
      BY <1>0, <2>2 DEF FinishTask, At, Free, semVars, queueVars
    <3>2. Free' \in SUBSET Free /\ Queued' = Queued
      BY <3>1 DEF Queued
    <3>3. Fr' <= Fr
      BY <1>4, <3>2, FS_Subset
    <3> QED BY <1>0, <1>2, <1>4, <1>5, <3>1, <3>2, <3>3
  <2>3. CASE Unparks(w)
    <3>1. w \notin Free /\ Free' = Free \cup {w} /\ m_queue' = m_queue
          /\ m_count' = m_count - 1 /\ m_count > 0
      BY <1>0, <2>3 DEF Unparks, SemAcquire, At, Free, queueVars
    <3>2. Fr' = Fr + 1
      BY <1>4, <3>1, CountChange
    <3> QED BY <1>0, <1>4, <3>1, <3>2 DEF Queued
  <2>4. CASE PopReturns(w)
    <3>1. PICK t \in Tasks :
            /\ PopTake(w, t)
            /\ Goes(w, IF t \in Waits THEN "wait" ELSE IF t \in Wakes THEN "test" ELSE "do")
      BY <2>4 DEF PopReturns
    <3>2. m_count' = m_count /\ w \in Free /\ m_queue' = m_queue \ {t} /\ t \in m_queue
      BY <2>4, <3>1 DEF PopReturns, At, Free, PopTake, Front, semVars
    <3>3. CASE t \in Waits
      <4>1. Free' = Free \ {w} /\ (m_queue \cap Waits)' = (m_queue \cap Waits) \ {t}
            /\ t \in m_queue \cap Waits
        BY <1>0, <3>1, <3>2, <3>3 DEF Free
      <4>2. Fr' = Fr - 1 /\ Queued' = Queued - 1
        BY <1>4, <3>2, <4>1, CountChange DEF Queued
      <4> QED BY <1>4, <1>0, <1>2, <3>2, <4>2
    <3>4. CASE t \notin Waits
      <4>1. Free' = Free /\ (m_queue \cap Waits)' = m_queue \cap Waits
        BY <1>0, <3>1, <3>2, <3>4 DEF Free
      <4>2. Fr' = Fr /\ Queued' = Queued
        BY <4>1 DEF Queued
      <4> QED BY <1>0, <1>2, <1>4, <3>2, <4>2
    <3> QED BY <3>3, <3>4
  <2> QED BY <2>1, <2>2, <2>3, <2>4 DEF RunThreads
<1>6. Fr' + m_count' <= Queued' + Pledged'
  <2>1. Fr + m_count <= Queued + Pledged
    BY <1>1 DEF Balanced, clientVars, flagVars, mainVars
  <2>2. Fr' + m_count' - Queued' <= Pledged
    BY <1>0, <1>3, <1>4, <1>5, <2>1
  <2> QED BY <1>0, <1>2, <1>5, <2>2
<1> QED BY <1>1, <1>3, <1>6 DEF Balanced, clientVars, sizeVars, flagVars, mainVars

\* The calls keep the account: whatever frees workers is matched by WaitTasks
\* already queued or still to be pushed.
LEMMA ClientBalance == ASSUME TypeOK, Balanced, Client PROVE Balanced'
<1> SUFFICES ASSUME ~m_shouldStop', ~unbalanced', main' # "aborted" PROVE Balanced'
    BY DEF Balanced
<1> DEFINE Fr == Cardinality(Free)
<1>0. /\ m_count \in Int /\ m_actual \in Nat /\ left \in Nat /\ Len(m_threads) \in Nat
      /\ m_isRunning \in BOOLEAN
  BY DEF TypeOK
<1>1. IsFiniteSet(Free) /\ IsFiniteSet(m_queue \cap Waits) /\ Fr \in Nat /\ Queued \in Nat
  BY Countings DEF TypeOK, Free, Queued
<1>2. Fr' \in Nat /\ Queued' \in Nat
  BY ClientTypes, Countings DEF TypeOK, Free, Queued
<1>3. ~m_shouldStop /\ ~unbalanced /\ main # "aborted"
  <2> USE DEF Client, CallStep, AddTask, Run, Pause, SetNumOfThreads, Stop, DestroyStopped, Begins,
      PushOne, GrowPush, LoopEnds, TurnThrows, JoinReturns, JoinThrows, StopTimeout, StopEnds,
      clientVars, flagVars
  <2>1. ~m_shouldStop
    BY DEF Disturbs
  <2>2. UNCHANGED unbalanced \/ \E happens : Disturbs(happens)
    <3>1. \/ UNCHANGED unbalanced \/ Run \/ TurnThrows
          \/ \E num \in Sizes : SetNumOfThreads(num)
      OBVIOUS
    <3> QED BY <3>1, Zenon
  <2>3. ~unbalanced
    BY <2>2 DEF Disturbs
  <2>4. main # "aborted"
    OBVIOUS
  <2> QED BY <2>1, <2>3, <2>4
<1>4. /\ main \in {"ready", "waits", "grow"}
      /\ m_count >= 0 /\ Fr + m_count <= Queued + Pledged
      /\ main = "ready" => m_actual <= Len(m_threads)
      /\ main = "waits" =>
            /\ call \in {"Pause", "Shrink"} /\ m_actual <= Len(m_threads)
            /\ call = "Pause" => m_isRunning /\ left <= m_actual
      /\ main = "grow" => m_isRunning /\ call = "Grow" /\ m_actual = Len(m_threads) + left
  BY <1>3 DEF Balanced
<1>5. UNCHANGED pc => Fr' = Fr
  BY DEF Free
<1>6. UNCHANGED m_queue => Queued' = Queued
  BY DEF Queued
<1>7. ASSUME NEW t \in Tasks, AddTask(t) PROVE Balanced'
  <2>1. m_queue' \cap Waits = m_queue \cap Waits /\ UNCHANGED <<pc, m_count>>
    BY <1>7 DEF AddTask, Push, UserTasks, semVars, workerVars
  <2>2. Fr' = Fr /\ Queued' = Queued
    BY <1>5, <2>1 DEF Queued
  <2>3. Pledged' = Pledged /\ UNCHANGED clientVars
    BY <1>7 DEF AddTask, Pledged, clientVars, sizeVars, flagVars, mainVars
  <2> QED BY <1>3, <1>4, <2>1, <2>2, <2>3 DEF Balanced, clientVars, sizeVars, flagVars, mainVars
<1>8. CASE Run
  <2>1. Fr' = Fr /\ Queued' = Queued
    BY <1>5, <1>6, <1>8 DEF Run, queueVars, workerVars
  <2>2. /\ ~m_isRunning /\ m_isRunning' /\ m_count' = m_actual /\ UNCHANGED <<m_threads, m_actual>>
        /\ main = "ready" /\ main' = "ready"
    BY <1>8 DEF Run, Begins, Disturbs, SemSet, sizeVars
  <2>3. Pledged = 0 /\ Pledged' = m_actual
    BY <2>2 DEF Pledged
  <2>4. Fr' + m_count' <= Queued' + Pledged'
    BY <1>0, <1>1, <1>4, <2>1, <2>2, <2>3
  <2> QED BY <1>0, <1>4, <2>2, <2>4 DEF Balanced
<1>9. CASE Pause
  <2>1. Fr' = Fr /\ Queued' = Queued
    BY <1>5, <1>6, <1>9 DEF Pause, queueVars, workerVars
  <2>2. /\ m_isRunning /\ m_count' = 0 /\ UNCHANGED <<m_threads, m_actual, m_isRunning>>
        /\ main = "ready" /\ main' = "waits" /\ call' = "Pause" /\ left' = m_actual
    BY <1>9 DEF Pause, Begins, Turns, SemSet, sizeVars, flagVars
  <2>3. Pledged = m_actual /\ Pledged' = m_actual
    BY <2>2 DEF Pledged
  <2>4. Fr' + m_count' <= Queued' + Pledged'
    BY <1>0, <1>1, <1>4, <2>1, <2>2, <2>3
  <2> QED BY <1>0, <1>4, <2>2, <2>4 DEF Balanced
<1>10. ASSUME NEW num \in Sizes, SetNumOfThreads(num) PROVE Balanced'
  <2>0. num \in Nat
    BY AlmogAssumption
  <2>1. Fr' = Fr /\ Queued' = Queued /\ UNCHANGED <<m_count, m_threads, m_isRunning>>
    BY <1>5, <1>6, <1>10 DEF SetNumOfThreads, semVars, queueVars, workerVars
  <2>2. main = "ready" /\ m_actual' = num
    BY <1>10 DEF SetNumOfThreads, Begins
  <2>3. CASE num > Len(m_threads)
    <3>1. /\ m_isRunning /\ main' = "grow" /\ call' = "Grow" /\ left' = num - Len(m_threads)
      BY <1>0, <1>10, <2>3 DEF SetNumOfThreads, Begins, Disturbs
    <3>2. Pledged = m_actual /\ Pledged' = Len(m_threads)
      BY <1>0, <2>0, <2>1, <2>2, <3>1 DEF Pledged
    <3>3. Fr' + m_count' <= Queued' + Pledged'
      BY <1>0, <1>1, <1>4, <2>1, <2>2, <3>2
    <3> QED BY <1>0, <1>4, <2>0, <2>1, <2>2, <3>1, <3>3 DEF Balanced
  <2>4. CASE ~(num > Len(m_threads))
    <3>1. main' = "waits" /\ call' = "Shrink" /\ left' = Len(m_threads) - num
      BY <1>10, <2>4 DEF SetNumOfThreads, Begins, Turns, Surplus
    <3>2. Pledged' >= Pledged /\ Pledged' \in Int /\ Pledged \in Int
      <4>1. CASE m_isRunning
        BY <1>0, <1>4, <2>0, <2>1, <2>2, <3>1, <4>1 DEF Pledged
      <4>2. CASE ~m_isRunning
        BY <2>1, <4>2 DEF Pledged
      <4> QED BY <4>1, <4>2
    <3>3. Fr' + m_count' <= Queued' + Pledged'
      BY <1>0, <1>1, <1>4, <2>1, <3>2
    <3> QED BY <1>0, <1>4, <2>0, <2>1, <2>2, <2>4, <3>1, <3>3 DEF Balanced
  <2> QED BY <2>3, <2>4
<1>11. CASE PushOne(Waits, "waits")
  <2> DEFINE e == CHOOSE e \in Waits : e \notin m_queue
  <2>1. e \in Waits /\ e \notin m_queue /\ m_queue' = m_queue \cup {e}
    BY <1>11 DEF PushOne, Push
  <2>2. m_queue' \cap Waits = (m_queue \cap Waits) \cup {e} /\ e \notin m_queue \cap Waits
    BY <2>1
  <2>3. Queued' = Queued + 1
    <3>1. Cardinality((m_queue \cap Waits) \cup {e}) = Cardinality(m_queue \cap Waits) + 1
      BY <1>1, <2>2, CountChange
    <3> QED BY <2>2, <3>1 DEF Queued
  <2>4. /\ Fr' = Fr /\ UNCHANGED <<m_count, m_threads, m_actual, m_isRunning, main, call>>
        /\ main = "waits" /\ left > 0 /\ left' = left - 1
    BY <1>5, <1>11 DEF PushOne, semVars, workerVars, sizeVars, flagVars
  <2>5. Pledged' >= Pledged - 1 /\ Pledged' \in Int /\ Pledged \in Int
    <3>1. CASE m_isRunning
      BY <1>0, <1>4, <2>4, <3>1 DEF Pledged
    <3>2. CASE ~m_isRunning
      BY <2>4, <3>2 DEF Pledged
    <3> QED BY <3>1, <3>2
  <2>6. Fr' + m_count' <= Queued' + Pledged'
    BY <1>0, <1>1, <1>4, <2>3, <2>4, <2>5
  <2> QED BY <1>0, <1>4, <2>4, <2>6 DEF Balanced
<1>12. ASSUME NEW w \in Workers, GrowPush(w) PROVE Balanced'
  <2>1. /\ w \notin Free /\ Free' = Free \cup {w} /\ main = "grow" /\ left > 0 /\ left' = left - 1
        /\ UNCHANGED <<m_count, m_queue, m_actual, m_isRunning, main, call>>
    BY <1>12 DEF GrowPush, Goes, Free, TypeOK, semVars, queueVars, flagVars
  <2>2. Fr' = Fr + 1 /\ Queued' = Queued
    BY <1>1, <1>6, <2>1, CountChange
  <2>3. Len(m_threads') = Len(m_threads) + 1
    <3>1. m_threads \in Seq(Workers \cup {NoThread}) /\ m_threads' = Append(m_threads, w)
      BY <1>12 DEF TypeOK, GrowPush
    <3> QED BY <3>1
  <2>4. Pledged = m_actual - left /\ Pledged' = m_actual - left + 1
    BY <1>0, <1>4, <2>1 DEF Pledged
  <2>5. Fr' + m_count' <= Queued' + Pledged'
    BY <1>0, <1>1, <1>4, <2>1, <2>2, <2>4
  <2> QED BY <1>0, <1>4, <2>1, <2>3, <2>5 DEF Balanced
<1>13. CASE LoopEnds
  <2>1. Fr' = Fr /\ Queued' = Queued /\ UNCHANGED <<m_count, m_threads, m_actual, call>>
    BY <1>5, <1>6, <1>13 DEF LoopEnds, Returns, semVars, queueVars, workerVars, sizeVars
  <2>2. /\ main \in {"waits", "grow"} /\ main' = "ready" /\ left = 0 /\ left' = 0
        /\ m_isRunning' = (m_isRunning /\ ~(main = "waits" /\ call = "Pause"))
    BY <1>4, <1>13 DEF LoopEnds, Returns
  <2>3. Pledged' = Pledged
    <3>1. CASE ~m_isRunning
      <4>1. ~m_isRunning'
        BY <2>2, <3>1
      <4> QED BY <3>1, <4>1 DEF Pledged
    <3>2. CASE m_isRunning /\ main = "waits" /\ call = "Pause"
      <4>1. ~m_isRunning'
        BY <2>2, <3>2
      <4> QED BY <2>2, <3>2, <4>1 DEF Pledged
    <3>3. CASE m_isRunning /\ ~(main = "waits" /\ call = "Pause")
      <4>1. m_isRunning'
        BY <2>2, <3>3
      <4> QED BY <1>0, <2>1, <2>2, <3>3, <4>1 DEF Pledged
    <3> QED BY <3>1, <3>2, <3>3
  <2>4. m_actual' <= Len(m_threads')
    BY <1>0, <1>4, <2>1, <2>2
  <2>5. Fr' + m_count' <= Queued' + Pledged'
    BY <1>4, <2>1, <2>3
  <2> QED BY <1>4, <2>1, <2>2, <2>4, <2>5 DEF Balanced
<1>14. CASE TurnThrows
  <2>1. /\ Fr' = Fr /\ Queued' = Queued
        /\ UNCHANGED <<m_count, m_threads, m_actual, m_isRunning, call>>
    BY <1>5, <1>6, <1>14 DEF TurnThrows, Returns, semVars, queueVars, workerVars, sizeVars
  <2>2. main = "waits" /\ call = "Pause" /\ main' = "ready"
    BY <1>4, <1>14 DEF TurnThrows, Returns, Disturbs
  <2>3. Pledged = left /\ Pledged' = m_actual /\ left <= m_actual
    BY <1>4, <2>1, <2>2 DEF Pledged
  <2>4. Fr' + m_count' <= Queued' + Pledged'
    BY <1>0, <1>1, <1>4, <2>1, <2>3
  <2> QED BY <1>4, <2>1, <2>2, <2>4 DEF Balanced
<1>15. ~(\E name \in {"Stop", "StopTimed", "~ThreadPool"} : Stop(name))
  BY DEF Stop
<1> QED
  BY <1>3, <1>4, <1>7, <1>8, <1>9, <1>10, <1>11, <1>12, <1>13, <1>14, <1>15
  DEF Client, CallStep, DestroyStopped, StopTimeout, JoinReturns, JoinThrows, StopEnds, PushOne

\* The account holds in every reachable state.
LEMMA BalancedHolds == Spec => []Balanced
<1>1. Init => Balanced
  <2> SUFFICES ASSUME Init PROVE Balanced
      OBVIOUS
  <2>1. Free = Initial /\ m_queue \cap Waits = m_queue
    BY AlmogAssumption DEF Init, Free
  <2>2. Cardinality(Initial) \in Nat /\ Len(m_threads) = Cardinality(Initial)
    BY AlmogAssumption, FS_Subset, FS_CardinalityType DEF Init
  <2>3. Cardinality(Free) = Queued /\ Queued \in Nat
    BY <2>1, <2>2 DEF Init, Queued
  <2>4. Pledged = 0 /\ m_count = 0 /\ main = "ready" /\ m_actual = Len(m_threads)
    BY <2>2 DEF Init, SemInit, Pledged
  <2> QED BY <2>2, <2>3, <2>4 DEF Balanced
<1>2. TypeOK /\ Balanced /\ [Next]_vars => Balanced'
  <2>1. Balanced /\ UNCHANGED vars => Balanced'
    BY DEF Balanced, Free, Queued, Pledged, vars, semVars, queueVars, workerVars, sizeVars,
        flagVars, mainVars
  <2> QED BY <2>1, WorkerBalance, ClientBalance DEF Next
<1> QED BY <1>1, <1>2, TypesHold, PTL DEF Spec

\* A pool that has not been run, or whose Pause() has returned, starts no task.
THEOREM PausedPoolStartsNothing == Spec => PausedStartsNothing
<1>1. TypeOK /\ Balanced /\ [Next]_vars
        => [~m_isRunning /\ ~m_shouldStop /\ ~unbalanced => \A w \in Workers : ~Starts(w)]_vars
  <2> SUFFICES ASSUME TypeOK, Balanced, [Next]_vars, ~m_isRunning, ~m_shouldStop, ~unbalanced,
                      NEW v \in Workers, Starts(v)
               PROVE  FALSE
      OBVIOUS
  <2>1. PICK w \in Workers : PopReturns(w) /\ held'[v] # held[v] /\ held'[v] # NoTask
    <3>1. ASSUME NEW w \in Workers, FinishTask(w) PROVE held'[v] = held[v] \/ held'[v] = NoTask
      BY <3>1 DEF FinishTask, workerVars, TypeOK
    <3>2. ASSUME NEW w \in Workers, RunThreads(w) \/ SpuriousWake(w)
          PROVE  PopReturns(w) \/ FinishTask(w) \/ UNCHANGED held
      BY <3>2 DEF RunThreads, SpuriousWake, CheckStop, PopSleeps, Unparks, Parks, workerVars
    <3>3. Client => UNCHANGED held
      BY DEF Client, CallStep, AddTask, Run, Pause, SetNumOfThreads, Stop, DestroyStopped,
          PushOne, GrowPush, LoopEnds, TurnThrows, JoinReturns, JoinThrows, StopTimeout,
          StopEnds, workerVars
    <3> QED BY <3>1, <3>2, <3>3 DEF Next, Starts, vars, workerVars
  <2>2. PICK t \in UserTasks : t \in Front /\ w \in Free /\ main # "aborted"
    <3>1. PICK t \in Tasks :
            t \in Front /\ held' = [held EXCEPT ![w] = IF t \in UserTasks THEN t ELSE NoTask]
      BY <2>1 DEF PopReturns, PopTake
    <3>2. t \in UserTasks
      BY <2>1, <3>1 DEF TypeOK
    <3> QED BY <2>1, <3>1, <3>2 DEF PopReturns, At, Free
  <2>3. Cardinality(Free) \in Nat /\ IsFiniteSet(Free) /\ Queued \in Nat
    BY Countings DEF TypeOK, Free, Queued
  <2>4. Cardinality(Free) <= Queued
    BY <2>2, <2>3 DEF Balanced, Pledged, TypeOK
  <2>5. Cardinality(Free) # 0
    BY <2>2, <2>3, FS_EmptySet
  <2>6. m_queue \cap Waits # {}
    BY <2>3, <2>4, <2>5, FS_EmptySet DEF Queued
  <2>7. PICK e \in Waits : e \in m_queue /\ Rank[e] < Rank[t]
    BY <2>2, <2>6, AlmogAssumption
  <2>8. Rank[t] <= Rank[e] /\ Rank[t] \in Nat /\ Rank[e] \in Nat
    BY <2>2, <2>7, RankAssumption, AlmogAssumption DEF Front, UserTasks
  <2> QED BY <2>7, <2>8
<1> QED BY <1>1, TypesHold, BalancedHolds, PTL DEF Spec, PausedStartsNothing

=============================================================================
