----------------------------- MODULE ThreadPool -----------------------------
(*
  framework/src/thread_pool.cpp with the two objects its threads meet in: the
  semaphore that says how many of them may be active, and the priority queue
  of tasks. One client thread calls the pool (as main of nasky_test.cpp and
  thread_pool_test.cpp do), every worker runs ThreadRoutine.

  A worker is at one of the program points
    "test"   the loop condition           "wait"   before sem_thread->Wait()
    "inWait" inside that Wait             "peek"   before IsEmpty()
    "pop"    before Pop()                 "inPop"  waiting inside Pop()
    "do"     running task->Do()           "post"   before sem_thread->Post()
    "none"   not created                  "exit"   left the loop
  Tasks end and do not throw (an exception out of Do() ends the process).
*)
EXTENDS Semaphore, WaitableQueue, Sequences, FiniteSets

CONSTANTS Workers,    \* every thread the operating system can give the pool
          Initial,    \* those the constructor creates
          Sizes,      \* the arguments SetNumOfThreads is called with
          Garbage,    \* what an uninitialised m_threadRealSize may hold
          NoThread,   \* a std::thread that represents no thread
          NoTask

ASSUME PoolAssumption ==
    /\ IsFiniteSet(Workers)
    /\ Initial \subseteq Workers
    /\ NoThread \notin Workers
    /\ NoTask \notin Tasks
    /\ Sizes \subseteq Nat
    /\ Garbage \subseteq Int /\ Garbage # {}

VARIABLES
    m_threads,        \* the vector, a sequence of Workers and NoThread
    m_stopFlag,
    m_pauseFlag,
    m_threadRealSize, \* not initialised by the constructor
    pc,               \* the program point of each worker
    held,             \* the task a worker popped and is running
    finished,         \* the tasks whose Do() returned
    main,             \* where the client is
    idx,              \* Stop: the loop index. SetNumOfThreads: vectorSize
    dtor,             \* the Stop under way is the destructor's
    result            \* how the last call of the client ended

workerVars == <<pc, held, finished>>
flagVars == <<m_stopFlag, m_pauseFlag, m_threadRealSize>>
mainVars == <<m_threads, main, idx, dtor, result>>
vars == <<semVars, queueVars, workerVars, flagVars, mainVars>>

Locations == {"none", "test", "wait", "inWait", "peek", "pop", "inPop",
              "do", "post", "exit"}

Slots == {m_threads[i] : i \in DOMAIN m_threads}

Joinable == Slots \ {NoThread}

\* The workers between Wait() and Post(): each holds one unit of m_count.
Holders == {w \in Workers : pc[w] \in {"peek", "pop", "inPop", "do", "post"}}

Tokens == m_count + Cardinality(Holders)

-----------------------------------------------------------------------------

\* The state the constructor leaves: its threads exist and none has run yet.
Init ==
    /\ SemInit(0)
    /\ QueueInit
    /\ m_threads \in [1 .. Cardinality(Initial) -> Initial]
    /\ Slots = Initial
    /\ m_stopFlag = FALSE
    /\ m_pauseFlag = TRUE
    /\ m_threadRealSize \in Garbage
    /\ pc = [w \in Workers |-> IF w \in Initial THEN "test" ELSE "none"]
    /\ held = [w \in Workers |-> NoTask]
    /\ finished = {}
    /\ main = "ready"
    /\ idx = 0
    /\ dtor = FALSE
    /\ result = "ok"

-----------------------------------------------------------------------------
(* The worker threads. std::terminate ("aborted") ends them all where they are. *)

At(w, location) == main # "aborted" /\ pc[w] = location

CheckStop(w) ==
    /\ At(w, "test")
    /\ pc' = [pc EXCEPT ![w] = IF m_stopFlag THEN "exit" ELSE "wait"]
    /\ UNCHANGED <<semVars, queueVars, held, finished, flagVars, mainVars>>

\* Wait() tests the count when it is called and after every wake-up.
WaitReturns(w) ==
    /\ At(w, "wait") \/ (At(w, "inWait") /\ w \in sem_woken)
    /\ SemAcquire(w)
    /\ pc' = [pc EXCEPT ![w] = "peek"]
    /\ UNCHANGED <<queueVars, held, finished, flagVars, mainVars>>

WaitSleeps(w) ==
    /\ At(w, "wait") \/ (At(w, "inWait") /\ w \in sem_woken)
    /\ SemBlock(w)
    /\ pc' = [pc EXCEPT ![w] = "inWait"]
    /\ UNCHANGED <<queueVars, held, finished, flagVars, mainVars>>

\* Slip: a task is run that was not popped.
PeekOnly(w) ==
    /\ At(w, "peek")
    /\ pc' = [pc EXCEPT ![w] = IF IsEmpty THEN "post" ELSE "do"]
    /\ UNCHANGED <<semVars, queueVars, held, finished, flagVars, mainVars>>

\* IsEmpty() and Pop() take the queue's mutex one after the other: what the
\* first saw may be gone when the second looks.
Peek(w) ==
    /\ At(w, "peek")
    /\ pc' = [pc EXCEPT ![w] = IF IsEmpty THEN "post" ELSE "pop"]
    /\ UNCHANGED <<semVars, queueVars, held, finished, flagVars, mainVars>>

PopReturns(w) ==
    /\ At(w, "pop") \/ (At(w, "inPop") /\ w \in pop_woken)
    /\ \E t \in Tasks : PopTake(w, t) /\ held' = [held EXCEPT ![w] = t]
    /\ pc' = [pc EXCEPT ![w] = "do"]
    /\ UNCHANGED <<semVars, finished, flagVars, mainVars>>

PopSleeps(w) ==
    /\ At(w, "pop") \/ (At(w, "inPop") /\ w \in pop_woken)
    /\ PopBlock(w)
    /\ pc' = [pc EXCEPT ![w] = "inPop"]
    /\ UNCHANGED <<semVars, held, finished, flagVars, mainVars>>

FinishTask(w) ==
    /\ At(w, "do")
    /\ finished' = finished \cup {held[w]}
    /\ held' = [held EXCEPT ![w] = NoTask]
    /\ pc' = [pc EXCEPT ![w] = "post"]
    /\ UNCHANGED <<semVars, queueVars, flagVars, mainVars>>

PostToken(w) ==
    /\ At(w, "post")
    /\ SemPost
    /\ pc' = [pc EXCEPT ![w] = "test"]
    /\ UNCHANGED <<queueVars, held, finished, flagVars, mainVars>>

ThreadRoutine(w) ==
    \/ CheckStop(w)  \/ WaitReturns(w) \/ WaitSleeps(w) \/ Peek(w)
    \/ PopReturns(w) \/ PopSleeps(w)   \/ FinishTask(w) \/ PostToken(w)

SpuriousWake(w) ==
    /\ \/ At(w, "inWait") /\ SemSpurious(w) /\ UNCHANGED queueVars
       \/ At(w, "inPop") /\ PopSpurious(w) /\ UNCHANGED semVars
    /\ UNCHANGED <<workerVars, flagVars, mainVars>>

-----------------------------------------------------------------------------
(* The client thread. A store to an atomic flag and the Set() that follows it
   are one step: no worker can tell them from two. *)

\* Slip: a Stop() that gave up reports success.
ReturnSuccess(r) ==
    /\ main' = "ready"
    /\ result' = IF r = "false" THEN "true" ELSE r
    /\ idx' = 0
    /\ UNCHANGED dtor

Return(r) ==
    /\ main' = "ready"
    /\ result' = r
    /\ idx' = 0
    /\ UNCHANGED dtor

\* A task object is added once; the pool accepts it in any state, stopped or not.
\* (When the heap's vector cannot grow, push throws and nothing has changed.)
AddTask(t) ==
    /\ main = "ready"
    /\ t \notin m_queue \cup finished /\ \A w \in Workers : held[w] # t
    /\ Push(t)
    /\ Return("ok")
    /\ UNCHANGED <<semVars, workerVars, flagVars, m_threads>>

Run ==
    /\ main = "ready"
    /\ m_pauseFlag' = FALSE
    /\ SemSet(m_threadRealSize)
    /\ Return("ok")
    /\ UNCHANGED <<queueVars, workerVars, m_stopFlag, m_threadRealSize, m_threads>>

\* The workers that hold a unit when Pause() clears the count post it later.
Pause ==
    /\ main = "ready"
    /\ SemSet(0)
    /\ m_pauseFlag' = TRUE
    /\ Return("ok")
    /\ UNCHANGED <<queueVars, workerVars, m_stopFlag, m_threadRealSize, m_threads>>

\* Slip: the test of m_pauseFlag is dropped.
SetNumOfThreadsAlways(num) ==
    /\ main = "ready"
    /\ num <= Len(m_threads)
    /\ m_threadRealSize' = num
    /\ SemSet(num)
    /\ Return("ok")
    /\ UNCHANGED <<queueVars, workerVars, m_stopFlag, m_pauseFlag, m_threads>>

\* num_ <= vectorSize: threads are kept, only the number of units changes.
SetNumOfThreads(num) ==
    /\ main = "ready"
    /\ num <= Len(m_threads)
    /\ m_threadRealSize' = num
    /\ IF m_pauseFlag THEN UNCHANGED semVars ELSE SemSet(num)
    /\ Return("ok")
    /\ UNCHANGED <<queueVars, workerVars, m_stopFlag, m_pauseFlag, m_threads>>

\* num_ > vectorSize: resize() adds empty slots, then the loop starts.
GrowBegin(num) ==
    /\ main = "ready"
    /\ num > Len(m_threads)
    /\ m_threadRealSize' = num
    /\ m_threads' = m_threads \o [i \in 1 .. num - Len(m_threads) |-> NoThread]
    /\ main' = "grow"
    /\ idx' = Len(m_threads)
    /\ result' = "ok"
    /\ UNCHANGED <<semVars, queueVars, workerVars, m_stopFlag, m_pauseFlag, dtor>>

\* Its resize() throws: the handler sets the count even when the pool is paused.
GrowNoMemory(num) ==
    /\ main = "ready"
    /\ num > Len(m_threads)
    /\ m_threadRealSize' = num
    /\ SemSet(Len(m_threads))
    /\ Return("ThreadPoolBadAlloc")
    /\ UNCHANGED <<queueVars, workerVars, m_stopFlag, m_pauseFlag, m_threads>>

\* One turn of the loop. It pushes a slot and i grows by one, so i never
\* reaches m_threads.size(): no turn is the last.
GrowPush(w) ==
    /\ main = "grow"
    /\ pc[w] = "none"
    /\ m_threads' = Append(m_threads, w)
    /\ pc' = [pc EXCEPT ![w] = "test"]
    /\ UNCHANGED <<semVars, queueVars, held, finished, flagVars, main, idx, dtor, result>>

\* The system has no thread left: std::system_error, which nothing catches.
GrowNoThread ==
    /\ main = "grow"
    /\ \A w \in Workers : pc[w] # "none"
    /\ Return("system_error")
    /\ UNCHANGED <<semVars, queueVars, workerVars, flagVars, m_threads>>

\* bad_alloc in the loop. To destroy a joinable thread is std::terminate: that
\* is what becomes of the new thread when push_back() has no room for it, and of
\* those past vectorSize when the handler's resize() drops their slots.
GrowRollback ==
    /\ main = "grow"
    /\ \/ /\ \/ \E w \in Workers : pc[w] = "none"
             \/ \E i \in DOMAIN m_threads : i > idx /\ m_threads[i] # NoThread
          /\ main' = "aborted"
          /\ UNCHANGED <<semVars, m_threads, idx, dtor, result>>
       \/ /\ \A i \in DOMAIN m_threads : i > idx => m_threads[i] = NoThread
          /\ m_threads' = SubSeq(m_threads, 1, idx)
          /\ SemSet(idx)
          /\ Return("ThreadPoolBadAlloc")
    /\ UNCHANGED <<queueVars, workerVars, flagVars>>

\* Stop(timeout_), called by the client or, with 0, by the destructor.
StopBegin(isDtor) ==
    /\ main = "ready"
    /\ m_stopFlag' = TRUE
    /\ SemSet(Len(m_threads))
    /\ main' = "stop"
    /\ idx' = 1
    /\ dtor' = isDtor
    /\ result' = "ok"
    /\ UNCHANGED <<queueVars, workerVars, m_pauseFlag, m_threadRealSize, m_threads>>

\* The deadline is looked at before each thread, never while joining it.
StopTimeout ==
    /\ main = "stop"
    /\ idx \in DOMAIN m_threads
    /\ IF dtor
         THEN /\ main' = IF Joinable = {} THEN "destroyed" ELSE "aborted"
              /\ UNCHANGED <<idx, dtor, result>>
         ELSE Return("false")
    /\ UNCHANGED <<semVars, queueVars, workerVars, flagVars, m_threads>>

StopLooks ==
    /\ main = "stop"
    /\ idx \in DOMAIN m_threads
    /\ IF m_threads[idx] = NoThread
         THEN idx' = idx + 1 /\ UNCHANGED main
         ELSE main' = "join" /\ UNCHANGED idx
    /\ UNCHANGED <<semVars, queueVars, workerVars, flagVars, m_threads, dtor, result>>

JoinReturns ==
    /\ main = "join"
    /\ pc[m_threads[idx]] = "exit"
    /\ m_threads' = [m_threads EXCEPT ![idx] = NoThread]
    /\ idx' = idx + 1
    /\ main' = "stop"
    /\ UNCHANGED <<semVars, queueVars, workerVars, flagVars, dtor, result>>

StopEnds ==
    /\ main = "stop"
    /\ idx > Len(m_threads)
    /\ IF dtor
         THEN main' = "destroyed" /\ UNCHANGED <<idx, dtor, result>>
         ELSE Return("true")
    /\ UNCHANGED <<semVars, queueVars, workerVars, flagVars, m_threads>>

\* What the client does on its own once a call has begun.
CallStep ==
    \/ \E w \in Workers : GrowPush(w)
    \/ GrowNoThread
    \/ StopLooks
    \/ JoinReturns
    \/ StopEnds

Client ==
    \/ \E t \in Tasks : AddTask(t)
    \/ Run
    \/ Pause
    \/ \E num \in Sizes : SetNumOfThreads(num) \/ GrowBegin(num) \/ GrowNoMemory(num)
    \/ GrowRollback
    \/ \E isDtor \in BOOLEAN : StopBegin(isDtor)
    \/ StopTimeout
    \/ CallStep

Next ==
    \/ Client
    \/ \E w \in Workers : ThreadRoutine(w) \/ SpuriousWake(w)

Spec == Init /\ [][Next]_vars

\* The scheduler runs every thread that can run; nothing obliges the client to
\* make another call, the deadline to pass, memory to fail or a wake-up to be
\* spurious.
Fairness ==
    /\ \A w \in Workers : WF_vars(ThreadRoutine(w))
    /\ WF_vars(CallStep)

FairSpec == Spec /\ Fairness

=============================================================================
