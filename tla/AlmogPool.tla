------------------------------ MODULE AlmogPool ------------------------------
(*
  framework/src/thread_pool_almog.cpp, the other implementation of the pool.
  It has no flag for a pause: a worker is parked by a task of the highest
  priority (a WaitTask) whose Do() waits on the one global semaphore
  g_semThreads, and is made to look at m_shouldStop by a task that does nothing
  (a WakeTask). Both kinds travel through the queue of the user's tasks.

  A worker is at one of the program points
    "test"   the loop condition           "pop"    before Pop()
    "inPop"  waiting inside Pop()         "do"     inside Do() of a user's task
    "wait"   inside Do() of a WaitTask    "inWait" asleep there
    "none"   not created                  "exit"   left the loop

  CmpPriority compares with ">=" (thread_pool_almog.hpp:119), which is not a
  strict weak order, as std::priority_queue requires. The binary heap of
  libstdc++ still keeps at its front an entry that none precedes, any among
  equals, and that is all Front of WaitableQueue says.
*)
EXTENDS Semaphore, WaitableQueue, Sequences, FiniteSets

CONSTANTS Workers,    \* every thread the operating system can give the pool
          Initial,    \* those the constructor creates
          Waits,      \* the WaitTask entries that can be queued at a time
          Wakes,      \* the WakeTask entries that can be queued at a time
          Sizes,      \* the arguments SetNumOfThreads is called with
          NoThread,   \* a std::thread that represents no thread
          NoTask

UserTasks == Tasks \ (Waits \cup Wakes)

\* MASTER_P is the least value of the enumeration, and no user's task has it.
ASSUME AlmogAssumption ==
    /\ IsFiniteSet(Workers) /\ IsFiniteSet(Tasks)
    /\ Initial \subseteq Workers
    /\ Waits \cup Wakes \subseteq Tasks /\ Waits \cap Wakes = {}
    /\ Cardinality(Initial) <= Cardinality(Waits)
    /\ \A e \in Waits \cup Wakes : \A t \in UserTasks : Rank[e] < Rank[t]
    /\ NoThread \notin Workers /\ NoTask \notin Tasks
    /\ Sizes \subseteq Nat

VARIABLES
    m_threads,     \* the vector, a sequence of Workers and NoThread
    m_actual,      \* m_actoualNumsOfThreads
    m_isRunning,
    m_shouldStop,
    pc,            \* the program point of each worker
    held,          \* the user's task a worker is running
    finished,      \* the user's tasks whose Do() has ended
    main,          \* where the client is
    call,          \* the call it made last
    left,          \* turns its loop has still to make; in "join", the index
    unbalanced     \* history: see Disturbs

workerVars == <<pc, held, finished>>
sizeVars == <<m_threads, m_actual>>
flagVars == <<m_isRunning, m_shouldStop, unbalanced>>
mainVars == <<main, call, left>>
vars == <<semVars, queueVars, workerVars, sizeVars, flagVars, mainVars>>

Locations == {"none", "test", "pop", "inPop", "do", "wait", "inWait", "exit"}

Slots == {m_threads[i] : i \in DOMAIN m_threads}

\* The workers that are neither parked nor gone: the next task may be theirs.
Free == {w \in Workers : pc[w] \in {"test", "pop", "inPop", "do"}}

\* The state the constructor leaves: one WaitTask for each thread it created.
Init ==
    /\ SemInit(0)
    /\ m_queue \in {Q \in SUBSET Waits : Cardinality(Q) = Cardinality(Initial)}
    /\ pop_blocked = {} /\ pop_woken = {}
    /\ m_threads \in [1 .. Cardinality(Initial) -> Initial]
    /\ Slots = Initial
    /\ m_actual = Cardinality(Initial)
    /\ m_isRunning = FALSE /\ m_shouldStop = FALSE /\ unbalanced = FALSE
    /\ pc = [w \in Workers |-> IF w \in Initial THEN "test" ELSE "none"]
    /\ held = [w \in Workers |-> NoTask]
    /\ finished = {}
    /\ main = "ready" /\ call = "none" /\ left = 0

-----------------------------------------------------------------------------
(* The worker threads: RunThreads. std::terminate ends them where they are. *)

At(w, location) == main # "aborted" /\ pc[w] = location

Goes(w, location) == pc' = [pc EXCEPT ![w] = location]

clientVars == <<sizeVars, flagVars, mainVars>>

CheckStop(w) ==
    /\ At(w, "test")
    /\ Goes(w, IF m_shouldStop THEN "exit" ELSE "pop")
    /\ UNCHANGED <<semVars, queueVars, held, finished, clientVars>>

\* Do() of a WakeTask is empty.
PopReturns(w) ==
    /\ At(w, "pop") \/ (At(w, "inPop") /\ w \in pop_woken)
    /\ \E t \in Tasks :
         /\ PopTake(w, t)
         /\ Goes(w, IF t \in Waits THEN "wait" ELSE IF t \in Wakes THEN "test" ELSE "do")
         /\ held' = [held EXCEPT ![w] = IF t \in UserTasks THEN t ELSE NoTask]
    /\ UNCHANGED <<semVars, finished, clientVars>>

PopSleeps(w) ==
    /\ At(w, "pop") \/ (At(w, "inPop") /\ w \in pop_woken)
    /\ PopBlock(w)
    /\ Goes(w, "inPop")
    /\ UNCHANGED <<semVars, held, finished, clientVars>>

\* Do() returns or throws. The handler of RunThreads ends the thread for a
\* runtime_error; nothing catches what is not one.
FinishTask(w) ==
    /\ At(w, "do")
    /\ \/ /\ finished' = finished \cup {held[w]}
          /\ held' = [held EXCEPT ![w] = NoTask]
          /\ \E location \in {"test", "exit"} : Goes(w, location)
          /\ UNCHANGED main
       \/ main' = "aborted" /\ UNCHANGED workerVars
    /\ UNCHANGED <<semVars, queueVars, sizeVars, flagVars, call, left>>

\* A WaitTask takes a unit of the semaphore and gives none back.
Unparks(w) ==
    /\ At(w, "wait") \/ (At(w, "inWait") /\ w \in sem_woken)
    /\ SemAcquire(w)
    /\ Goes(w, "test")
    /\ UNCHANGED <<queueVars, held, finished, clientVars>>

Parks(w) ==
    /\ At(w, "wait") \/ (At(w, "inWait") /\ w \in sem_woken)
    /\ SemBlock(w)
    /\ Goes(w, "inWait")
    /\ UNCHANGED <<queueVars, held, finished, clientVars>>

RunThreads(w) ==
    CheckStop(w) \/ PopReturns(w) \/ PopSleeps(w) \/ FinishTask(w) \/ Unparks(w) \/ Parks(w)

SpuriousWake(w) ==
    /\ \/ At(w, "inWait") /\ SemSpurious(w) /\ UNCHANGED queueVars
       \/ At(w, "inPop") /\ PopSpurious(w) /\ UNCHANGED semVars
    /\ UNCHANGED <<workerVars, clientVars>>

-----------------------------------------------------------------------------
(* The client *)

\* The calls after which a pool may have more free workers than its own
\* accounts (the queued WaitTasks and m_actual) say: Run() of a running pool, a
\* growth of a paused one, and a SetNumOfThreads that an exception ended.
Disturbs(happens) == unbalanced' = (unbalanced \/ happens)

Begins(name, loop, turns) == main = "ready" /\ main' = loop /\ call' = name /\ left' = turns

Returns == main' = "ready" /\ left' = 0 /\ UNCHANGED call

AddTask(t) ==
    /\ main = "ready"
    /\ t \in UserTasks \ (m_queue \cup finished) /\ \A w \in Workers : held[w] # t
    /\ Push(t)
    /\ UNCHANGED <<semVars, workerVars, clientVars>>

Run ==
    /\ Begins("Run", "ready", 0)
    /\ m_isRunning' = TRUE
    /\ SemSet(m_actual)
    /\ Disturbs(m_isRunning)
    /\ UNCHANGED <<queueVars, workerVars, sizeVars, m_shouldStop>>

\* Slip: the loop starts at one.
TurnsFromOne(num) == IF num = 0 THEN 0 ELSE num - 1

\* for (int i = 0; i < num; ++i), of AddWaitTasks and of WakeThemUp.
Turns(num) == num

\* Enough entries are at hand for a loop of that many turns (the model's bound).
Room(entries, turns) == turns <= Cardinality(entries \ m_queue)

\* A pool that does not run is left alone.
Pause ==
    /\ m_isRunning
    /\ Room(Waits, m_actual)
    /\ SemSet(0)
    /\ Begins("Pause", "waits", Turns(m_actual))
    /\ UNCHANGED <<queueVars, workerVars, sizeVars, flagVars>>

\* The threads to park when num are to stay.
Surplus(num) == Len(m_threads) - num

SetNumOfThreads(num) ==
    /\ m_actual' = num
    /\ IF num > Len(m_threads)
         THEN Begins("Grow", "grow", num - Len(m_threads))
         ELSE Room(Waits, Surplus(num)) /\ Begins("Shrink", "waits", Turns(Surplus(num)))
    /\ Disturbs(num > Len(m_threads) /\ ~m_isRunning)
    /\ UNCHANGED <<semVars, queueVars, workerVars, m_threads, m_isRunning, m_shouldStop>>

\* Stop(), Stop(timeout_) and the Stop() of the destructor.
Stop(name) ==
    /\ name \in {"Stop", "StopTimed"} \/ (name = "~ThreadPool" /\ ~m_shouldStop)
    /\ Room(Wakes, Len(m_threads))
    /\ m_shouldStop' = TRUE
    /\ SemSet(Len(m_threads))
    /\ Begins(name, "wakes", Turns(Len(m_threads)))
    /\ UNCHANGED <<queueVars, workerVars, sizeVars, m_isRunning, unbalanced>>

\* The destructor of a pool already stopped: to destroy a joinable thread is
\* std::terminate.
DestroyStopped ==
    /\ m_shouldStop
    /\ Begins("~ThreadPool", IF Slots \subseteq {NoThread} THEN "destroyed" ELSE "aborted", 0)
    /\ UNCHANGED <<semVars, queueVars, workerVars, sizeVars, flagVars>>

\* One turn of AddWaitTasks or WakeThemUp.
PushOne(entries, loop) ==
    /\ main = loop /\ left > 0
    /\ entries \ m_queue # {}
    /\ Push(CHOOSE e \in entries : e \notin m_queue)
    /\ left' = left - 1
    /\ UNCHANGED <<semVars, workerVars, sizeVars, flagVars, main, call>>

GrowPush(w) ==
    /\ main = "grow" /\ left > 0
    /\ pc[w] = "none"
    /\ m_threads' = Append(m_threads, w)
    /\ Goes(w, "test")
    /\ left' = left - 1
    /\ UNCHANGED <<semVars, queueVars, held, finished, m_actual, flagVars, main, call>>

LoopEnds ==
    /\ left = 0
    /\ \/ main \in {"waits", "grow"} /\ Returns
       \/ main = "wakes" /\ main' = "join" /\ left' = 1 /\ UNCHANGED call
    /\ m_isRunning' = (m_isRunning /\ ~(main = "waits" /\ call = "Pause"))
    /\ UNCHANGED <<semVars, queueVars, workerVars, sizeVars, m_shouldStop, unbalanced>>

\* A turn of a loop throws (no memory, or no thread). Out of the destructor, or
\* with a thread just made that has no slot, that is std::terminate.
TurnThrows ==
    /\ main \in {"waits", "wakes", "grow"} /\ left > 0
    /\ \/ call # "~ThreadPool" /\ Returns
       \/ /\ call = "~ThreadPool" \/ (main = "grow" /\ \E w \in Workers : pc[w] = "none")
          /\ main' = "aborted" /\ UNCHANGED <<call, left>>
    /\ Disturbs(call \in {"Grow", "Shrink"})
    /\ UNCHANGED <<semVars, queueVars, workerVars, sizeVars, m_isRunning, m_shouldStop>>

JoinReturns ==
    /\ main = "join" /\ left \in DOMAIN m_threads
    /\ m_threads[left] # NoThread /\ pc[m_threads[left]] = "exit"
    /\ m_threads' = [m_threads EXCEPT ![left] = NoThread]
    /\ left' = left + 1
    /\ UNCHANGED <<semVars, queueVars, workerVars, m_actual, flagVars, main, call>>

\* To join a thread a second time is std::system_error.
JoinThrows ==
    /\ main = "join" /\ left \in DOMAIN m_threads
    /\ m_threads[left] = NoThread
    /\ Returns
    /\ UNCHANGED <<semVars, queueVars, workerVars, sizeVars, flagVars>>

\* The deadline is looked at before each join, never during one.
StopTimeout ==
    /\ main = "join" /\ left \in DOMAIN m_threads
    /\ call = "StopTimed"
    /\ Returns
    /\ UNCHANGED <<semVars, queueVars, workerVars, sizeVars, flagVars>>

StopEnds ==
    /\ main = "join" /\ left > Len(m_threads)
    /\ main' = IF call = "~ThreadPool" THEN "destroyed" ELSE "ready"
    /\ left' = 0
    /\ UNCHANGED <<semVars, queueVars, workerVars, sizeVars, flagVars, call>>

\* What the client does on its own once a call has begun.
CallStep ==
    \/ PushOne(Waits, "waits") \/ PushOne(Wakes, "wakes")
    \/ \E w \in Workers : GrowPush(w)
    \/ LoopEnds \/ JoinReturns \/ JoinThrows \/ StopEnds

Client ==
    \/ \E t \in Tasks : AddTask(t)
    \/ Run \/ Pause
    \/ \E num \in Sizes : SetNumOfThreads(num)
    \/ \E name \in {"Stop", "StopTimed", "~ThreadPool"} : Stop(name)
    \/ DestroyStopped \/ StopTimeout \/ TurnThrows
    \/ CallStep

Next ==
    \/ Client
    \/ \E w \in Workers : RunThreads(w) \/ SpuriousWake(w)

Spec == Init /\ [][Next]_vars

\* As for ThreadPool: every thread that can run does, and a call goes on.
FairSpec == Spec /\ (\A w \in Workers : WF_vars(RunThreads(w))) /\ WF_vars(CallStep)

=============================================================================
