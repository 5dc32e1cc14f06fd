------------------------ MODULE ThreadPoolProperties ------------------------
(* What ThreadPool promises, and what its comments and tests say it promises. *)
EXTENDS ThreadPool

\* The types of the state, and the range of the loop index.
TypeOK ==
    /\ m_count \in Int
    /\ m_queue \subseteq Tasks
    /\ m_threads \in Seq(Workers \cup {NoThread})
    /\ m_stopFlag \in BOOLEAN /\ m_pauseFlag \in BOOLEAN /\ dtor \in BOOLEAN
    /\ m_threadRealSize \in Int
    /\ pc \in [Workers -> Locations]
    /\ held \in [Workers -> Tasks \cup {NoTask}]
    /\ finished \subseteq Tasks
    /\ main \in {"ready", "grow", "stop", "join", "destroyed", "aborted"}
    /\ idx \in Nat
    /\ main = "grow" => idx <= Len(m_threads)
    /\ main = "stop" => idx \in 1 .. Len(m_threads) + 1
    /\ main = "join" => idx \in DOMAIN m_threads
    /\ result \in {"ok", "true", "false", "ThreadPoolBadAlloc", "system_error"}

\* The wait sets of the two condition variables are the workers inside the two
\* waits, each on one side only; a worker holds a task exactly inside Do().
WaitSetsOK ==
    /\ sem_blocked \cup sem_woken = {w \in Workers : pc[w] = "inWait"}
    /\ sem_blocked \cap sem_woken = {}
    /\ pop_blocked \cup pop_woken = {w \in Workers : pc[w] = "inPop"}
    /\ pop_blocked \cap pop_woken = {}
    /\ \A w \in Workers : held[w] # NoTask <=> pc[w] = "do"

\* A worker that will come to Post() on its own, without another thread's help.
WillPost(w) ==
    \/ pc[w] \in {"peek", "do", "post"}
    \/ m_queue # {} /\ (pc[w] = "pop" \/ w \in pop_woken)

\* Set() and Post() wake one waiter however many may pass. That is enough only
\* because whoever passes posts again: while the count is positive and a worker
\* sleeps in Semaphore::Wait, another is on its way to test the count or to post
\* it. Otherwise Run() would leave workers asleep on a positive count.
NoStall ==
    m_count > 0 /\ sem_blocked # {} =>
        sem_woken # {} \/ \E w \in Workers : WillPost(w)

\* Push() notifies one popper. While some worker sleeps in Pop(), every queued
\* task has a woken worker coming for it, whatever other workers take before:
\* a worker stranded by the IsEmpty()/Pop() race never sleeps beside a task.
NoLostTaskWakeup == Announced(0)

\* Pause() leaves no unit but those the workers hold at that moment, which they
\* post back, and a paused pool gains none: whoever passes the semaphore uses one
\* of these, whatever tasks are added and whatever SetNumOfThreads() is told.
\* Excused: Stop(), and a failed allocation, whose handler sets the count.
PausedAddsNoUnit ==
    [][m_pauseFlag' /\ ~m_stopFlag' /\ result' # "ThreadPoolBadAlloc"
         => Tokens' <= IF m_pauseFlag THEN Tokens ELSE Cardinality(Holders)]_vars

\* When Stop() has returned true, and when the destructor has run, every thread
\* the pool ever started has left its routine: none touches the queue again.
QuietAfterStop ==
    result = "true" \/ main = "destroyed" =>
        \A w \in Workers : pc[w] \in {"none", "exit"}

Promise == INSTANCE TaskPool WITH pending <- m_queue, running <- held

\* The pool implements the abstract one: no task is lost, run twice or run
\* while a task of lower rank waits in the queue, whatever the races and calls.
ImplementsTaskPool == Promise!Spec

\* A task is queued, running on one worker or finished, never two of these: no
\* race of Pop() with Pop() hands it to two workers or runs it again.
TaskInOnePlace == Promise!OnePlace

-----------------------------------------------------------------------------

\* A queued task is taken as long as there is a thread, a unit for it and no
\* call to Stop(): neither a worker stranded in Pop() nor the one notification
\* of Set() may keep it waiting for ever.
WorkProceeds ==
    \A t \in Tasks :
        t \in m_queue ~> \/ t \notin m_queue
                         \/ Tokens <= 0
                         \/ m_stopFlag
                         \/ main = "aborted"
                         \/ Joinable = {}

\* A join of Stop() ends unless some worker sleeps in Pop(): the units Stop()
\* sets reach every thread asleep in the semaphore, one Post() after another.
StopEndsUnlessStranded ==
    main = "join" ~> main # "join" \/ pop_blocked # {}

-----------------------------------------------------------------------------
(* What the repository says, and the code does not do. *)

\* "Pause the thread pool" (thread_pool_test.cpp:66): once Pause() has returned
\* and the tasks then under way have ended, no worker takes up new work.
PauseHolds ==
    [][m_pauseFlag /\ ~m_stopFlag /\ result # "ThreadPoolBadAlloc" /\ Holders = {} => Holders' = {}]_vars

\* "Stop the thread pool after a delay" (thread_pool_test.cpp:69), with the
\* answer of Stop() printed: a Stop() that begins to join a thread ends.
StopReturns == main = "join" ~> main # "join"

=============================================================================
