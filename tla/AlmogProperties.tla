--------------------------- MODULE AlmogProperties ---------------------------
(* What the other implementation of the pool promises. *)
EXTENDS AlmogPool

\* The types of the state; a worker holds a user's task exactly inside Do().
TypeOK ==
    /\ m_count \in Int
    /\ sem_blocked \cup sem_woken = {w \in Workers : pc[w] = "inWait"}
    /\ sem_blocked \cap sem_woken = {}
    /\ m_queue \subseteq Tasks
    /\ pop_blocked \cup pop_woken = {w \in Workers : pc[w] = "inPop"}
    /\ pop_blocked \cap pop_woken = {}
    /\ m_threads \in Seq(Workers \cup {NoThread})
    /\ m_actual \in Nat /\ left \in Nat
    /\ m_isRunning \in BOOLEAN /\ m_shouldStop \in BOOLEAN /\ unbalanced \in BOOLEAN
    /\ pc \in [Workers -> Locations]
    /\ held \in [Workers -> UserTasks \cup {NoTask}]
    /\ \A w \in Workers : held[w] # NoTask <=> pc[w] = "do"
    /\ finished \subseteq UserTasks
    /\ main \in {"ready", "waits", "wakes", "grow", "join", "destroyed", "aborted"}
    /\ call \in {"none", "Run", "Pause", "Grow", "Shrink", "Stop", "StopTimed", "~ThreadPool"}

Promise == INSTANCE TaskPool WITH
    Tasks <- UserTasks, pending <- m_queue \cap UserTasks, running <- held

\* This pool keeps the same promise as the other: the entries that park and wake
\* workers travel through the queue of the tasks, and still no task is lost, run
\* twice or run while a task of lower rank waits.
ImplementsTaskPool == Promise!Spec

\* The wake-ups of the queue are never fewer than its entries while a worker
\* sleeps in Pop(): the loops that push many entries announce every one.
NoLostTaskWakeup == Announced(0)

Starts(w) == held'[w] # held[w] /\ held'[w] # NoTask

\* A pool that has not been run, or whose Pause() has returned, starts no task:
\* there is a WaitTask in the queue, ahead of every task, for each worker that is
\* still free. (Unless Run() was called on a running pool, a paused one was
\* grown, or a SetNumOfThreads ended with an exception.)
PausedStartsNothing ==
    [][~m_isRunning /\ ~m_shouldStop /\ ~unbalanced => \A w \in Workers : ~Starts(w)]_vars

\* A Stop() that joins comes to an end unless a worker sleeps in the semaphore:
\* Set() wakes one of those, and no unparked worker wakes another.
JoinEndsUnlessParked == main = "join" ~> main # "join" \/ sem_blocked # {}

-----------------------------------------------------------------------------
(* Why PausedStartsNothing holds: the account of the free workers. *)

\* WaitTasks queued, and those a call is pledged to queue before the next one
\* counts on them.
Queued == Cardinality(m_queue \cap Waits)

Pledged ==
    CASE ~m_isRunning -> 0
      [] m_isRunning /\ main = "waits" /\ call = "Pause" -> left
      [] m_isRunning /\ main = "waits" /\ call # "Pause" -> left + m_actual
      [] m_isRunning /\ main = "grow" -> m_actual - left
      [] OTHER -> m_actual

\* Every worker that is free, or that a unit of the semaphore may free, has a
\* WaitTask in the queue or one that Pause() will push.
Balanced ==
    ~m_shouldStop /\ ~unbalanced /\ main # "aborted" =>
        /\ main \in {"ready", "waits", "grow"}
        /\ m_count >= 0
        /\ Cardinality(Free) + m_count <= Queued + Pledged
        /\ main = "ready" => m_actual <= Len(m_threads)
        /\ main = "waits" =>
              /\ call \in {"Pause", "Shrink"}
              /\ m_actual <= Len(m_threads)
              /\ call = "Pause" => m_isRunning /\ left <= m_actual
        /\ main = "grow" => m_isRunning /\ call = "Grow" /\ m_actual = Len(m_threads) + left

=============================================================================
