----------------------------- MODULE Semaphore -----------------------------
(*
  framework/include/semaphore.hpp. Every operation runs under m_mutex, so
  each is one step, except Wait(), which releases the mutex while it is
  blocked: it is the steps SemBlock (the condition is false) and SemAcquire
  (the condition holds, at the first test or after a wake-up).
*)
EXTENDS Integers, CondVar

VARIABLES m_count,      \* the atomic<int>; Set() may store any value
          sem_blocked,  \* threads asleep in m_cv.wait
          sem_woken     \* threads signalled, that have not tested m_count yet

semVars == <<m_count, sem_blocked, sem_woken>>

SemInit(count) ==
    /\ m_count = count
    /\ sem_blocked = {}
    /\ sem_woken = {}

\* Notify one waiter of m_cv, if there is one.
SemNotify ==
    \E W \in NotifyOne(sem_blocked) :
        /\ sem_blocked' = sem_blocked \ W
        /\ sem_woken' = sem_woken \cup W

\* Slip: the waiter that got a unit stays in the wait set.
SemAcquireStays(t) ==
    /\ m_count > 0
    /\ m_count' = m_count - 1
    /\ UNCHANGED <<sem_blocked, sem_woken>>

SemAcquire(t) ==
    /\ m_count > 0
    /\ m_count' = m_count - 1
    /\ sem_woken' = sem_woken \ {t}
    /\ UNCHANGED sem_blocked

SemBlock(t) ==
    /\ m_count <= 0
    /\ sem_blocked' = sem_blocked \cup {t}
    /\ sem_woken' = sem_woken \ {t}
    /\ UNCHANGED m_count

\* Slip: the notification is forgotten.
SemPostSilently ==
    /\ m_count' = m_count + 1
    /\ UNCHANGED <<sem_blocked, sem_woken>>

SemPost ==
    /\ m_count' = m_count + 1
    /\ SemNotify

\* Set() announces one change of m_count to one waiter, whatever num is.
SemSet(num) ==
    /\ m_count' = num
    /\ SemNotify

SemSpurious(t) ==
    /\ t \in sem_blocked
    /\ sem_blocked' = sem_blocked \ {t}
    /\ sem_woken' = sem_woken \cup {t}
    /\ UNCHANGED m_count

=============================================================================
