--------------------------- MODULE WaitableQueue ---------------------------
(*
  framework/include/waitable_queue.hpp over PriorityQueue, the instance the
  thread pool uses. The heap is abstracted to the set of its entries: its
  order only decides which entry front() shows, and among entries of equal
  priority a binary heap promises nothing, so any of them may come out.
  As in Semaphore, a call is one step under m_queue_guard, and a blocking
  Pop is split where it waits.
*)
EXTENDS Naturals, FiniteSets, CondVar

CONSTANTS Tasks,   \* the entries the queue may ever hold
          Rank     \* the priority of each: a smaller value leaves first

ASSUME RankAssumption == Rank \in [Tasks -> Nat]

VARIABLES m_queue,     \* the entries now in the queue
          pop_blocked, \* threads asleep in m_can_op.wait
          pop_woken    \* threads signalled, that have not looked yet

queueVars == <<m_queue, pop_blocked, pop_woken>>

QueueInit ==
    /\ m_queue = {}
    /\ pop_blocked = {}
    /\ pop_woken = {}

IsEmpty == m_queue = {}

\* Slip: the comparison is the other way round.
FrontReversed == {t \in m_queue : \A u \in m_queue : Rank[t] >= Rank[u]}

\* CmpPriority orders by "greater", so front() is an entry of least rank.
Front == {t \in m_queue : \A u \in m_queue : Rank[t] <= Rank[u]}

\* Slip: the notification is forgotten.
PushSilently(t) ==
    /\ m_queue' = m_queue \cup {t}
    /\ UNCHANGED <<pop_blocked, pop_woken>>

Push(t) ==
    /\ m_queue' = m_queue \cup {t}
    /\ \E W \in NotifyOne(pop_blocked) :
        /\ pop_blocked' = pop_blocked \ W
        /\ pop_woken' = pop_woken \cup W

\* Slip: pop() is called a second time.
PopTakeTwice(w, t) ==
    /\ t \in Front
    /\ \E u \in m_queue : m_queue' = m_queue \ {t, u}
    /\ pop_woken' = pop_woken \ {w}
    /\ UNCHANGED pop_blocked

PopTake(w, t) ==
    /\ t \in Front
    /\ m_queue' = m_queue \ {t}
    /\ pop_woken' = pop_woken \ {w}
    /\ UNCHANGED pop_blocked

PopBlock(w) ==
    /\ IsEmpty
    /\ pop_blocked' = pop_blocked \cup {w}
    /\ pop_woken' = pop_woken \ {w}
    /\ UNCHANGED m_queue

PopSpurious(w) ==
    /\ w \in pop_blocked
    /\ pop_blocked' = pop_blocked \ {w}
    /\ pop_woken' = pop_woken \cup {w}
    /\ UNCHANGED m_queue

\* While a thread sleeps in Pop(), all entries but that many have a woken thread
\* of their own on the way to take them.
Announced(all_but) ==
    pop_blocked # {} => Cardinality(m_queue) <= Cardinality(pop_woken) + all_but

=============================================================================
