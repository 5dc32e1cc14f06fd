----------------------------- MODULE TimedQueue -----------------------------
(*
  The waitable queue among threads that call all of its operations, the Pop()
  with a timeout among them: a wait_for in a loop, so that each turn waits for
  the whole timeout again. libstdc++ reads the clock once the mutex is locked
  again, so that a caller which was notified may still be told "timeout".

  A thread is at
    "out"      in no call, or before the first test of its loop
    "pop"      in the wait of Pop(), blocked or woken
    "timed"    in the wait of the timed Pop(), blocked or woken
    "expired"  there, its timeout over
*)
EXTENDS WaitableQueue

CONSTANT Threads

VARIABLES pc,
          missed  \* history: wake-ups used up by callers that gave up beside an
                  \* entry, since the queue was last empty

vars == <<queueVars, pc, missed>>

Init == QueueInit /\ pc = [th \in Threads |-> "out"] /\ missed = 0

Goes(th, location) == pc' = [pc EXCEPT ![th] = location]

Misses(n) == missed' = IF m_queue' = {} THEN 0 ELSE missed + n

\* About to test the loop condition, at the first turn or after a wake-up.
Tests(th, loop) == pc[th] = "out" \/ (pc[th] = loop /\ th \in pop_woken)

CallPush(th, t) ==
    /\ pc[th] = "out" /\ t \notin m_queue
    /\ Push(t)
    /\ Misses(0)
    /\ UNCHANGED pc

\* Either Pop() with an entry at hand; its wait, if any, ended in time.
PopReturns(th) ==
    /\ Tests(th, "pop") \/ Tests(th, "timed")
    /\ \E t \in Tasks : PopTake(th, t)
    /\ Goes(th, "out")
    /\ Misses(0)

\* Either Pop() with none.
PopSleeps(th, loop) ==
    /\ Tests(th, loop)
    /\ PopBlock(th)
    /\ Goes(th, loop)
    /\ Misses(0)

\* Slip: the caller leaves the call and not the wait.
GivesUpStays(th) ==
    /\ pc[th] = "timed" /\ th \in pop_woken
    /\ Goes(th, "out")
    /\ UNCHANGED <<queueVars, missed>>

\* Slip: the loop goes on as long as there is no entry (no "&& success").
GivesUpNever(th) ==
    /\ pc[th] = "expired"
    /\ \/ PopBlock(th) /\ Goes(th, "timed")
       \/ (\E t \in Tasks : PopTake(th, t)) /\ Goes(th, "out")
    /\ Misses(0)

\* wait_for reported a timeout: the call returns false, whatever the queue holds.
GivesUp(th) ==
    /\ pc[th] = "expired" \/ (pc[th] = "timed" /\ th \in pop_woken)
    /\ pop_woken' = pop_woken \ {th}
    /\ Goes(th, "out")
    /\ UNCHANGED <<m_queue, pop_blocked>>
    /\ Misses(IF th \in pop_woken THEN 1 ELSE 0)

\* The timer of a wait_for ends it: no notification reaches the thread any more.
Expires(th) ==
    /\ pc[th] = "timed" /\ th \in pop_blocked
    /\ pop_blocked' = pop_blocked \ {th}
    /\ Goes(th, "expired")
    /\ UNCHANGED <<m_queue, pop_woken, missed>>

SpuriousWake(th) == PopSpurious(th) /\ UNCHANGED <<pc, missed>>

\* Whoever is in a wait.
Waiter(th) ==
    \/ PopReturns(th) /\ pc[th] # "out"
    \/ \E loop \in {"pop", "timed"} : PopSleeps(th, loop) /\ pc[th] # "out"
    \/ GivesUp(th)

Next == \E th \in Threads :
    \/ \E t \in Tasks : CallPush(th, t)
    \/ PopReturns(th)
    \/ \E loop \in {"pop", "timed"} : PopSleeps(th, loop)
    \/ GivesUp(th) \/ Expires(th) \/ SpuriousWake(th)

Spec == Init /\ [][Next]_vars

\* A woken thread gets the mutex, and timers run.
FairSpec == Spec /\ \A th \in Threads : WF_vars(Waiter(th)) /\ WF_vars(Expires(th))

-----------------------------------------------------------------------------

\* The types of the state; the wait sets are the threads in a wait.
TypeOK ==
    /\ m_queue \subseteq Tasks
    /\ pc \in [Threads -> {"out", "pop", "timed", "expired"}]
    /\ pop_blocked \cup pop_woken = {th \in Threads : pc[th] \in {"pop", "timed"}}
    /\ pop_blocked \cap pop_woken = {}
    /\ missed \in Nat

\* An entry lies beside a sleeping caller only if a wake-up meant for it went to a
\* caller of the timed Pop() that gave up (waitable_queue.hpp:104): as many entries
\* at most as callers did so since the queue was empty.
EntriesAnnounced == Announced(missed)

\* A timed Pop() ends, unless it is woken for nothing for ever: the wait it then
\* goes back to (waitable_queue.hpp:102) has the whole timeout before it again.
WaitsAgain(th) == PopSleeps(th, "timed") /\ pc[th] = "timed"

TimedPopEnds == \A th \in Threads :
    []<><<WaitsAgain(th)>>_vars \/ (pc[th] \in {"timed", "expired"} ~> pc[th] = "out")

=============================================================================
