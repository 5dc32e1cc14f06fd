-------------------------- MODULE TimedQueueProofs --------------------------
(* Theorems about TimedQueue, for any number of threads and entries. *)
EXTENDS TimedQueue, QueueProofs

\* The wait sets stay tied to the program points.
LEMMA StepTypes == TypeOK /\ [Next]_vars => TypeOK'
<1> SUFFICES ASSUME TypeOK, [Next]_vars PROVE TypeOK'
    OBVIOUS
<1> USE DEF TypeOK, Goes, Misses, Tests, queueVars
<1>1. ASSUME NEW th \in Threads, NEW t \in Tasks, CallPush(th, t) PROVE TypeOK'
  <2>1. PICK W \in NotifyOne(pop_blocked) :
          pop_blocked' = pop_blocked \ W /\ pop_woken' = pop_woken \cup W
    BY <1>1 DEF CallPush, Push
  <2>2. W \subseteq pop_blocked
    BY DEF NotifyOne
  <2> QED BY <1>1, <2>1, <2>2 DEF CallPush, Push
<1>2. ASSUME NEW th \in Threads, PopReturns(th) PROVE TypeOK'
  BY <1>2 DEF PopReturns, PopTake
<1>3. ASSUME NEW th \in Threads, NEW loop \in {"pop", "timed"}, PopSleeps(th, loop) PROVE TypeOK'
  BY <1>3 DEF PopSleeps, PopBlock
<1>4. ASSUME NEW th \in Threads, GivesUp(th) PROVE TypeOK'
  BY <1>4 DEF GivesUp
<1>5. ASSUME NEW th \in Threads, Expires(th) \/ SpuriousWake(th) PROVE TypeOK'
  BY <1>5 DEF Expires, SpuriousWake, PopSpurious
<1>6. CASE UNCHANGED vars
  BY <1>6 DEF vars
<1> QED BY <1>1, <1>2, <1>3, <1>4, <1>5, <1>6 DEF Next

\* Whoever waits is in one wait set, whatever calls and timeouts interleave.
THEOREM TypesHold == Spec => []TypeOK
<1>1. Init => TypeOK
  BY DEF Init, QueueInit, TypeOK
<1> QED BY <1>1, StepTypes, PTL DEF Spec

\* An entry lies beside a sleeping caller only for a caller of the timed Pop()
\* that was woken for it and gave up.
THEOREM EntriesStayAnnounced == Spec => []EntriesAnnounced
<1> USE DEF EntriesAnnounced
<1>1. Init => TypeOK /\ Countable /\ EntriesAnnounced
  BY FS_EmptySet DEF Init, QueueInit, TypeOK, Countable, Announced
<1>2. TypeOK /\ Countable /\ EntriesAnnounced /\ [Next]_vars => (Countable /\ EntriesAnnounced)'
  <2> SUFFICES ASSUME TypeOK, Countable, EntriesAnnounced, [Next]_vars
               PROVE  Countable' /\ EntriesAnnounced'
      OBVIOUS
  <2>0. missed \in Nat /\ pop_blocked \cap pop_woken = {}
    BY DEF TypeOK
  <2>1. ASSUME Countable', NEW n \in Nat, Misses(n),
               pop_blocked' # {} => Cardinality(m_queue') <= Cardinality(pop_woken') + missed + n
        PROVE  EntriesAnnounced'
    <3>1. CASE m_queue' = {}
      <4>1. Cardinality(m_queue') = 0 /\ Cardinality(pop_woken') \in Nat /\ missed' = 0
        BY <2>1, <3>1, FS_EmptySet, FS_CardinalityType DEF Countable, Misses
      <4> QED BY <4>1 DEF Announced
    <3>2. CASE m_queue' # {}
      BY <2>0, <2>1, <3>2, FS_CardinalityType DEF Misses, Announced, Countable
    <3> QED BY <3>1, <3>2
  <2>2. ASSUME NEW th \in Threads, NEW t \in Tasks, CallPush(th, t)
        PROVE  Countable' /\ EntriesAnnounced'
    BY <2>0, <2>1, <2>2, PushKeepsAnnounced, FS_CardinalityType DEF CallPush, Countable
  <2>3. ASSUME NEW th \in Threads, PopReturns(th) PROVE Countable' /\ EntriesAnnounced'
    BY <2>0, <2>1, <2>3, TakeKeepsAnnounced, FS_CardinalityType DEF PopReturns, Countable
  <2>4. ASSUME NEW th \in Threads, NEW loop, PopSleeps(th, loop) PROVE Countable' /\ EntriesAnnounced'
    BY <2>0, <2>1, <2>4, BlockKeepsAnnounced, FS_CardinalityType DEF PopSleeps, Countable
  <2>5. ASSUME NEW th \in Threads, SpuriousWake(th) PROVE Countable' /\ EntriesAnnounced'
    BY <2>0, <2>5, SpuriousKeepsAnnounced DEF SpuriousWake, Announced
  <2>6. ASSUME NEW th \in Threads, Expires(th) PROVE Countable' /\ EntriesAnnounced'
    BY <2>6 DEF Expires, Countable, Announced
  <2>7. ASSUME NEW th \in Threads, GivesUp(th) PROVE Countable' /\ EntriesAnnounced'
    <3>1. m_queue' = m_queue /\ pop_woken' = pop_woken \ {th} /\ pop_blocked' = pop_blocked
          /\ Misses(IF th \in pop_woken THEN 1 ELSE 0)
      BY <2>7 DEF GivesUp
    <3>2. Countable' /\ Cardinality(pop_woken) \in Nat /\ Cardinality(m_queue) \in Nat
      BY <3>1, CountChange, FS_CardinalityType DEF Countable
    <3>3. CASE th \in pop_woken
      <4>1. Cardinality(pop_woken') = Cardinality(pop_woken) - 1
        BY <3>1, <3>3, CountChange DEF Countable
      <4>2. Misses(1)
        BY <3>1, <3>3
      <4>3. pop_blocked' # {} => Cardinality(m_queue') <= Cardinality(pop_woken') + missed + 1
        BY <2>0, <3>1, <3>2, <4>1 DEF Announced
      <4> QED BY <2>1, <3>2, <4>2, <4>3
    <3>4. CASE th \notin pop_woken
      <4>1. pop_woken' = pop_woken
        BY <3>1, <3>4
      <4> QED BY <2>0, <2>1, <3>1, <3>2, <3>4, <4>1 DEF Announced
    <3> QED BY <3>3, <3>4
  <2>8. CASE UNCHANGED vars
    BY <2>8 DEF vars, queueVars, Countable, Announced
  <2> QED BY <2>2, <2>3, <2>4, <2>5, <2>6, <2>7, <2>8 DEF Next
<1> QED BY <1>1, <1>2, StepTypes, PTL DEF Spec

=============================================================================
