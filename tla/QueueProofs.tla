----------------------------- MODULE QueueProofs -----------------------------
(* What the operations of WaitableQueue preserve, for every queue. *)
EXTENDS WaitableQueue, TLAPS, FiniteSetTheorems

\* A set after one element came or left, counted.
LEMMA CountChange ==
    ASSUME NEW S, IsFiniteSet(S), NEW e
    PROVE  /\ IsFiniteSet(S \cup {e}) /\ IsFiniteSet(S \ {e})
           /\ Cardinality(S \cup {e}) <= Cardinality(S) + 1
           /\ e \notin S => Cardinality(S \cup {e}) = Cardinality(S) + 1
           /\ e \in S => Cardinality(S \ {e}) = Cardinality(S) - 1
           /\ e \notin S => S \ {e} = S
           /\ Cardinality(S) \in Nat
           /\ Cardinality(S \cup {e}) \in Nat /\ Cardinality(S \ {e}) \in Nat
  BY FS_AddElement, FS_RemoveElement, FS_CardinalityType

\* Both sides of Announced can be counted.
Countable == IsFiniteSet(m_queue) /\ IsFiniteSet(pop_woken)

\* Who takes an entry gives up at most the wake-up that stood for it.
LEMMA TakeKeepsAnnounced ==
    ASSUME Countable, NEW k \in Nat, Announced(k), NEW w, NEW t, PopTake(w, t)
    PROVE  /\ Countable'
           /\ pop_blocked' # {} => Cardinality(m_queue') <= Cardinality(pop_woken') + k
<1> USE DEF Countable, Announced
<1>1. /\ t \in m_queue /\ m_queue' = m_queue \ {t}
      /\ pop_woken' = pop_woken \ {w} /\ pop_blocked' = pop_blocked
  BY DEF PopTake, Front
<1>2. Cardinality(m_queue') = Cardinality(m_queue) - 1
      /\ IsFiniteSet(m_queue') /\ Cardinality(m_queue) \in Nat
  BY <1>1, CountChange
<1>3. Cardinality(pop_woken') >= Cardinality(pop_woken) - 1 /\ IsFiniteSet(pop_woken')
      /\ Cardinality(pop_woken) \in Nat /\ Cardinality(pop_woken') \in Nat
  <2>0. IsFiniteSet(pop_woken') /\ Cardinality(pop_woken) \in Nat /\ Cardinality(pop_woken') \in Nat
    BY <1>1, CountChange
  <2>1. CASE w \in pop_woken
    <3>1. Cardinality(pop_woken \ {w}) = Cardinality(pop_woken) - 1
      BY <2>1, CountChange
    <3> QED BY <1>1, <2>0, <3>1
  <2>2. CASE w \notin pop_woken
    <3>1. pop_woken' = pop_woken
      BY <1>1, <2>2
    <3> QED BY <2>0, <3>1
  <2> QED BY <2>1, <2>2
<1> QED BY <1>1, <1>2, <1>3

\* Who goes to sleep saw the queue empty.
LEMMA BlockKeepsAnnounced ==
    ASSUME Countable, NEW k \in Nat, NEW w, PopBlock(w)
    PROVE  Countable' /\ Cardinality(m_queue') <= Cardinality(pop_woken') + k
<1> USE DEF Countable
<1>1. m_queue = {} /\ m_queue' = {} /\ pop_woken' = pop_woken \ {w}
  BY DEF PopBlock, IsEmpty
<1>2. Countable'
  BY <1>1, CountChange
<1>3. Cardinality(m_queue') = 0 /\ Cardinality(pop_woken') \in Nat
  BY <1>1, <1>2, FS_EmptySet, FS_CardinalityType
<1> QED BY <1>2, <1>3

\* Push() wakes a sleeping popper for the entry it adds.
LEMMA PushKeepsAnnounced ==
    ASSUME Countable, NEW k \in Nat, Announced(k), pop_blocked \cap pop_woken = {},
           NEW t, Push(t)
    PROVE  /\ Countable'
           /\ pop_blocked' # {} => Cardinality(m_queue') <= Cardinality(pop_woken') + k
<1> USE DEF Countable, Announced
<1>1. PICK W \in NotifyOne(pop_blocked) :
        pop_blocked' = pop_blocked \ W /\ pop_woken' = pop_woken \cup W
  BY DEF Push
<1>2. m_queue' = m_queue \cup {t}
  BY DEF Push
<1>3. CASE pop_blocked = {}
  <2>1. pop_blocked' = {} /\ pop_woken' = pop_woken
    BY <1>1, <1>3 DEF NotifyOne
  <2> QED BY <1>2, <2>1, CountChange
<1>4. CASE pop_blocked # {}
  <2>1. PICK v \in pop_blocked : W = {v}
    BY <1>1, <1>4 DEF NotifyOne
  <2>2. v \notin pop_woken
    BY <2>1
  <2>3. Countable' /\ Cardinality(pop_woken') = Cardinality(pop_woken) + 1
    BY <1>1, <1>2, <2>1, <2>2, CountChange
  <2>4. Cardinality(m_queue') <= Cardinality(m_queue) + 1 /\ Cardinality(m_queue) \in Nat
        /\ Cardinality(m_queue') \in Nat /\ Cardinality(pop_woken) \in Nat
    BY <1>2, <2>3, CountChange
  <2> QED BY <1>4, <2>3, <2>4
<1> QED BY <1>3, <1>4

\* A wake-up nobody asked for only adds to the woken side.
LEMMA SpuriousKeepsAnnounced ==
    ASSUME Countable, NEW k \in Nat, Announced(k), pop_blocked \cap pop_woken = {},
           NEW w, PopSpurious(w)
    PROVE  Countable' /\ Cardinality(m_queue') <= Cardinality(pop_woken') + k
<1> USE DEF Countable, Announced
<1>1. /\ w \in pop_blocked /\ w \notin pop_woken /\ m_queue' = m_queue
      /\ pop_woken' = pop_woken \cup {w}
  BY DEF PopSpurious
<1>2. Countable' /\ Cardinality(pop_woken') = Cardinality(pop_woken) + 1
  BY <1>1, CountChange
<1>3. Cardinality(m_queue) \in Nat /\ Cardinality(pop_woken) \in Nat
  BY CountChange
<1> QED BY <1>1, <1>2, <1>3

=============================================================================
