----------------------- MODULE SharedFactoryProperties -----------------------
(* What GetInstance, SetKey and Create promise to threads that share them. *)
EXTENDS SharedFactory

\* The types of the state; each mutex is held at the places the code locks it.
TypeOK ==
    /\ objects \in Nat /\ s_instance \in 0 .. objects /\ built \subseteq 1 .. objects
    /\ sets \in Nat /\ made \in 0 .. MaxCalls
    /\ m_classes \in [Keys -> 0 .. sets] /\ latest \in [Keys -> 0 .. sets]
    /\ exited \in BOOLEAN
    /\ pc \in [Threads -> {"idle", "check", "lock", "recheck", "construct", "publish",
                           "unlock", "use", "calling"}]
    /\ call \in [Threads -> [op : {"SetKey", "Create"}, key : Keys]]
    /\ floor \in [Threads -> 0 .. sets] /\ found \in [Threads -> 0 .. sets]
    /\ m_mutex \in Threads \cup {NoThread}
    /\ \A t \in Threads :
        /\ pc[t] \in {"recheck", "construct", "publish", "unlock"} => m_mutex = t
        /\ pc[t] = "calling" <=> m_factory_guard = t
    /\ m_factory_guard \in Threads \cup {NoThread}

\* Whatever the threads race for, one object is made; the others use it.
OneInstance == objects <= 1

\* Until the program exits, a thread that leaves GetInstance has an object whose
\* constructor has ended, although most threads looked at s_instance without a
\* lock, while another was constructing.
UsesBuilt ==
    ~exited => \A t \in Threads : pc[t] \in {"use", "calling"} => s_instance \in built

\* m_classes does not change while a create function runs out of it: the
\* iterator Create holds stays valid (operator[] may rehash the map).
StableDuringCreate ==
    [][~exited /\ (\E t \in Threads : pc[t] = "calling" /\ pc'[t] = "calling")
         => m_classes' = m_classes]_vars

\* Create runs no function that a SetKey of the same key, returned before the
\* call, had replaced, and throws FactoryBadKey for no key that was set by then:
\* SetKey may "change an existing method" (factory.hpp:6).
CreateIsCurrent ==
    ~exited => \A t \in Threads : pc[t] = "calling" => found[t] >= floor[t]

\* A call ends, whatever the others do, unless a constructor threw: then there
\* is no object, and its thread has left m_mutex locked for good.
MutexLeft == s_instance = 0 /\ m_mutex # NoThread /\ pc[m_mutex] \in {"idle", "check", "lock"}

EveryCallEnds ==
    \A t \in Threads : pc[t] # "idle" ~> pc[t] = "idle" \/ MutexLeft \/ exited

=============================================================================
