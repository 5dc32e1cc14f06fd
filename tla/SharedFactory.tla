--------------------------- MODULE SharedFactory ---------------------------
(*
  framework/include/singleton.hpp and factory.hpp: threads that reach the one
  Factory through Singleton<Factory>::GetInstance() and call SetKey or Create
  on it. The build is unoptimised (makefile: no -O) for a machine that keeps
  the order of stores, so GetInstance runs as it is written.

  A create function is the number of the SetKey call that installed it; 0 is
  "no such key". Create functions do not call the factory they run in.
*)
EXTENDS Naturals, FiniteSets

CONSTANTS Threads, Keys,
          MaxCalls,   \* a bound on the calls of all threads together
          NoThread

ASSUME FactoryAssumption ==
    MaxCalls \in Nat /\ NoThread \notin Threads /\ Keys # {}

VARIABLES
    s_instance,       \* the pointer: 0 is nullptr, else an object's number
    objects,          \* how many objects new has allocated
    built,            \* the objects whose constructor has ended
    m_mutex,          \* Singleton's, its owner
    m_classes,        \* the function of each key
    m_factory_guard,  \* the factory's mutex, its owner
    latest,           \* the last function SetKey was given for each key
    sets,             \* SetKey calls so far
    exited,           \* exit() has run CleanUp
    pc, call,         \* where each thread is, and in which call
    floor,            \* the function its key was last given when the call began
    found,            \* the function Create runs, or ran
    made              \* calls so far

singletonVars == <<s_instance, objects, built, m_mutex>>
classVars == <<m_classes, latest, sets>>
callVars == <<call, floor, made>>
factoryVars == <<classVars, m_factory_guard, exited, callVars, found>>
vars == <<singletonVars, factoryVars, pc>>

Init ==
    /\ s_instance = 0 /\ objects = 0 /\ built = {} /\ m_mutex = NoThread
    /\ m_classes = [k \in Keys |-> 0] /\ latest = m_classes
    /\ m_factory_guard = NoThread /\ sets = 0
    /\ exited = FALSE
    /\ pc = [t \in Threads |-> "idle"]
    /\ call = [t \in Threads |-> [op |-> "Create", key |-> CHOOSE k \in Keys : TRUE]]
    /\ floor = [t \in Threads |-> 0] /\ found = floor /\ made = 0

At(t, place) == pc[t] = place

Goes(t, place) == pc' = [pc EXCEPT ![t] = place]

Begin(t, op, k) ==
    /\ At(t, "idle") /\ made < MaxCalls
    /\ call' = [call EXCEPT ![t] = [op |-> op, key |-> k]]
    /\ floor' = [floor EXCEPT ![t] = latest[k]]
    /\ made' = made + 1
    /\ Goes(t, "check")
    /\ UNCHANGED <<singletonVars, classVars, m_factory_guard, exited, found>>

-----------------------------------------------------------------------------
(* GetInstance *)

Check(t) ==
    /\ At(t, "check")
    /\ Goes(t, IF s_instance = 0 THEN "lock" ELSE "use")
    /\ UNCHANGED <<singletonVars, factoryVars>>

Lock(t) ==
    /\ At(t, "lock") /\ m_mutex = NoThread
    /\ m_mutex' = t
    /\ Goes(t, "recheck")
    /\ UNCHANGED <<s_instance, objects, built, factoryVars>>

\* Slip: the second look at s_instance is dropped.
NoRecheck(t) ==
    /\ At(t, "recheck")
    /\ Goes(t, "construct")
    /\ UNCHANGED <<singletonVars, factoryVars>>

Recheck(t) ==
    /\ At(t, "recheck")
    /\ Goes(t, IF s_instance = 0 THEN "construct" ELSE "unlock")
    /\ UNCHANGED <<singletonVars, factoryVars>>

\* Slip: the pointer is stored before the constructor runs.
ConstructLate(t) ==
    /\ At(t, "construct")
    /\ objects' = objects + 1
    /\ s_instance' = objects'
    /\ Goes(t, "publish")
    /\ UNCHANGED <<built, m_mutex, factoryVars>>

Construct(t) ==
    /\ At(t, "construct")
    /\ objects' = objects + 1
    /\ built' = built \cup {objects'}
    /\ Goes(t, "publish")
    /\ UNCHANGED <<s_instance, m_mutex, factoryVars>>

\* new throws: nothing unlocks m_mutex on the way out.
ConstructThrows(t) ==
    /\ At(t, "construct")
    /\ Goes(t, "idle")
    /\ UNCHANGED <<singletonVars, factoryVars>>

\* The assignment to s_instance, and atexit(CleanUp).
Publish(t) ==
    /\ At(t, "publish")
    /\ s_instance' = objects
    /\ Goes(t, "unlock")
    /\ UNCHANGED <<objects, built, m_mutex, factoryVars>>

\* Slip: the mutex is not given back.
UnlockNot(t) ==
    /\ At(t, "unlock")
    /\ Goes(t, "use")
    /\ UNCHANGED <<singletonVars, factoryVars>>

Unlock(t) ==
    /\ At(t, "unlock")
    /\ m_mutex' = NoThread
    /\ Goes(t, "use")
    /\ UNCHANGED <<s_instance, objects, built, factoryVars>>

\* Some thread calls exit(): the object is deleted, s_instance keeps its address.
\* What a thread does with it from then on is undefined, so the properties speak
\* of the time before.
CleanUp ==
    /\ s_instance # 0 /\ ~exited
    /\ exited' = TRUE
    /\ built' = built \ {s_instance}
    /\ UNCHANGED <<s_instance, objects, m_mutex, classVars, m_factory_guard, pc, callVars, found>>

-----------------------------------------------------------------------------
(* The factory *)

Using(t, op) == At(t, "use") /\ call[t].op = op

\* Slip: the lock_guard is missing.
IgnoresGuard == TRUE

GuardIsFree == m_factory_guard = NoThread

\* Slip: insert() in place of operator[], which keeps the function of a known key.
InstalledOnce(k) == [m_classes EXCEPT ![k] = IF @ = 0 THEN sets + 1 ELSE @]

Installed(k) == [m_classes EXCEPT ![k] = sets + 1]

SetKey(t) ==
    /\ Using(t, "SetKey") /\ GuardIsFree
    /\ sets' = sets + 1
    /\ latest' = [latest EXCEPT ![call[t].key] = sets']
    /\ m_classes' = Installed(call[t].key)
    /\ Goes(t, "idle")
    /\ UNCHANGED <<singletonVars, m_factory_guard, exited, callVars, found>>

\* The key is looked up; without a function the throw of FactoryBadKey follows.
Create(t) ==
    /\ Using(t, "Create") /\ GuardIsFree
    /\ m_factory_guard' = t
    /\ found' = [found EXCEPT ![t] = m_classes[call[t].key]]
    /\ Goes(t, "calling")
    /\ UNCHANGED <<singletonVars, classVars, exited, callVars>>

\* Slip: an exception leaves the mutex locked.
GuardKept == UNCHANGED m_factory_guard

GuardEnds == m_factory_guard' = NoThread

\* The function ends, or an exception leaves Create: either way the lock_guard ends.
CreateEnds(t) ==
    /\ At(t, "calling")
    /\ GuardEnds
    /\ Goes(t, "idle")
    /\ UNCHANGED <<singletonVars, classVars, exited, callVars, found>>

-----------------------------------------------------------------------------

Step(t) ==
    \/ Check(t) \/ Lock(t) \/ Recheck(t) \/ Construct(t) \/ ConstructThrows(t)
    \/ Publish(t) \/ Unlock(t) \/ SetKey(t) \/ Create(t) \/ CreateEnds(t)

Next ==
    \/ \E t \in Threads :
          \/ Step(t)
          \/ \E op \in {"SetKey", "Create"}, k \in Keys : Begin(t, op, k)
    \/ CleanUp

Spec == Init /\ [][Next]_vars

\* A call that has begun goes on; no call has to be made and exit() need not run.
FairSpec == Spec /\ \A t \in Threads : WF_vars(Step(t))

=============================================================================
