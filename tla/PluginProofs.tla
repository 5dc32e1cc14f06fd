---------------------------- MODULE PluginProofs ----------------------------
(*
  What a plug-in relies on: the one factory it registers its creators with, and
  the plug-and-play component that opens it and closes it again, for any number
  of threads, keys, calls, loaders and files.
*)
EXTENDS SharedFactoryProperties, PnpProperties, SequenceTheorems, TLAPS

-----------------------------------------------------------------------------
(* The factory: the double-checked GetInstance and the two calls. *)

\* What holds at each place of GetInstance: a constructor runs while there is no
\* object, an object not yet stored belongs to the thread about to store it, and
\* whoever goes on to use the instance has seen it stored.
Placed ==
    /\ objects <= 1
    /\ \A t \in Threads :
        /\ pc[t] = "construct" => objects = 0
        /\ pc[t] = "publish" => objects = 1 /\ s_instance = 0
        /\ pc[t] \in {"unlock", "use", "calling"} => s_instance = 1
    /\ s_instance = 0 => objects = 0 \/ \E t \in Threads : pc[t] = "publish"
    /\ ~exited => built = 1 .. objects

\* The map holds the functions set last, and no call has seen a later one.
Latest ==
    /\ m_classes = latest
    /\ \A t \in Threads :
        /\ floor[t] <= latest[call[t].key]
        /\ pc[t] = "calling" => found[t] >= floor[t]

IInv == TypeOK /\ Placed /\ Latest

\* The invariant holds before the first call.
LEMMA InitHolds == Init => IInv
<1> SUFFICES ASSUME Init PROVE IInv
    OBVIOUS
<1> DEFINE some == CHOOSE k \in Keys : TRUE
<1>1. some \in Keys /\ call = [t \in Threads |-> [op |-> "Create", key |-> some]]
  BY FactoryAssumption DEF Init
<1> HIDE DEF some
<1>2. TypeOK
  <2>1. call \in [Threads -> [op : {"SetKey", "Create"}, key : Keys]]
    BY <1>1
  <2>2. floor \in [Threads -> 0 .. sets] /\ found \in [Threads -> 0 .. sets]
    BY DEF Init
  <2>3. m_classes \in [Keys -> 0 .. sets] /\ latest \in [Keys -> 0 .. sets]
    BY DEF Init
  <2>4. /\ objects = 0 /\ s_instance = 0 /\ built = {} /\ sets = 0 /\ made = 0
        /\ exited = FALSE /\ m_mutex = NoThread
    BY DEF Init
  <2>5. pc = [t \in Threads |-> "idle"] /\ m_factory_guard = NoThread
    BY DEF Init
  <2>6. \A t \in Threads : pc[t] = "idle" /\ m_factory_guard # t
    BY <2>5, FactoryAssumption
  <2>7. objects \in Nat /\ s_instance \in 0 .. objects /\ built \subseteq 1 .. objects
    BY <2>4
  <2>8. sets \in Nat /\ made \in 0 .. MaxCalls
    BY <2>4, FactoryAssumption
  <2>9. pc \in [Threads -> {"idle", "check", "lock", "recheck", "construct", "publish",
                            "unlock", "use", "calling"}]
    BY <2>5
  <2> QED BY <2>1, <2>2, <2>3, <2>4, <2>5, <2>6, <2>7, <2>8, <2>9 DEF TypeOK
<1>3. Placed
  BY DEF Init, Placed
<1>4. Latest
  BY <1>1, FactoryAssumption DEF Init, Latest
<1> QED BY <1>2, <1>3, <1>4 DEF IInv

\* No step of a call leaves the types, whoever else is under way.
LEMMA StepTypes == TypeOK /\ [Next]_vars => TypeOK'
<1> SUFFICES ASSUME TypeOK, [Next]_vars PROVE TypeOK'
    OBVIOUS
<1> USE FactoryAssumption
<1>1. ASSUME NEW t \in Threads, NEW op \in {"SetKey", "Create"}, NEW k \in Keys, Begin(t, op, k)
      PROVE  TypeOK'
  BY <1>1 DEF TypeOK, Begin, At, Goes, singletonVars, classVars
<1>2. ASSUME NEW t \in Threads, Check(t) PROVE TypeOK'
  BY <1>2 DEF TypeOK, Check, At, Goes, singletonVars, factoryVars, classVars, callVars
<1>3. ASSUME NEW t \in Threads, Lock(t) PROVE TypeOK'
  BY <1>3 DEF TypeOK, Lock, At, Goes, factoryVars, classVars, callVars
<1>4. ASSUME NEW t \in Threads, Recheck(t) PROVE TypeOK'
  BY <1>4 DEF TypeOK, Recheck, At, Goes, singletonVars, factoryVars, classVars, callVars
<1>5. ASSUME NEW t \in Threads, Construct(t) PROVE TypeOK'
  BY <1>5 DEF TypeOK, Construct, At, Goes, factoryVars, classVars, callVars
<1>6. ASSUME NEW t \in Threads, ConstructThrows(t) PROVE TypeOK'
  BY <1>6 DEF TypeOK, ConstructThrows, At, Goes, singletonVars, factoryVars, classVars, callVars
<1>7. ASSUME NEW t \in Threads, Publish(t) PROVE TypeOK'
  BY <1>7 DEF TypeOK, Publish, At, Goes, factoryVars, classVars, callVars
<1>8. ASSUME NEW t \in Threads, Unlock(t) PROVE TypeOK'
  BY <1>8 DEF TypeOK, Unlock, At, Goes, factoryVars, classVars, callVars
<1>9. ASSUME NEW t \in Threads, SetKey(t) PROVE TypeOK'
  <2>1. sets' = sets + 1 /\ call[t].key \in Keys
    BY <1>9 DEF TypeOK, SetKey
  <2>2. latest' \in [Keys -> 0 .. sets'] /\ m_classes' \in [Keys -> 0 .. sets']
    BY <1>9, <2>1 DEF TypeOK, SetKey, Installed
  <2>3. floor' \in [Threads -> 0 .. sets'] /\ found' \in [Threads -> 0 .. sets']
    BY <1>9, <2>1 DEF TypeOK, SetKey, callVars
  <2> QED
    BY <1>9, <2>1, <2>2, <2>3 DEF TypeOK, SetKey, Using, At, Goes, singletonVars, callVars
<1>10. ASSUME NEW t \in Threads, Create(t) PROVE TypeOK'
  BY <1>10 DEF TypeOK, Create, Using, GuardIsFree, At, Goes, singletonVars, classVars, callVars
<1>11. ASSUME NEW t \in Threads, CreateEnds(t) PROVE TypeOK'
  BY <1>11 DEF TypeOK, CreateEnds, GuardEnds, At, Goes, singletonVars, classVars, callVars
<1>12. CASE CleanUp
  BY <1>12 DEF TypeOK, CleanUp, classVars, callVars
<1>13. CASE UNCHANGED vars
  BY <1>13 DEF TypeOK, vars, singletonVars, factoryVars, classVars, callVars
<1> QED
  BY <1>1, <1>2, <1>3, <1>4, <1>5, <1>6, <1>7, <1>8, <1>9, <1>10, <1>11, <1>12, <1>13
  DEF Next, Step

\* Every place of GetInstance is what it takes itself for.
LEMMA StepPlaced == TypeOK /\ Placed /\ [Next]_vars => Placed'
<1> SUFFICES ASSUME TypeOK, Placed, [Next]_vars PROVE Placed'
    OBVIOUS
<1>1. ASSUME NEW t \in Threads, NEW op \in {"SetKey", "Create"}, NEW k \in Keys, Begin(t, op, k)
      PROVE  Placed'
  BY <1>1 DEF TypeOK, Placed, Begin, At, Goes, singletonVars, classVars
<1>2. ASSUME NEW t \in Threads, Check(t) PROVE Placed'
  BY <1>2 DEF TypeOK, Placed, Check, At, Goes, singletonVars, factoryVars, classVars, callVars
<1>3. ASSUME NEW t \in Threads, Lock(t) PROVE Placed'
  BY <1>3 DEF TypeOK, Placed, Lock, At, Goes, factoryVars, classVars, callVars
<1>4. ASSUME NEW t \in Threads, Recheck(t) PROVE Placed'
  BY <1>4 DEF TypeOK, Placed, Recheck, At, Goes, singletonVars, factoryVars, classVars, callVars
<1>5. ASSUME NEW t \in Threads, Construct(t) PROVE Placed'
  BY <1>5 DEF TypeOK, Placed, Construct, At, Goes, factoryVars, classVars, callVars
<1>6. ASSUME NEW t \in Threads, ConstructThrows(t) PROVE Placed'
  BY <1>6 DEF TypeOK, Placed, ConstructThrows, At, Goes, singletonVars, factoryVars, classVars,
              callVars
<1>7. ASSUME NEW t \in Threads, Publish(t) PROVE Placed'
  BY <1>7 DEF TypeOK, Placed, Publish, At, Goes, factoryVars, classVars, callVars
<1>8. ASSUME NEW t \in Threads, Unlock(t) PROVE Placed'
  BY <1>8 DEF TypeOK, Placed, Unlock, At, Goes, factoryVars, classVars, callVars
<1>9. ASSUME NEW t \in Threads, SetKey(t) PROVE Placed'
  BY <1>9 DEF TypeOK, Placed, SetKey, Using, At, Goes, singletonVars, callVars
<1>10. ASSUME NEW t \in Threads, Create(t) PROVE Placed'
  BY <1>10 DEF TypeOK, Placed, Create, Using, At, Goes, singletonVars, classVars, callVars
<1>11. ASSUME NEW t \in Threads, CreateEnds(t) PROVE Placed'
  BY <1>11 DEF TypeOK, Placed, CreateEnds, At, Goes, singletonVars, classVars, callVars
<1>12. CASE CleanUp
  BY <1>12 DEF TypeOK, Placed, CleanUp, classVars, callVars
<1>13. CASE UNCHANGED vars
  BY <1>13 DEF TypeOK, Placed, vars, singletonVars, factoryVars, classVars, callVars
<1> QED
  BY <1>1, <1>2, <1>3, <1>4, <1>5, <1>6, <1>7, <1>8, <1>9, <1>10, <1>11, <1>12, <1>13
  DEF Next, Step

\* A step of GetInstance neither begins a call nor reads or writes the map.
LEMMA InstanceKeepsLatest ==
    ASSUME Latest, NEW t \in Threads, NEW place, place # "calling", TypeOK, Goes(t, place),
           UNCHANGED factoryVars
    PROVE  Latest'
  BY DEF Latest, TypeOK, Goes, factoryVars, classVars, callVars

\* The map stays the last functions set, and what a call may see only grows.
LEMMA StepLatest == TypeOK /\ Latest /\ [Next]_vars => Latest'
<1> SUFFICES ASSUME TypeOK, Latest, [Next]_vars PROVE Latest'
    OBVIOUS
<1>1. ASSUME NEW t \in Threads, NEW op \in {"SetKey", "Create"}, NEW k \in Keys, Begin(t, op, k)
      PROVE  Latest'
  BY <1>1 DEF TypeOK, Latest, Begin, At, Goes, singletonVars, classVars
<1>2. ASSUME NEW t \in Threads,
             Check(t) \/ Lock(t) \/ Recheck(t) \/ Construct(t) \/ ConstructThrows(t)
               \/ Publish(t) \/ Unlock(t)
      PROVE  Latest'
  BY <1>2, InstanceKeepsLatest
     DEF Check, Lock, Recheck, Construct, ConstructThrows, Publish, Unlock
<1>3. ASSUME NEW t \in Threads, SetKey(t) PROVE Latest'
  <2>1. call[t].key \in Keys /\ sets' = sets + 1
    BY <1>3 DEF TypeOK, SetKey
  <2>2. m_classes' = latest'
    BY <1>3 DEF Latest, SetKey, Installed
  <2>3. \A k \in Keys : latest[k] <= latest'[k]
    BY <1>3, <2>1 DEF TypeOK, SetKey
  <2>4. ASSUME NEW u \in Threads
        PROVE  floor'[u] <= latest'[call'[u].key] /\ (pc'[u] = "calling" => found'[u] >= floor'[u])
    <3>1. call'[u] = call[u] /\ call[u].key \in Keys /\ floor'[u] = floor[u] /\ found'[u] = found[u]
      BY <1>3 DEF TypeOK, SetKey, callVars
    <3>2. latest[call[u].key] \in Nat /\ latest'[call[u].key] \in Nat /\ floor[u] \in Nat
      BY <1>3, <2>1, <3>1 DEF TypeOK, SetKey
    <3>3. pc'[u] = "calling" => pc[u] = "calling"
      BY <1>3 DEF TypeOK, SetKey, Goes
    <3> QED BY <2>3, <3>1, <3>2, <3>3 DEF Latest
  <2> QED BY <2>2, <2>4 DEF Latest
<1>4. ASSUME NEW t \in Threads, Create(t) PROVE Latest'
  BY <1>4 DEF TypeOK, Latest, Create, Using, At, Goes, classVars, callVars
<1>5. ASSUME NEW t \in Threads, CreateEnds(t) PROVE Latest'
  BY <1>5 DEF TypeOK, Latest, CreateEnds, Goes, classVars, callVars
<1>6. CASE CleanUp \/ UNCHANGED vars
  BY <1>6 DEF Latest, CleanUp, vars, factoryVars, classVars, callVars
<1> QED BY <1>1, <1>2, <1>3, <1>4, <1>5, <1>6 DEF Next, Step

\* The three parts together are inductive.
LEMMA InvariantHolds == Spec => []IInv
<1>1. IInv /\ [Next]_vars => IInv'
  BY StepTypes, StepPlaced, StepLatest DEF IInv
<1> QED BY InitHolds, <1>1, PTL DEF Spec

\* The state has the types TypeOK gives it, whatever the number of threads.
THEOREM TypesHold == Spec => []TypeOK
<1>1. IInv => TypeOK
  BY DEF IInv
<1> QED BY InvariantHolds, <1>1, PTL

\* Double-checked locking: one object is made however many threads race for it.
THEOREM OneObject == Spec => []OneInstance
<1>1. IInv => OneInstance
  BY DEF IInv, Placed, OneInstance
<1> QED BY InvariantHolds, <1>1, PTL

\* Whoever leaves GetInstance before the exit has an object that is constructed,
\* though it may have looked at s_instance without the lock.
THEOREM BuiltWhenUsed == Spec => []UsesBuilt
<1>1. IInv => UsesBuilt
  BY DEF IInv, TypeOK, Placed, UsesBuilt
<1> QED BY InvariantHolds, <1>1, PTL

\* Create runs no function that had been replaced when it was called.
THEOREM CreateRunsCurrent == Spec => []CreateIsCurrent
<1>1. IInv => CreateIsCurrent
  BY DEF IInv, Latest, CreateIsCurrent
<1> QED BY InvariantHolds, <1>1, PTL

\* The map does not change under the function that Create found in it.
THEOREM MapStable == Spec => StableDuringCreate
<1> DEFINE Stable == ~exited /\ (\E t \in Threads : pc[t] = "calling" /\ pc'[t] = "calling")
                       => m_classes' = m_classes
<1>1. TypeOK /\ [Next]_vars => [Stable]_vars
  <2> SUFFICES ASSUME TypeOK, Next, NEW t \in Threads, pc[t] = "calling", pc'[t] = "calling"
               PROVE  m_classes' = m_classes
      BY DEF Stable
  <2>1. m_factory_guard = t /\ t # NoThread
    BY FactoryAssumption DEF TypeOK
  <2>2. ASSUME NEW u \in Threads, SetKey(u) PROVE FALSE
    BY <2>1, <2>2 DEF SetKey, GuardIsFree
  <2> QED
    BY <2>2 DEF Next, Step, Begin, Check, Lock, Recheck, Construct, ConstructThrows, Publish,
                Unlock, Create, CreateEnds, CleanUp, factoryVars, classVars
<1> QED BY TypesHold, <1>1, PTL DEF Spec, StableDuringCreate

-----------------------------------------------------------------------------
(* Plug and play. Its assumption is a hypothesis here: Pnp is an instance. *)

\* The subscribers are loaders alive, each at one place of the vector.
Enlisted ==
    /\ monitor # "dead" =>
         /\ \A i, j \in DOMAIN m_subscribers : m_subscribers[i] = m_subscribers[j] => i = j
         /\ \A l \in Loaders : loader[l] \in {"none", "dead"}
                                 <=> \A i \in DOMAIN m_subscribers : m_subscribers[i] # l
    /\ monitor = "dead" => m_subscribers = <<>>
    /\ thread \in {"copy", "notify"} => event \in Files

\* The files read so far.
Taken == Len(arrived) - Len(events)

\* inotify keeps the order of arrival.
Queued ==
    /\ \A p, q \in DOMAIN arrived : arrived[p] = arrived[q] => p = q
    /\ Taken \in Nat
    /\ \A i \in DOMAIN events : events[i] = arrived[Taken + i]

\* File f came before file g.
Before(f, g) == \E p, q \in DOMAIN arrived : p < q /\ arrived[p] = f /\ arrived[q] = g

\* File f was read.
WasRead(f) == \E p \in 1 .. Taken : arrived[p] = f

\* A loader was told of files read already, in the order they came; the round
\* under way announces a later one, once, to those it has still to notify.
Ordered ==
    /\ \A l \in Loaders : \A i \in DOMAIN opened[l] : WasRead(opened[l][i])
    /\ thread \in {"copy", "notify"} => WasRead(event)
    /\ \A l \in Loaders : \A i, j \in DOMAIN opened[l] : i < j => Before(opened[l][i], opened[l][j])
    /\ thread = "copy" =>
         \A l \in Loaders : \A i \in DOMAIN opened[l] : Before(opened[l][i], event)
    /\ thread = "notify" =>
         /\ \A i, j \in DOMAIN copy : copy[i] = copy[j] => i = j
         /\ \A k \in DOMAIN copy : \A i \in DOMAIN opened[copy[k]] : Before(opened[copy[k]][i], event)

\* The handles of a loader that was notified within its life only.
Kept ==
    \A l \in Loaders \ raced :
        /\ loader[l] \in {"none", "subscribed"} => opened[l] = <<>> /\ m_symbolHandlers[l] = <<>>
        /\ loader[l] = "live" => m_symbolHandlers[l] = opened[l]
        /\ loader[l] \in {"closing", "dead"} => closed[l] = opened[l]

\* Whoever the round must tell, it told or will.
Told == thread = "notify" => \A l \in due : l \in told \/ \E k \in DOMAIN copy : copy[k] = l

PnpInv == PnpTypeOK /\ Enlisted /\ Queued /\ Ordered /\ Kept /\ Told

\* What std::find and erase leave of a vector where each subscriber stands once.
LEMMA OthersStay ==
    ASSUME m_subscribers \in Seq(Loaders), NEW at \in DOMAIN m_subscribers,
           \A i, j \in DOMAIN m_subscribers : m_subscribers[i] = m_subscribers[j] => i = j
    PROVE  LET l == m_subscribers[at]
               left == Others(l) IN
           /\ left \in Seq(Loaders)
           /\ \A i, j \in DOMAIN left : left[i] = left[j] => i = j
           /\ \A m \in Loaders : (\E i \in DOMAIN left : left[i] = m)
                                   <=> m # l /\ \E i \in DOMAIN m_subscribers : m_subscribers[i] = m
<1> DEFINE l == m_subscribers[at]
           Passed(n) == /\ \A i \in 1 .. n : m_subscribers[i] # l
                        /\ n < Len(m_subscribers) => m_subscribers[n + 1] = l
           passed == CHOOSE n \in 0 .. Len(m_subscribers) : Passed(n)
           from(i) == IF i < at THEN i ELSE i + 1
           left == [i \in 1 .. Len(m_subscribers) - 1 |-> m_subscribers[from(i)]]
<1>1. /\ DOMAIN m_subscribers = 1 .. Len(m_subscribers) /\ Len(m_subscribers) \in Nat
      /\ at \in 1 .. Len(m_subscribers)
  BY LenProperties
<1>2. at - 1 \in 0 .. Len(m_subscribers) /\ Passed(at - 1)
  BY <1>1
<1>3. passed \in 0 .. Len(m_subscribers) /\ Passed(passed)
  BY <1>2
<1>4. passed = at - 1
  <2>1. passed < Len(m_subscribers)
    BY <1>1, <1>3
  <2>2. m_subscribers[passed + 1] = l /\ passed + 1 \in DOMAIN m_subscribers
    BY <1>1, <1>3, <2>1
  <2> HIDE DEF passed
  <2> QED BY <1>1, <1>3, <2>2
<1>5. Others(l) = left
  <2>1. Others(l) = [i \in 1 .. Len(m_subscribers) - 1 |->
                       m_subscribers[IF i <= passed THEN i ELSE i + 1]]
    BY DEF Others
  <2> HIDE DEF passed
  <2> QED BY <1>1, <1>4, <2>1
<1>6. \A i \in 1 .. Len(m_subscribers) - 1 : from(i) \in 1 .. Len(m_subscribers) /\ from(i) # at
  BY <1>1
<1>7. left \in Seq(Loaders)
  <2>1. Len(m_subscribers) - 1 \in Nat
    BY <1>1
  <2>2. \A i \in 1 .. Len(m_subscribers) - 1 : left[i] \in Loaders
    BY <1>6, ElementOfSeq
  <2> QED BY <2>1, <2>2, IsASeq
<1>8. \A i \in DOMAIN left : left[i] = m_subscribers[from(i)]
  OBVIOUS
<1>9. DOMAIN left = 1 .. Len(m_subscribers) - 1
  OBVIOUS
<1> HIDE DEF left, passed
<1>10. \A i, j \in DOMAIN left : left[i] = left[j] => i = j
  <2> SUFFICES ASSUME NEW i \in DOMAIN left, NEW j \in DOMAIN left, left[i] = left[j] PROVE i = j
      OBVIOUS
  <2>1. from(i) = from(j)
    BY <1>1, <1>6, <1>8, <1>9
  <2> QED BY <1>1, <1>9, <2>1
<1>11. ASSUME NEW i \in DOMAIN left PROVE left[i] # l /\ \E j \in DOMAIN m_subscribers : m_subscribers[j] = left[i]
  BY <1>1, <1>6, <1>8, <1>9
<1>12. ASSUME NEW j \in DOMAIN m_subscribers, m_subscribers[j] # l
       PROVE  \E i \in DOMAIN left : left[i] = m_subscribers[j]
  <2>1. CASE j < at
    <3>1. j \in DOMAIN left /\ from(j) = j
      BY <1>1, <1>9, <2>1
    <3> QED BY <1>8, <3>1
  <2>2. CASE at < j
    <3>1. j - 1 \in DOMAIN left /\ from(j - 1) = j
      BY <1>1, <1>9, <2>2
    <3> QED BY <1>8, <3>1
  <2>3. j # at
    BY <1>12
  <2> QED BY <1>1, <2>1, <2>2, <2>3
<1> HIDE DEF l
<1> QED BY <1>5, <1>7, <1>10, <1>11, <1>12 DEF l

\* Nor is anything left of an empty one.
LEMMA NothingMovesUp == ASSUME m_subscribers = <<>>, NEW l PROVE Others(l) = <<>>
<1>1. Len(m_subscribers) = 0
  BY EmptySeq
<1>2. Len(m_subscribers) - 1 = -1
  BY <1>1
<1>3. Others(l) \in [1 .. -1 -> {}]
  BY <1>2 DEF Others
<1>4. 1 .. -1 = 1 .. 0
  OBVIOUS
<1>5. <<>> \in [1 .. -1 -> {}]
  BY <1>4
<1> QED BY <1>3, <1>4, <1>5

\* The invariant holds once the constructor of DirMonitor has returned.
LEMMA PnpInitHolds == PnpInit => PnpInv
<1> SUFFICES ASSUME PnpInit PROVE PnpInv
    OBVIOUS
<1> USE DEF PnpInit
<1>1. \A l \in Loaders : /\ m_symbolHandlers[l] = <<>> /\ opened[l] = <<>> /\ closed[l] = <<>>
                         /\ loader[l] = "none"
  OBVIOUS
<1>2. PnpTypeOK
  <2>1. <<>> \in Seq(Files) /\ <<>> \in Seq(Loaders)
    BY EmptySeq
  <2>2. /\ m_symbolHandlers \in [Loaders -> Seq(Files)] /\ opened \in [Loaders -> Seq(Files)]
        /\ closed \in [Loaders -> Seq(Files)]
    BY <2>1
  <2>3. {m_subscribers[i] : i \in DOMAIN m_subscribers}
          = {l \in Loaders : loader[l] \notin {"none", "dead"}}
    BY <1>1
  <2>4. /\ m_subscribers \in Seq(Loaders) /\ copy \in Seq(Loaders)
        /\ events \in Seq(Files) /\ arrived \in Seq(Files)
    BY <2>1
  <2>5. loader \in [Loaders -> Lives]
    BY DEF Lives
  <2>6. \A i, j \in DOMAIN m_subscribers : m_subscribers[i] = m_subscribers[j] => i = j
    BY <2>4
  <2>7. /\ monitor = "live" /\ isMonitoring = TRUE /\ thread = "start" /\ dirPathOk = FALSE
        /\ event = NoFile /\ corrupted = FALSE
    OBVIOUS
  <2> HIDE DEF PnpInit
  <2> QED BY <2>2, <2>3, <2>4, <2>5, <2>6, <2>7 DEF PnpTypeOK
<1>3. Enlisted
  BY <1>1 DEF Enlisted
<1>4. Queued
  BY DEF Queued, Taken
<1>5. Ordered
  BY <1>1 DEF Ordered
<1>6. Kept /\ Told
  BY <1>1 DEF Kept, Told
<1> QED BY <1>2, <1>3, <1>4, <1>5, <1>6 DEF PnpInv

\* Loaders come into the vector once, at its end, and leave it where they stand,
\* whatever the thread is doing.
LEMMA StepEnlisted == PnpTypeOK /\ Enlisted /\ [PnpNext]_pnpVars => Enlisted'
<1> SUFFICES ASSUME PnpTypeOK, Enlisted, [PnpNext]_pnpVars PROVE Enlisted'
    OBVIOUS
<1>0. /\ m_subscribers \in Seq(Loaders) /\ loader \in [Loaders -> Lives]
      /\ events \in Seq(Files)
  BY DEF PnpTypeOK
<1> USE <1>0 DEF Enlisted, ThreadAt
<1>1. ASSUME NEW f \in Files, FileAppears(f) PROVE Enlisted'
  BY <1>1 DEF FileAppears, monitorVars, loaderVars
<1>2. CASE ThreadStarts \/ Test \/ NotifyEnds \/ ReadFails
  BY <1>2 DEF ThreadStarts, Test, NotifyEnds, ReadFails, monitorVars,
     eventVars, loaderVars
<1>3. CASE Read \/ ReadOther
  BY <1>3, HeadTailProperties DEF Read, ReadOther, monitorVars, loaderVars
<1>4. CASE CopySubscribers
  BY <1>4 DEF CopySubscribers, monitorVars, eventVars, loaderVars
<1>5. CASE Notify
  <2>1. UNCHANGED <<monitor, thread, event, m_subscribers, loader>> /\ thread = "notify"
    BY <1>5 DEF Notify, monitorVars, eventVars
  <2> QED BY <2>1
<1>6. CASE StopMonitor \/ JoinReturns
  BY <1>6 DEF StopMonitor, JoinReturns, eventVars, loaderVars
<1>7. ASSUME NEW l \in Loaders, Subscribe(l) PROVE Enlisted'
  <2>1. /\ m_subscribers' = Append(m_subscribers, l) /\ monitor = "live" /\ loader[l] = "none"
        /\ loader' = [loader EXCEPT ![l] = "subscribed"]
        /\ monitor' = monitor /\ thread' = thread /\ event' = event
    BY <1>7 DEF Subscribe, Becomes, monitorVars, eventVars
  <2>2. /\ DOMAIN m_subscribers = 1 .. Len(m_subscribers) /\ Len(m_subscribers) \in Nat
        /\ DOMAIN m_subscribers' = 1 .. Len(m_subscribers) + 1
        /\ \A i \in DOMAIN m_subscribers : m_subscribers'[i] = m_subscribers[i]
        /\ m_subscribers'[Len(m_subscribers) + 1] = l
    BY <2>1, LenProperties, AppendProperties
  <2>3. \A i \in DOMAIN m_subscribers : m_subscribers[i] # l
    BY <2>1
  <2>4. \A i, j \in DOMAIN m_subscribers' : m_subscribers'[i] = m_subscribers'[j] => i = j
    BY <2>1, <2>2, <2>3
  <2>5. ASSUME NEW m \in Loaders
        PROVE  loader'[m] \in {"none", "dead"} <=> \A i \in DOMAIN m_subscribers' : m_subscribers'[i] # m
    <3>1. CASE m = l
      BY <2>1, <2>2, <3>1
    <3>2. CASE m # l
      <4>1. loader'[m] = loader[m]
        BY <2>1, <3>2
      <4>2. (\A i \in DOMAIN m_subscribers' : m_subscribers'[i] # m)
              <=> \A i \in DOMAIN m_subscribers : m_subscribers[i] # m
        BY <2>2, <3>2
      <4> QED BY <2>1, <4>1, <4>2
    <3> QED BY <3>1, <3>2
  <2> QED BY <2>1, <2>4, <2>5
<1>8. ASSUME NEW l \in Loaders, Constructed(l) \/ CloseHandlers(l) PROVE Enlisted'
  <2>1. /\ loader[l] \in {"subscribed", "live"} /\ m_subscribers' = m_subscribers
        /\ loader' \in {[loader EXCEPT ![l] = "live"], [loader EXCEPT ![l] = "closing"]}
        /\ monitor' = monitor /\ thread' = thread /\ event' = event
    BY <1>8 DEF Constructed, CloseHandlers, Becomes, monitorVars, eventVars
  <2>2. \A m \in Loaders : loader'[m] \in {"none", "dead"} <=> loader[m] \in {"none", "dead"}
    BY <2>1
  <2> QED BY <2>1, <2>2
<1>9. ASSUME NEW l \in Loaders, Unsubscribe(l) PROVE Enlisted'
  <2>1. /\ m_subscribers' = Others(l) /\ loader[l] = "closing"
        /\ loader' = [loader EXCEPT ![l] = "dead"]
        /\ monitor' = monitor /\ thread' = thread /\ event' = event
    BY <1>9 DEF Unsubscribe, Becomes, monitorVars, eventVars
  <2>2. CASE monitor = "dead"
    BY <2>1, <2>2, NothingMovesUp
  <2>3. CASE monitor # "dead"
    <3>1. PICK at \in DOMAIN m_subscribers : m_subscribers[at] = l
      BY <2>1, <2>3
    <3>2. /\ m_subscribers' \in Seq(Loaders)
          /\ \A i, j \in DOMAIN m_subscribers' : m_subscribers'[i] = m_subscribers'[j] => i = j
          /\ \A m \in Loaders : (\E i \in DOMAIN m_subscribers' : m_subscribers'[i] = m)
                     <=> m # l /\ \E i \in DOMAIN m_subscribers : m_subscribers[i] = m
      BY <2>1, <2>3, <3>1, OthersStay
    <3>3. ASSUME NEW m \in Loaders
          PROVE  loader'[m] \in {"none", "dead"} <=> \A i \in DOMAIN m_subscribers' : m_subscribers'[i] # m
      <4>1. /\ m = l => loader'[m] = "dead"
            /\ m # l => loader'[m] = loader[m]
        BY <2>1
      <4>2. loader[m] \in {"none", "dead"} <=> \A i \in DOMAIN m_subscribers : m_subscribers[i] # m
        BY <2>3
      <4> HIDE DEF Enlisted
      <4> QED BY <3>2, <4>1, <4>2
    <3> QED BY <2>1, <2>3, <3>2, <3>3
  <2> QED BY <2>2, <2>3
<1>10. CASE UNCHANGED pnpVars
  BY <1>10 DEF pnpVars, monitorVars, eventVars, loaderVars
<1> QED BY <1>1, <1>2, <1>3, <1>4, <1>5, <1>6, <1>7, <1>8, <1>9, <1>10
        DEF PnpNext, MonitorRoutine, CallStep

\* What read() leaves is a part of the queue.
LEMMA LeftTyped == ASSUME events \in Seq(Files), NEW n \in Nat PROVE Left(n) \in Seq(Files)
  BY SubSeqProperties, LenProperties, ElementOfSeq DEF Left

\* No step leaves the types; a file is announced, and kept, only once it was read.
LEMMA PnpStepTypes ==
    PnpTypeOK /\ Enlisted /\ Enlisted' /\ [PnpNext]_pnpVars => PnpTypeOK'
<1> SUFFICES ASSUME PnpTypeOK, Enlisted, Enlisted', [PnpNext]_pnpVars PROVE PnpTypeOK'
    OBVIOUS
<1> DEFINE Routine == thread \in {"start", "test", "read", "copy", "notify", "exit"}
           Monitors == /\ monitor \in {"live", "stopping", "dead"} /\ (isMonitoring <=> monitor = "live")
                       /\ dirPathOk \in BOOLEAN
           Events == events \in Seq(Files) /\ arrived \in Seq(Files) /\ event \in Files \cup {NoFile}
           Subscribers == m_subscribers \in Seq(Loaders) /\ copy \in Seq(Loaders)
           Handles == /\ m_symbolHandlers \in [Loaders -> Seq(Files)]
                      /\ opened \in [Loaders -> Seq(Files)] /\ closed \in [Loaders -> Seq(Files)]
           Lists == loader \in [Loaders -> Lives] /\ Handles /\ corrupted \in BOOLEAN
           Shapes == Routine /\ Monitors /\ Events /\ Subscribers /\ Lists
<1>1. Shapes /\ (thread \in {"copy", "notify"} => event \in Files)
  BY DEF PnpTypeOK, Enlisted
<1>2. <<>> \in Seq(Files) /\ <<>> \in Seq(Loaders)
  BY EmptySeq
<1>3. Shapes'
  <2>1. ASSUME NEW f \in Files, FileAppears(f) PROVE Shapes'
    BY <1>1, <2>1, AppendProperties DEF FileAppears, monitorVars, roundVars,
       loaderVars, handleVars
  <2>2. CASE ThreadStarts \/ Test \/ NotifyEnds \/ ReadFails
    BY <1>1, <2>2 DEF ThreadStarts, Test, NotifyEnds, ReadFails,
       monitorVars, eventVars, roundVars,
                      loaderVars, handleVars
  <2>3. CASE Read
    <3>1. \A n \in 1 .. Batch : Left(n) \in Seq(Files)
      BY <1>1, LeftTyped, PnpAssumption
    <3> QED BY <1>1, <2>3, <3>1, HeadTailProperties
            DEF Read, monitorVars, roundVars, loaderVars, handleVars
  <2>4. CASE CopySubscribers
    BY <1>1, <2>4 DEF CopySubscribers, monitorVars, eventVars, loaderVars,
       handleVars
  <2>5. CASE Notify
    <3>1. Head(copy) \in Loaders /\ Tail(copy) \in Seq(Loaders) /\ event \in Files
      BY <1>1, <2>5, HeadTailProperties DEF Notify, ThreadAt
    <3>2. Lists'
      <4>1. ASSUME NEW h \in [Loaders -> Seq(Files)]
            PROVE  [h EXCEPT ![Head(copy)] = Append(@, event)] \in [Loaders -> Seq(Files)]
        BY <3>1, AppendProperties
      <4> QED BY <1>1, <2>5, <4>1 DEF Notify, Load, Keep
    <3> QED BY <1>1, <2>5, <3>1, <3>2 DEF Notify, monitorVars, eventVars
  <2>6. CASE StopMonitor \/ JoinReturns
    <3>1. CASE StopMonitor
      BY <1>1, <3>1 DEF StopMonitor, eventVars, roundVars, loaderVars,
         handleVars
    <3>2. CASE JoinReturns
      BY <1>1, <1>2, <3>2 DEF JoinReturns, eventVars, roundVars, loaderVars,
         handleVars
    <3> QED BY <2>6, <3>1, <3>2
  <2>7. ASSUME NEW l \in Loaders, Subscribe(l) PROVE Shapes'
    BY <1>1, <2>7, AppendProperties
       DEF Subscribe, Becomes, Lives, monitorVars, eventVars,
           roundVars, handleVars
  <2>8. ASSUME NEW l \in Loaders, Constructed(l) \/ CloseHandlers(l) PROVE Shapes'
    <3>1. Lists'
      BY <1>1, <1>2, <2>8 DEF Constructed, CloseHandlers, Becomes, Lives
    <3> QED BY <1>1, <2>8, <3>1
            DEF Constructed, CloseHandlers, monitorVars, eventVars,
                roundVars
  <2>9. ASSUME NEW l \in Loaders, Unsubscribe(l) PROVE Shapes'
    <3>1. Others(l) \in Seq(Loaders)
      <4>1. CASE \E at \in DOMAIN m_subscribers : m_subscribers[at] = l
        BY <1>1, <4>1, OthersStay DEF Enlisted
      <4>2. CASE monitor = "dead"
        BY <1>2, <4>2, NothingMovesUp DEF Enlisted
      <4>3. loader[l] = "closing"
        BY <2>9 DEF Unsubscribe
      <4> QED BY <4>1, <4>2, <4>3 DEF Enlisted
    <3> QED BY <1>1, <2>9, <3>1
            DEF Unsubscribe, Becomes, Lives, monitorVars, eventVars,
                handleVars
  <2>10. CASE ReadOther
    <3>1. \A n \in 0 .. Batch - 1 : Left(n) \in Seq(Files)
      BY <1>1, LeftTyped, PnpAssumption
    <3> QED BY <1>1, <2>10, <3>1 DEF ReadOther, monitorVars, roundVars, loaderVars, handleVars
  <2>11. CASE UNCHANGED pnpVars
    BY <1>1, <2>11 DEF pnpVars, monitorVars, eventVars, roundVars, loaderVars,
       handleVars
  <2> QED BY <2>1, <2>2, <2>3, <2>4, <2>5, <2>6, <2>7, <2>8, <2>9, <2>10, <2>11
          DEF PnpNext, MonitorRoutine, CallStep
<1>4. ASSUME monitor' # "dead"
      PROVE  {m_subscribers'[i] : i \in DOMAIN m_subscribers'}
               = {l \in Loaders : loader'[l] \notin {"none", "dead"}}
  <2>1. \A i \in DOMAIN m_subscribers' : m_subscribers'[i] \in Loaders
    BY <1>3, LenProperties, ElementOfSeq
  <2> QED BY <1>4, <2>1 DEF Enlisted
<1> QED BY <1>3, <1>4 DEF PnpTypeOK, Enlisted

\* What is left of the queue once n files were taken from its front.
LEMMA FrontTaken ==
    ASSUME PnpTypeOK, Queued, NEW n \in Nat, arrived' = arrived, events' = Left(n)
    PROVE  /\ Taken' \in Nat /\ Taken <= Taken' /\ Taken' <= Len(arrived)
           /\ n # 0 /\ events # <<>> => Taken < Taken'
           /\ Queued'
<1>1. events \in Seq(Files) /\ arrived \in Seq(Files)
  BY DEF PnpTypeOK
<1>2. /\ Len(events) \in Nat /\ DOMAIN events = 1 .. Len(events)
      /\ Len(arrived) \in Nat /\ DOMAIN arrived = 1 .. Len(arrived)
      /\ events # <<>> => Len(events) # 0
  BY <1>1, LenProperties, EmptySeq
<1>3. /\ Left(n) \in Seq(Files)
      /\ Len(Left(n)) = IF n + 1 <= Len(events) THEN Len(events) - n ELSE 0
      /\ \A i \in 1 .. Len(Left(n)) : Left(n)[i] = events[n + i]
  <2>1. \A i \in n + 1 .. Len(events) : events[i] \in Files
    BY <1>1, <1>2, ElementOfSeq
  <2> QED BY <1>2, <2>1, SubSeqProperties DEF Left
<1>4. Taken \in Nat /\ Taken = Len(arrived) - Len(events) /\ Taken' = Len(arrived) - Len(Left(n))
  BY DEF Queued, Taken
<1>5. /\ Taken' \in Nat /\ Taken <= Taken' /\ Taken' <= Len(arrived)
      /\ n # 0 /\ Len(events) # 0 => Taken < Taken'
      /\ Len(Left(n)) # 0 => Taken' = Taken + n
  <2> DEFINE m == Len(events)
             k == Len(Left(n))
             a == Len(arrived)
             t == Taken
             u == Taken'
  <2>1. m \in Nat /\ a \in Nat /\ t = a - m /\ t \in Nat /\ u = a - k
        /\ k = IF n + 1 <= m THEN m - n ELSE 0
    BY <1>2, <1>3, <1>4
  <2> HIDE DEF m, k, a, t, u
  <2>2. u \in Nat /\ t <= u /\ u <= a /\ (n # 0 /\ m # 0 => t < u) /\ (k # 0 => u = t + n)
    BY <2>1
  <2> QED BY <2>2 DEF m, k, a, t, u
<1>6. ASSUME NEW i \in DOMAIN Left(n) PROVE Left(n)[i] = arrived[Taken' + i]
  <2>1. i \in 1 .. Len(Left(n)) /\ Len(Left(n)) \in Nat
    BY <1>3, <1>6, LenProperties
  <2>2. Taken' = Taken + n
    BY <1>5, <2>1
  <2>3. Len(Left(n)) = Len(events) - n
    BY <1>3, <2>1
  <2>4. n + i \in DOMAIN events
    BY <1>2, <2>1, <2>3
  <2>5. Taken + (n + i) = Taken' + i
    BY <1>4, <2>1, <2>2
  <2> QED BY <1>3, <2>1, <2>4, <2>5 DEF Queued
<1>7. Queued'
  BY <1>5, <1>6 DEF Queued
<1> QED BY <1>2, <1>5, <1>7

\* read() takes the next file, and perhaps more, off the queue.
LEMMA ReadTakes ==
    ASSUME PnpTypeOK, Queued, Read
    PROVE  /\ Taken' \in Nat /\ Taken < Taken' /\ Taken' <= Len(arrived)
           /\ event' = arrived[Taken + 1]
           /\ Queued'
<1>1. PICK n \in 1 .. Batch : events' = Left(n)
  BY DEF Read
<1>2. n \in Nat /\ n # 0 /\ events # <<>> /\ arrived' = arrived /\ event' = Head(events)
  BY <1>1, PnpAssumption DEF Read
<1>3. 1 \in DOMAIN events /\ Head(events) = events[1]
  BY <1>2, LenProperties, EmptySeq DEF PnpTypeOK
<1>4. event' = arrived[Taken + 1]
  BY <1>2, <1>3 DEF Queued
<1> QED BY <1>1, <1>2, <1>4, FrontTaken

\* An event of another mask takes the files that were read behind it.
LEMMA OtherTakes ==
    ASSUME PnpTypeOK, Queued, ReadOther
    PROVE  Taken' \in Nat /\ Taken <= Taken' /\ Queued'
<1>1. PICK n \in 0 .. Batch - 1 : events' = Left(n)
  BY DEF ReadOther
<1>2. n \in Nat /\ arrived' = arrived
  BY <1>1, PnpAssumption DEF ReadOther
<1> QED BY <1>1, <1>2, FrontTaken

\* A file that appears comes last in both lists.
LEMMA AppearsLast ==
    ASSUME PnpTypeOK, Queued, NEW f \in Files, FileAppears(f)
    PROVE  /\ Taken' = Taken /\ Queued'
           /\ \A p \in DOMAIN arrived : p \in DOMAIN arrived' /\ arrived'[p] = arrived[p]
<1>1. /\ events \in Seq(Files) /\ arrived \in Seq(Files)
      /\ arrived' = Append(arrived, f) /\ events' = Append(events, f)
      /\ \A i \in DOMAIN arrived : arrived[i] # f
  BY DEF PnpTypeOK, FileAppears
<1>2. /\ Len(events) \in Nat /\ DOMAIN events = 1 .. Len(events)
      /\ Len(arrived) \in Nat /\ DOMAIN arrived = 1 .. Len(arrived)
  BY <1>1, LenProperties
<1>3. /\ Len(events') = Len(events) + 1 /\ DOMAIN events' = 1 .. Len(events) + 1
      /\ Len(arrived') = Len(arrived) + 1 /\ DOMAIN arrived' = 1 .. Len(arrived) + 1
      /\ \A i \in DOMAIN events : events'[i] = events[i]
      /\ \A i \in DOMAIN arrived : arrived'[i] = arrived[i]
      /\ events'[Len(events) + 1] = f /\ arrived'[Len(arrived) + 1] = f
  BY <1>1, <1>2, AppendProperties, LenProperties
<1>4. Taken = Len(arrived) - Len(events) /\ Taken \in Nat /\ Taken' = Taken
  BY <1>2, <1>3 DEF Taken, Queued
<1>5. \A p, q \in DOMAIN arrived' : arrived'[p] = arrived'[q] => p = q
  BY <1>1, <1>2, <1>3 DEF Queued
<1>6. ASSUME NEW i \in DOMAIN events' PROVE events'[i] = arrived'[Taken' + i]
  <2>1. CASE i \in DOMAIN events
    <3>1. Taken + i \in DOMAIN arrived
      BY <1>2, <1>4, <2>1
    <3> QED BY <1>3, <1>4, <2>1, <3>1 DEF Queued
  <2>2. CASE i = Len(events) + 1
    BY <1>2, <1>3, <1>4, <2>2
  <2> QED BY <1>2, <1>3, <2>1, <2>2
<1> QED BY <1>2, <1>3, <1>4, <1>5, <1>6 DEF Queued

\* Only these two steps touch the lists.
LEMMA StepQueued ==
    PnpTypeOK /\ Queued /\ [PnpNext]_pnpVars => Queued'
<1> SUFFICES ASSUME PnpTypeOK, Queued, [PnpNext]_pnpVars PROVE Queued'
    OBVIOUS
<1>1. CASE \E f \in Files : FileAppears(f)
  BY <1>1, AppearsLast
<1>2. CASE Read \/ ReadOther
  BY <1>2, ReadTakes, OtherTakes
<1>3. CASE UNCHANGED <<arrived, events>>
  BY <1>3 DEF Queued, Taken
<1> QED BY <1>1, <1>2, <1>3
        DEF PnpNext, MonitorRoutine, CallStep, pnpVars, eventVars,
            ThreadStarts, Test, CopySubscribers,
            Notify, NotifyEnds, ReadFails, StopMonitor, JoinReturns,
            Subscribe, Constructed,
            CloseHandlers, Unsubscribe

\* A round announces a file that came after all the others the loaders know of,
\* and tells each loader once.
LEMMA StepOrdered ==
    PnpTypeOK /\ Enlisted /\ Queued /\ Ordered /\ [PnpNext]_pnpVars => Ordered'
<1> SUFFICES ASSUME PnpTypeOK, Enlisted, Queued, Ordered, [PnpNext]_pnpVars PROVE Ordered'
    OBVIOUS
<1>1. /\ arrived \in Seq(Files) /\ copy \in Seq(Loaders) /\ opened \in [Loaders -> Seq(Files)]
      /\ m_subscribers \in Seq(Loaders)
  BY DEF PnpTypeOK
<1>2. Taken \in Nat /\ DOMAIN arrived = 1 .. Len(arrived) /\ Len(arrived) \in Nat /\ Taken <= Len(arrived)
  BY <1>1, LenProperties DEF Queued, Taken, PnpTypeOK
<1>3. ASSUME NEW f \in Files, FileAppears(f) PROVE Ordered'
  <2>1. UNCHANGED <<thread, event, copy, opened>> /\ Taken' = Taken
        /\ \A p \in DOMAIN arrived : p \in DOMAIN arrived' /\ arrived'[p] = arrived[p]
    BY <1>3, AppearsLast DEF FileAppears, roundVars, loaderVars, handleVars
  <2>2. \A g, h : Before(g, h) => Before(g, h)'
    BY <2>1 DEF Before
  <2>3. \A g : WasRead(g) => WasRead(g)'
    BY <1>2, <2>1 DEF WasRead
  <2> QED BY <2>1, <2>2, <2>3 DEF Ordered
<1>4. CASE Read
  <2>1. UNCHANGED <<arrived, opened>> /\ thread' = "copy"
    BY <1>4 DEF Read, loaderVars, handleVars
  <2>2. /\ Taken' \in Nat /\ Taken < Taken' /\ Taken' <= Len(arrived) /\ event' = arrived[Taken + 1]
    BY <1>4, ReadTakes
  <2>3. \A g, h : Before(g, h) => Before(g, h)'
    BY <2>1 DEF Before
  <2>4. \A g : WasRead(g) => WasRead(g)' /\ Before(g, event)'
    BY <1>2, <2>1, <2>2 DEF WasRead, Before
  <2>5. WasRead(event)'
    BY <1>2, <2>1, <2>2 DEF WasRead
  <2> QED BY <2>1, <2>3, <2>4, <2>5 DEF Ordered
<1>5. CASE Notify
  <2> DEFINE l == Head(copy)
  <2>1. /\ UNCHANGED <<thread, event, arrived, events>> /\ thread = "notify"
        /\ copy' = Tail(copy) /\ copy # <<>>
        /\ opened' \in {opened, [opened EXCEPT ![l] = Append(@, event)]}
    BY <1>5 DEF Notify, Load, ThreadAt, eventVars
  <2>2. /\ l \in Loaders /\ l = copy[1] /\ Len(copy) \in Nat /\ DOMAIN copy = 1 .. Len(copy)
        /\ DOMAIN copy' = 1 .. Len(copy) - 1 /\ 1 \in DOMAIN copy
        /\ \A k \in DOMAIN copy' : k + 1 \in DOMAIN copy /\ copy'[k] = copy[k + 1]
    BY <1>1, <2>1, HeadTailProperties, LenProperties, EmptySeq
  <2>3. (\A g, h : Before(g, h)' <=> Before(g, h)) /\ (\A g : WasRead(g)' <=> WasRead(g))
    BY <2>1 DEF Before, WasRead, Taken
  <2>4. \A k \in DOMAIN copy' : copy'[k] # l /\ copy'[k] \in Loaders
    <3> SUFFICES ASSUME NEW k \in DOMAIN copy' PROVE copy'[k] # l /\ copy'[k] \in Loaders
        OBVIOUS
    <3>1. k + 1 \in DOMAIN copy /\ k + 1 # 1 /\ copy'[k] = copy[k + 1]
      BY <2>2
    <3>2. copy[k + 1] # copy[1]
      BY <2>1, <2>2, <3>1 DEF Ordered
    <3>3. copy[k + 1] \in Loaders
      BY <1>1, <2>2, <3>1, ElementOfSeq
    <3> QED BY <2>2, <3>1, <3>2, <3>3
  <2>5. event \in Files
    BY <2>1 DEF Enlisted
  <2>6. CASE opened' = opened
    BY <2>1, <2>2, <2>3, <2>6 DEF Ordered
  <2>7. CASE opened' = [opened EXCEPT ![l] = Append(@, event)]
    <3>1. \A m \in Loaders : m # l => opened'[m] = opened[m]
      BY <1>1, <2>7
    <3>2. opened'[l] = Append(opened[l], event) /\ opened[l] \in Seq(Files)
      BY <1>1, <2>2, <2>7
    <3>3. /\ Len(opened[l]) \in Nat /\ DOMAIN opened[l] = 1 .. Len(opened[l])
          /\ DOMAIN opened'[l] = 1 .. Len(opened[l]) + 1
          /\ \A i \in DOMAIN opened[l] : opened'[l][i] = opened[l][i]
          /\ opened'[l][Len(opened[l]) + 1] = event
      BY <2>5, <3>2, AppendProperties, LenProperties
    <3>4. \A i \in DOMAIN opened[l] : Before(opened[l][i], event)
      BY <2>1, <2>2 DEF Ordered
    <3>5. \A i, j \in DOMAIN opened'[l] : i < j => Before(opened'[l][i], opened'[l][j])
      <4> SUFFICES ASSUME NEW i \in DOMAIN opened'[l], NEW j \in DOMAIN opened'[l], i < j
                   PROVE  Before(opened'[l][i], opened'[l][j])
          OBVIOUS
      <4>1. i \in DOMAIN opened[l] /\ opened'[l][i] = opened[l][i]
        BY <3>3
      <4>2. CASE j \in DOMAIN opened[l]
        BY <2>2, <3>3, <4>1, <4>2 DEF Ordered
      <4>3. CASE j = Len(opened[l]) + 1
        BY <3>3, <3>4, <4>1, <4>3
      <4> QED BY <3>3, <4>2, <4>3
    <3>6. \A i \in DOMAIN opened'[l] : WasRead(opened'[l][i])
      <4>1. WasRead(event) /\ \A i \in DOMAIN opened[l] : WasRead(opened[l][i])
        BY <2>1, <2>2 DEF Ordered
      <4> QED BY <3>3, <4>1
    <3>7. \A m \in Loaders :
            /\ \A i \in DOMAIN opened'[m] : WasRead(opened'[m][i])
            /\ \A i, j \in DOMAIN opened'[m] : i < j => Before(opened'[m][i], opened'[m][j])
      BY <3>1, <3>5, <3>6 DEF Ordered
    <3>8. \A k \in DOMAIN copy' : \A i \in DOMAIN opened'[copy'[k]] : Before(opened'[copy'[k]][i], event)
      BY <2>1, <2>2, <2>4, <3>1 DEF Ordered
    <3>9. (\A i, j \in DOMAIN copy' : copy'[i] = copy'[j] => i = j) /\ WasRead(event)
      BY <2>1, <2>2 DEF Ordered
    <3> QED BY <2>1, <2>3, <3>7, <3>8, <3>9 DEF Ordered
  <2> QED BY <2>1, <2>6, <2>7
<1>6. CASE CopySubscribers
  <2>1. UNCHANGED <<event, arrived, events, opened>> /\ thread = "copy" /\ thread' = "notify"
        /\ copy' = m_subscribers
    BY <1>6 DEF CopySubscribers, ThreadAt, eventVars, loaderVars, handleVars
  <2>2. (\A g, h : Before(g, h)' <=> Before(g, h)) /\ (\A g : WasRead(g)' <=> WasRead(g))
    BY <2>1 DEF Before, WasRead, Taken
  <2>3. \A i, j \in DOMAIN m_subscribers : m_subscribers[i] = m_subscribers[j] => i = j
    BY DEF Enlisted
  <2>4. \A k \in DOMAIN m_subscribers : m_subscribers[k] \in Loaders
    BY <1>1, LenProperties, ElementOfSeq
  <2> QED BY <2>1, <2>2, <2>3, <2>4 DEF Ordered
<1>7. CASE UNCHANGED <<event, arrived, events, opened, copy>>
           /\ (thread' = thread \/ thread' \notin {"copy", "notify"})
  <2>1. (\A g, h : Before(g, h)' <=> Before(g, h)) /\ (\A g : WasRead(g)' <=> WasRead(g))
    BY <1>7 DEF Before, WasRead, Taken
  <2> QED BY <1>7, <2>1 DEF Ordered
<1>8. CASE ReadOther
  <2>1. UNCHANGED <<arrived, opened>> /\ thread' = "test"
    BY <1>8 DEF ReadOther, loaderVars, handleVars
  <2>2. Taken' \in Nat /\ Taken <= Taken'
    BY <1>8, OtherTakes
  <2>3. \A g, h : Before(g, h) => Before(g, h)'
    BY <2>1 DEF Before
  <2>4. \A g : WasRead(g) => WasRead(g)'
    BY <1>2, <2>1, <2>2 DEF WasRead
  <2> QED BY <2>1, <2>3, <2>4 DEF Ordered
<1> QED BY <1>3, <1>4, <1>5, <1>6, <1>7, <1>8
        DEF PnpNext, MonitorRoutine, CallStep, pnpVars, eventVars, roundVars,
            loaderVars, handleVars,
            ThreadStarts, Test, NotifyEnds, ReadFails, StopMonitor,
            JoinReturns, Subscribe,
            Constructed, CloseHandlers, Unsubscribe

\* What a loader keeps is what it opened, until it was notified out of its life.
LEMMA StepKept == PnpTypeOK /\ Kept /\ [PnpNext]_pnpVars => Kept'
<1> SUFFICES ASSUME PnpTypeOK, Kept, [PnpNext]_pnpVars, NEW m \in Loaders, m \notin raced'
             PROVE  /\ loader'[m] \in {"none", "subscribed"} => opened'[m] = <<>> /\ m_symbolHandlers'[m] = <<>>
                    /\ loader'[m] = "live" => m_symbolHandlers'[m] = opened'[m]
                    /\ loader'[m] \in {"closing", "dead"} => closed'[m] = opened'[m]
    BY DEF Kept
<1>1. /\ loader \in [Loaders -> Lives]
      /\ m_symbolHandlers \in [Loaders -> Seq(Files)]
      /\ opened \in [Loaders -> Seq(Files)] /\ closed \in [Loaders -> Seq(Files)]
  BY DEF PnpTypeOK
<1>2. CASE Notify
  <2>1. /\ loader' = loader /\ closed' = closed /\ m \notin raced
        /\ Head(copy) = m => loader[m] = "live"
        /\ \/ /\ opened' = [opened EXCEPT ![Head(copy)] = Append(@, event)]
              /\ m_symbolHandlers' = [m_symbolHandlers EXCEPT ![Head(copy)] = Append(@, event)]
           \/ opened' = opened /\ m_symbolHandlers' = m_symbolHandlers
    BY <1>2 DEF Notify, Load, Keep
  <2>2. CASE Head(copy) = m
    <3>1. m_symbolHandlers[m] = opened[m] /\ loader[m] = "live"
      BY <2>1, <2>2 DEF Kept
    <3>2. m_symbolHandlers'[m] = opened'[m]
      BY <1>1, <2>1, <2>2, <3>1
    <3> QED BY <2>1, <3>1, <3>2
  <2>3. CASE Head(copy) # m
    <3>1. opened'[m] = opened[m] /\ m_symbolHandlers'[m] = m_symbolHandlers[m]
      BY <1>1, <2>1, <2>3
    <3> QED BY <2>1, <3>1 DEF Kept
  <2> QED BY <2>2, <2>3
<1>3. ASSUME NEW l \in Loaders, Subscribe(l) \/ Constructed(l) \/ CloseHandlers(l) \/ Unsubscribe(l)
      PROVE  /\ loader'[m] \in {"none", "subscribed"} => opened'[m] = <<>> /\ m_symbolHandlers'[m] = <<>>
             /\ loader'[m] = "live" => m_symbolHandlers'[m] = opened'[m]
             /\ loader'[m] \in {"closing", "dead"} => closed'[m] = opened'[m]
  BY <1>1, <1>3 DEF Kept, Subscribe, Constructed, CloseHandlers, Unsubscribe,
     Becomes, handleVars
<1>4. CASE UNCHANGED <<loader, opened, closed, m_symbolHandlers, raced>>
  BY <1>4 DEF Kept
<1> QED BY <1>2, <1>3, <1>4
        DEF PnpNext, MonitorRoutine, CallStep, pnpVars, loaderVars,
            handleVars, FileAppears,
            ThreadStarts, Test, Read, ReadOther, CopySubscribers, NotifyEnds,
            ReadFails, StopMonitor, JoinReturns

\* A subscriber leaves the round by being told, or by unsubscribing.
LEMMA StepTold == PnpTypeOK /\ Told /\ [PnpNext]_pnpVars => Told'
<1> SUFFICES ASSUME PnpTypeOK, Told, [PnpNext]_pnpVars, thread' = "notify", NEW l \in due'
             PROVE  l \in told' \/ \E k \in DOMAIN copy' : copy'[k] = l
    BY DEF Told
<1>1. CASE CopySubscribers
  BY <1>1 DEF CopySubscribers
<1>2. CASE Notify
  <2>1. /\ copy \in Seq(Loaders) /\ copy # <<>> /\ copy' = Tail(copy) /\ due' = due
        /\ told' = told \cup {Head(copy)} /\ thread = "notify"
    BY <1>2 DEF Notify, PnpTypeOK, ThreadAt
  <2>2. /\ Len(copy) \in Nat /\ DOMAIN copy = 1 .. Len(copy) /\ Head(copy) = copy[1]
        /\ DOMAIN copy' = 1 .. Len(copy) - 1
        /\ \A k \in DOMAIN copy' : copy'[k] = copy[k + 1]
    BY <2>1, HeadTailProperties, LenProperties, EmptySeq
  <2>3. CASE l \in told
    BY <2>1, <2>3
  <2>4. ASSUME NEW k \in DOMAIN copy, copy[k] = l
        PROVE  l \in told' \/ \E j \in DOMAIN copy' : copy'[j] = l
    <3>1. CASE k = 1
      BY <2>1, <2>2, <2>4, <3>1
    <3>2. CASE k # 1
      <4>1. k - 1 \in DOMAIN copy' /\ copy'[k - 1] = l
        BY <2>2, <2>4, <3>2
      <4> QED BY <4>1
    <3> QED BY <3>1, <3>2
  <2> QED BY <2>1, <2>3, <2>4 DEF Told
<1>3. CASE thread = "notify" /\ UNCHANGED <<copy, told>> /\ due' \subseteq due
  BY <1>3 DEF Told
<1> QED BY <1>1, <1>2, <1>3
        DEF PnpNext, MonitorRoutine, CallStep, pnpVars, roundVars,
            FileAppears, ThreadAt,
            ThreadStarts, Test, Read, ReadOther, NotifyEnds, ReadFails,
            StopMonitor, JoinReturns,
            Subscribe, Constructed, CloseHandlers, Unsubscribe

\* The invariant of the component.
LEMMA PnpInvariantHolds == PnpSpec => []PnpInv
<1>1. PnpInv /\ [PnpNext]_pnpVars => PnpInv'
  BY StepEnlisted, PnpStepTypes, StepQueued, StepOrdered, StepKept, StepTold DEF PnpInv
<1> QED BY PnpInitHolds, <1>1, PTL DEF PnpSpec

\* The vector of subscribers holds each loader alive once, whatever the order in
\* which loaders come and go while the thread copies and notifies.
THEOREM PnpTypesHold == PnpSpec => []PnpTypeOK
<1>1. PnpInv => PnpTypeOK
  BY DEF PnpInv
<1> QED BY PnpInvariantHolds, <1>1, PTL

\* However many files come between two reads, a loader opens each once at most,
\* in the order in which they appeared.
THEOREM FilesOpenInOrder == PnpSpec => []OpenedInOrder
<1>1. PnpInv => OpenedInOrder
  <2> SUFFICES ASSUME PnpInv, NEW l \in Loaders, NEW i \in DOMAIN opened[l], NEW j \in DOMAIN opened[l], i < j
               PROVE  (CHOOSE p \in DOMAIN arrived : arrived[p] = opened[l][i])
                        < (CHOOSE p \in DOMAIN arrived : arrived[p] = opened[l][j])
      BY DEF OpenedInOrder
  <2>1. \A p, q \in DOMAIN arrived : arrived[p] = arrived[q] => p = q
    BY DEF PnpInv, Queued
  <2>2. PICK p, q \in DOMAIN arrived : p < q /\ arrived[p] = opened[l][i] /\ arrived[q] = opened[l][j]
    BY DEF PnpInv, Ordered, Before
  <2> QED BY <2>1, <2>2
<1> QED BY PnpInvariantHolds, <1>1, PTL

\* A loader that was never notified outside its life has closed, once it is gone,
\* exactly what it opened.
THEOREM HandlesAreClosed == PnpSpec => []HandlesClosed
<1>1. PnpInv => HandlesClosed
  BY DEF PnpInv, Kept, HandlesClosed
<1> QED BY PnpInvariantHolds, <1>1, PTL

\* NotifyAll ends only when every subscriber that stayed was told.
THEOREM RoundsTellStayers == PnpSpec => StayersAreTold
<1>1. PnpInv /\ [PnpNext]_pnpVars => [thread = "notify" /\ thread' = "test" => due \subseteq told]_pnpVars
  <2> SUFFICES ASSUME PnpInv, PnpNext, thread = "notify", thread' = "test" PROVE due \subseteq told
      OBVIOUS
  <2>1. copy = <<>>
    BY DEF PnpNext, MonitorRoutine, CallStep, FileAppears, ThreadAt,
           ThreadStarts, Test, Read, ReadOther, CopySubscribers, Notify,
           NotifyEnds, ReadFails, StopMonitor,
           JoinReturns, Subscribe, Constructed, CloseHandlers, Unsubscribe
  <2> QED BY <2>1 DEF PnpInv, Told
<1> QED BY PnpInvariantHolds, <1>1, PTL DEF PnpSpec, StayersAreTold

=============================================================================
