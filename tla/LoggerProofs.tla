----------------------------- MODULE LoggerProofs -----------------------------
(*
  The writing thread takes no lock: that SetPath, SetFilter and Log meet it
  anywhere and still no message is lost, doubled or overtaken.
*)
EXTENDS LoggerProperties, SequenceTheorems, TLAPS

\* The thread pops what it saw: only it takes messages out.
Seen == thread = "pop" => m_queue # <<>>

IInv == TypeOK /\ Seen /\ InOrder

\* A sequence is its head and the rest.
LEMMA HeadThenTail ==
    ASSUME NEW S, NEW s \in Seq(S), s # <<>>
    PROVE  /\ Head(s) \in S /\ Tail(s) \in Seq(S)
           /\ s = <<Head(s)>> \o Tail(s)
<1>1. Head(s) \in S /\ Tail(s) \in Seq(S) /\ Len(Tail(s)) = Len(s) - 1
      /\ \A i \in 1 .. Len(Tail(s)) : Tail(s)[i] = s[i + 1]
  BY HeadTailProperties
<1>2. <<Head(s)>> \in Seq(S) /\ Len(<<Head(s)>>) = 1 /\ <<Head(s)>>[1] = Head(s) /\ Head(s) = s[1]
  BY <1>1
<1>3. /\ <<Head(s)>> \o Tail(s) \in Seq(S)
      /\ Len(<<Head(s)>> \o Tail(s)) = Len(<<Head(s)>>) + Len(Tail(s))
      /\ \A i \in 1 .. Len(<<Head(s)>>) + Len(Tail(s)) :
            (<<Head(s)>> \o Tail(s))[i] =
                IF i <= Len(<<Head(s)>>) THEN <<Head(s)>>[i] ELSE Tail(s)[i - Len(<<Head(s)>>)]
  BY <1>1, <1>2, ConcatProperties
<1>4. Len(s) \in Nat /\ Len(s) = Len(<<Head(s)>> \o Tail(s))
  BY <1>1, <1>2, <1>3, LenProperties
<1>5. ASSUME NEW i \in 1 .. Len(s) PROVE s[i] = (<<Head(s)>> \o Tail(s))[i]
  <2>1. CASE i = 1
    BY <1>2, <1>3, <1>4, <2>1
  <2>2. CASE i # 1
    <3>1. i - 1 \in 1 .. Len(Tail(s)) /\ Tail(s)[i - 1] = s[(i - 1) + 1]
      BY <1>1, <1>4, <2>2
    <3> QED BY <1>2, <1>3, <1>4, <2>2, <3>1
  <2> QED BY <2>1, <2>2
<1> QED BY <1>1, <1>3, <1>4, <1>5, SeqEqual

\* What a sequence of << file, message >> pairs holds is messages.
LEMMA WrittenAreMsgs ==
    ASSUME NEW W \in Seq(Files \X Msgs)
    PROVE  /\ [i \in DOMAIN W |-> W[i][2]] \in Seq(Msgs)
           /\ Len([i \in DOMAIN W |-> W[i][2]]) = Len(W)
<1>1. Len(W) \in Nat /\ DOMAIN W = 1 .. Len(W)
  BY LenProperties
<1>2. \A i \in 1 .. Len(W) : W[i][2] \in Msgs
  BY ElementOfSeq
<1> QED BY <1>1, <1>2

\* The messages of a longer file are those of the shorter, and the new one.
LEMMA WrittenGrows ==
    ASSUME NEW W \in Seq(Files \X Msgs), NEW x \in Files \X Msgs
    PROVE  [i \in DOMAIN Append(W, x) |-> Append(W, x)[i][2]]
             = [i \in DOMAIN W |-> W[i][2]] \o <<x[2]>>
<1> DEFINE T == [i \in DOMAIN W |-> W[i][2]]
           U == [i \in DOMAIN Append(W, x) |-> Append(W, x)[i][2]]
<1>1. Len(W) \in Nat /\ DOMAIN W = 1 .. Len(W)
  BY LenProperties
<1>2. \A i \in 1 .. Len(W) : W[i][2] \in Msgs
  BY ElementOfSeq
<1>3. T \in Seq(Msgs) /\ Len(T) = Len(W)
  BY WrittenAreMsgs
<1>4. /\ Append(W, x) \in Seq(Files \X Msgs) /\ Len(Append(W, x)) = Len(W) + 1
      /\ \A i \in 1 .. Len(W) : Append(W, x)[i] = W[i]
      /\ Append(W, x)[Len(W) + 1] = x
  BY AppendProperties
<1>5. DOMAIN Append(W, x) = 1 .. Len(W) + 1
  BY <1>1, <1>4, LenProperties
<1>6. x[2] \in Msgs
  OBVIOUS
<1>7. T \o <<x[2]>> \in Seq(Msgs) /\ Len(T \o <<x[2]>>) = Len(W) + 1
      /\ \A i \in 1 .. Len(W) + 1 : (T \o <<x[2]>>)[i] = IF i <= Len(W) THEN T[i] ELSE x[2]
  BY <1>1, <1>3, <1>6
<1>8. U \in Seq(Msgs) /\ Len(U) = Len(W) + 1
      /\ \A i \in 1 .. Len(W) + 1 : U[i] = IF i <= Len(W) THEN T[i] ELSE x[2]
  BY <1>1, <1>2, <1>4, <1>5, <1>6
<1> HIDE DEF T, U
<1>9. U = T \o <<x[2]>>
  BY <1>7, <1>8, SeqEqual
<1> QED BY <1>9 DEF T, U

\* The invariant holds when the thread has been started.
LEMMA InitHolds == Init => IInv
<1> SUFFICES ASSUME Init PROVE IInv
    OBVIOUS
<1>1. /\ object = "constructing" /\ m_filter = 0 /\ m_log_fd = Closed /\ m_logMutex = NoClient
      /\ m_queue = <<>> /\ pushed = <<>> /\ written = <<>> /\ waiting = {}
      /\ thread = "test" /\ taken = NoMsg /\ should_stop \in BOOLEAN
  BY LoggerAssumption DEF Init
<1>2. client = [c \in Clients |-> "idle"] /\ arg = [c \in Clients |-> NoMsg]
  BY DEF Init
<1>3. TypeOK
  BY <1>1, <1>2, LoggerAssumption DEF TypeOK, Files
<1>4. Seen
  BY <1>1 DEF Seen
<1>5. WrittenMsgs = <<>> /\ InHand = <<>>
  BY <1>1 DEF WrittenMsgs, InHand
<1>6. InOrder
  BY <1>1, <1>5 DEF InOrder
<1> QED BY <1>3, <1>4, <1>6 DEF IInv

\* No step of the thread or of a call leaves the types.
LEMMA StepTypes == TypeOK /\ Seen /\ [Next]_vars => TypeOK'
<1> SUFFICES ASSUME TypeOK, Seen, [Next]_vars PROVE TypeOK'
    OBVIOUS
<1> USE LoggerAssumption DEF TypeOK, objectVars, queueVars, lockVars, threadVars, clientVars,
                             ThreadAt, ClientAt, Goes
<1>1. CASE Constructed
  BY <1>1 DEF Constructed, Files
<1>2. CASE TestStop \/ Peek
  BY <1>2 DEF TestStop, Peek
<1>3. CASE Pop
  <2>1. Head(m_queue) \in Msgs /\ Tail(m_queue) \in Seq(Msgs)
    BY <1>3, HeadThenTail DEF Pop, Seen
  <2> QED BY <1>3, <2>1 DEF Pop
<1>4. CASE Write
  <2>1. Append(written, <<m_log_fd, taken>>) \in Seq(Files \X Msgs)
    BY <1>4 DEF Write
  <2> QED BY <1>4, <2>1 DEF Write
<1>5. CASE PeekRawMemory
  BY <1>5 DEF PeekRawMemory
<1>6. ASSUME NEW c \in Clients, NEW m \in Msgs, Log(c, m) PROVE TypeOK'
  BY <1>6 DEF Log
<1>7. ASSUME NEW c \in Clients, Push(c) PROVE TypeOK'
  BY <1>7 DEF Push, Queued
<1>8. ASSUME NEW c \in Clients, NEW level \in Levels, SetFilter(c, level) PROVE TypeOK'
  BY <1>8 DEF SetFilter
<1>9. ASSUME NEW c \in Clients, NEW path \in Paths, SetPath(c, path) PROVE TypeOK'
  BY <1>9 DEF SetPath
<1>10. ASSUME NEW c \in Clients, Drain(c) PROVE TypeOK'
  BY <1>10 DEF Drain
<1>11. ASSUME NEW c \in Clients, SpuriousWake(c) PROVE TypeOK'
  BY <1>11 DEF SpuriousWake
<1>12. ASSUME NEW c \in Clients, Close(c) PROVE TypeOK'
  BY <1>12 DEF Close, Files
<1>13. ASSUME NEW c \in Clients, Open(c) PROVE TypeOK'
  BY <1>13 DEF Open, Files
<1>14. CASE Destroy
  BY <1>14 DEF Destroy
<1>15. CASE Destroyed
  BY <1>15 DEF Destroyed, Files
<1>16. CASE UNCHANGED vars
  BY <1>16 DEF vars
<1> QED
  BY <1>1, <1>2, <1>3, <1>4, <1>5, <1>6, <1>7, <1>8, <1>9, <1>10, <1>11, <1>12, <1>13, <1>14,
     <1>15, <1>16
  DEF Next, LogThreadFunc, Continue

\* What the clients do to the lock, the path and the filter moves no message.
LEMMA StillOrdered ==
    ASSUME Seen, InOrder, UNCHANGED <<queueVars, written, taken>>,
           thread' # "pop" \/ (thread' = thread)
    PROVE  Seen' /\ InOrder'
  BY DEF Seen, InOrder, WrittenMsgs, InHand, queueVars

\* Each of the three steps a message makes keeps it in its place.
LEMMA StepOrdered == IInv /\ [Next]_vars => Seen' /\ InOrder'
<1> SUFFICES ASSUME TypeOK, Seen, InOrder, [Next]_vars PROVE Seen' /\ InOrder'
    BY DEF IInv
<1>1. WrittenMsgs \in Seq(Msgs) /\ InHand \in Seq(Msgs) /\ m_queue \in Seq(Msgs)
  <2>1. WrittenMsgs \in Seq(Msgs)
    BY WrittenAreMsgs DEF TypeOK, WrittenMsgs
  <2> QED BY <2>1 DEF TypeOK, InHand
<1>2. CASE Pop
  <2>1. /\ Head(m_queue) \in Msgs /\ Tail(m_queue) \in Seq(Msgs)
        /\ m_queue = <<Head(m_queue)>> \o Tail(m_queue)
    BY <1>2, HeadThenTail DEF TypeOK, Pop, ThreadAt, Seen
  <2>2. InHand = <<>> /\ InHand' = <<Head(m_queue)>> /\ m_queue' = Tail(m_queue)
    BY <1>2, <2>1, LoggerAssumption DEF TypeOK, Pop, ThreadAt, InHand
  <2>3. WrittenMsgs' = WrittenMsgs /\ pushed' = pushed /\ thread' = "write"
    BY <1>2 DEF Pop, WrittenMsgs
  <2>4. WrittenMsgs \o InHand = WrittenMsgs
    BY <1>1, <2>2, ConcatEmptySeq
  <2>5. (WrittenMsgs \o <<Head(m_queue)>>) \o Tail(m_queue)
          = WrittenMsgs \o (<<Head(m_queue)>> \o Tail(m_queue))
    BY <1>1, <2>1, ConcatAssociative
  <2> QED BY <2>1, <2>2, <2>3, <2>4, <2>5 DEF InOrder, Seen
<1>3. CASE Write
  <2>1. taken \in Msgs /\ taken # NoMsg
    BY <1>3, LoggerAssumption DEF TypeOK, Write, ThreadAt
  <2>2. InHand = <<taken>> /\ InHand' = <<>> /\ thread' = "test"
    BY <1>3, <2>1 DEF Write, InHand
  <2>3. WrittenMsgs' = WrittenMsgs \o <<taken>>
    BY <1>3, <2>1, WrittenGrows DEF TypeOK, Write, WrittenMsgs
  <2>4. (WrittenMsgs \o <<taken>>) \o <<>> = WrittenMsgs \o <<taken>>
    BY <1>1, <2>1, ConcatEmptySeq
  <2>5. pushed' = pushed /\ m_queue' = m_queue
    BY <1>3 DEF Write, queueVars
  <2> QED BY <2>2, <2>3, <2>4, <2>5 DEF InOrder, Seen
<1>4. ASSUME NEW c \in Clients, Push(c) PROVE Seen' /\ InOrder'
  <2>1. arg[c] \in Msgs
    BY <1>4 DEF TypeOK, Push, ClientAt
  <2>2. m_queue' = m_queue \o <<arg[c]>> /\ pushed' = pushed \o <<arg[c]>>
    BY <1>4, <1>1, <2>1, AppendIsConcat DEF TypeOK, Push, Queued
  <2>3. WrittenMsgs' = WrittenMsgs /\ InHand' = InHand /\ thread' = thread
    BY <1>4 DEF Push, threadVars, WrittenMsgs, InHand
  <2>4. WrittenMsgs \o InHand \in Seq(Msgs)
    BY <1>1, ConcatProperties
  <2>5. ((WrittenMsgs \o InHand) \o m_queue) \o <<arg[c]>>
          = (WrittenMsgs \o InHand) \o (m_queue \o <<arg[c]>>)
    BY <1>1, <2>1, <2>4, ConcatAssociative
  <2>6. m_queue' # <<>>
    BY <1>1, <2>1, <2>2
  <2> QED BY <2>2, <2>3, <2>5, <2>6 DEF InOrder, Seen
<1>5. CASE Constructed \/ PeekRawMemory \/ Destroy \/ Destroyed \/ UNCHANGED vars
  BY <1>5, StillOrdered
     DEF Constructed, PeekRawMemory, Destroy, Destroyed, vars, objectVars, threadVars
<1>6. CASE TestStop \/ Peek
  <2>1. UNCHANGED <<queueVars, written, taken>>
    BY <1>6 DEF TestStop, Peek
  <2>2. Seen'
    BY <1>6, <2>1 DEF TestStop, Peek, IsEmpty, Seen, queueVars
  <2> QED BY <2>1, <2>2 DEF InOrder, WrittenMsgs, InHand, queueVars
<1>7. ASSUME NEW c \in Clients,
             \/ Drain(c) \/ SpuriousWake(c) \/ Close(c) \/ Open(c)
             \/ \E m \in Msgs : Log(c, m)
             \/ \E level \in Levels : SetFilter(c, level)
             \/ \E path \in Paths : SetPath(c, path)
      PROVE  Seen' /\ InOrder'
  BY <1>7, StillOrdered
     DEF Drain, SpuriousWake, Close, Open, Log, SetFilter, SetPath, threadVars
<1> QED
  BY <1>2, <1>3, <1>4, <1>5, <1>6, <1>7 DEF Next, LogThreadFunc, Continue

\* The three parts together are inductive.
LEMMA InvariantHolds == Spec => []IInv
<1>1. IInv /\ [Next]_vars => IInv'
  BY StepTypes, StepOrdered DEF IInv
<1> QED BY InitHolds, <1>1, PTL DEF Spec

\* The state has the types TypeOK gives it; a message is in hand while it is written.
THEOREM TypesHold == Spec => []TypeOK
<1>1. IInv => TypeOK
  BY DEF IInv
<1> QED BY InvariantHolds, <1>1, PTL

\* Whatever SetPath, SetFilter and other clients do meanwhile, the files hold the
\* messages in the order they entered the queue, each once.
THEOREM MessagesInOrder == Spec => []InOrder
<1>1. IInv => InOrder
  BY DEF IInv
<1> QED BY InvariantHolds, <1>1, PTL

=============================================================================
