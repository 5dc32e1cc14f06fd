------------------------------- MODULE Logger -------------------------------
(*
  framework/src/logger.cpp: a queue of messages that one thread, LogThreadFunc,
  writes to the file that is open, and the calls that other threads make. The
  text of a message is left out; what is kept is which message is written where.
  m_logMutex and m_queue_cond are used by SetPath and SetFilter only; the
  writing thread takes neither.
*)
EXTENDS Naturals, Sequences

CONSTANTS Clients,   \* the threads that log
          Msgs,      \* the messages, each logged at most once
          Severity,  \* the level of each
          Levels,
          Paths,     \* the arguments of SetPath
          LogTxt,    \* "log.txt", which the constructor opens
          Closed,    \* no file: m_log_fd is closed or failed
          RawStop,   \* what the memory of should_stop may hold before it is initialised
          NoMsg, NoClient

ASSUME LoggerAssumption ==
    /\ Severity \in [Msgs -> Levels] /\ Levels \subseteq Nat /\ 0 \in Levels
    /\ Closed \notin Paths \cup {LogTxt}
    /\ RawStop \subseteq BOOLEAN
    /\ NoMsg \notin Msgs /\ NoClient \notin Clients

VARIABLES
    object,       \* the life of the Logger
    should_stop,  \* initialised after the thread has been started
    m_filter, m_queue, m_log_fd,
    m_logMutex,   \* its owner, or NoClient
    waiting,      \* the clients blocked on m_queue_cond
    pushed,       \* every message that entered the queue, in that order
    written,      \* every << file, message >> the thread wrote, in that order
    thread,       \* where the writing thread is
    taken,        \* the message it popped
    client,       \* where each client is
    arg           \* the message or path of its call

objectVars == <<object, should_stop, m_filter>>
queueVars == <<m_queue, pushed>>
lockVars == <<m_logMutex, waiting>>
threadVars == <<thread, taken, written>>
clientVars == <<lockVars, client, arg>>
vars == <<objectVars, queueVars, m_log_fd, threadVars, clientVars>>

\* m_thread is declared, so started, before the members it uses: what it finds
\* in should_stop until the constructor gets there is whatever the memory held.
Init ==
    /\ object = "constructing"
    /\ should_stop \in RawStop
    /\ m_filter = 0
    /\ m_queue = <<>> /\ pushed = <<>> /\ written = <<>>
    /\ m_log_fd = Closed
    /\ m_logMutex = NoClient /\ waiting = {}
    /\ thread = "test" /\ taken = NoMsg
    /\ client = [c \in Clients |-> "idle"]
    /\ arg = [c \in Clients |-> NoMsg]

Constructed ==
    /\ object = "constructing"
    /\ object' = "live"
    /\ should_stop' = FALSE
    /\ m_log_fd' = LogTxt
    /\ UNCHANGED <<m_filter, queueVars, threadVars, clientVars>>

-----------------------------------------------------------------------------
(* LogThreadFunc *)

\* Slip: the last message is not seen.
IsEmptyAtOne == Len(m_queue) <= 1

IsEmpty == m_queue = <<>>

ThreadAt(place) == object # "crashed" /\ thread = place

TestStop ==
    /\ ThreadAt("test")
    /\ thread' = IF should_stop THEN "exit" ELSE "peek"
    /\ UNCHANGED <<objectVars, queueVars, m_log_fd, taken, written, clientVars>>

\* An empty queue is asked again at once: the loop never blocks.
Peek ==
    /\ ThreadAt("peek")
    /\ thread' = IF IsEmpty THEN "test" ELSE "pop"
    /\ UNCHANGED <<objectVars, queueVars, m_log_fd, taken, written, clientVars>>

\* The queue is not constructed yet: its raw memory need not look like an empty one.
PeekRawMemory ==
    /\ ThreadAt("peek") /\ object = "constructing"
    /\ object' = "crashed"
    /\ UNCHANGED <<should_stop, m_filter, queueVars, m_log_fd, threadVars, clientVars>>

Pop ==
    /\ ThreadAt("pop")
    /\ taken' = Head(m_queue)
    /\ m_queue' = Tail(m_queue)
    /\ thread' = "write"
    /\ UNCHANGED <<objectVars, pushed, m_log_fd, written, clientVars>>

\* No lock: the file is the one open now, and none while SetPath changes it.
Write ==
    /\ ThreadAt("write")
    /\ written' = Append(written, <<m_log_fd, taken>>)
    /\ taken' = NoMsg
    /\ thread' = "test"
    /\ UNCHANGED <<objectVars, queueVars, m_log_fd, clientVars>>

LogThreadFunc == TestStop \/ Peek \/ Pop \/ Write

-----------------------------------------------------------------------------
(* The calls *)

ClientAt(c, place) == object = "live" /\ client[c] = place

Goes(c, place) == client' = [client EXCEPT ![c] = place]

\* Log reads m_filter without the lock, then pushes.
Log(c, m) ==
    /\ ClientAt(c, "idle")
    /\ \A d \in Clients : arg[d] # m
    /\ m \notin {pushed[i] : i \in DOMAIN pushed}
    /\ Severity[m] >= m_filter
    /\ Goes(c, "push")
    /\ arg' = [arg EXCEPT ![c] = m]
    /\ UNCHANGED <<objectVars, queueVars, m_log_fd, lockVars, threadVars>>

\* Slip: the newest message leaves first.
QueuedFirst(m) == <<m>> \o m_queue

Queued(m) == Append(m_queue, m)

Push(c) ==
    /\ ClientAt(c, "push")
    /\ m_queue' = Queued(arg[c])
    /\ pushed' = Append(pushed, arg[c])
    /\ Goes(c, "idle")
    /\ arg' = [arg EXCEPT ![c] = NoMsg]
    /\ UNCHANGED <<objectVars, m_log_fd, lockVars, threadVars>>

SetFilter(c, level) ==
    /\ ClientAt(c, "idle")
    /\ m_logMutex = NoClient
    /\ m_filter' = level
    /\ UNCHANGED <<object, should_stop, queueVars, m_log_fd, threadVars, clientVars>>

SetPath(c, path) ==
    /\ ClientAt(c, "idle")
    /\ m_logMutex = NoClient
    /\ m_logMutex' = c
    /\ arg' = [arg EXCEPT ![c] = path]
    /\ Goes(c, "drain")
    /\ UNCHANGED <<objectVars, queueVars, m_log_fd, waiting, threadVars>>

\* The loop of SetPath: the wait gives m_logMutex up until it ends.
Drain(c) ==
    /\ ClientAt(c, "drain")
    /\ IF IsEmpty
         THEN Goes(c, "close") /\ UNCHANGED <<m_logMutex, waiting>>
         ELSE /\ Goes(c, "blocked")
              /\ waiting' = waiting \cup {c}
              /\ m_logMutex' = NoClient
    /\ UNCHANGED <<objectVars, queueVars, m_log_fd, threadVars, arg>>

\* Nothing in the code notifies m_queue_cond, so only a spurious wake-up ends
\* the wait.
SpuriousWake(c) ==
    /\ ClientAt(c, "blocked") /\ c \in waiting
    /\ m_logMutex = NoClient
    /\ waiting' = waiting \ {c}
    /\ m_logMutex' = c
    /\ Goes(c, "drain")
    /\ UNCHANGED <<objectVars, queueVars, m_log_fd, threadVars, arg>>

Close(c) ==
    /\ ClientAt(c, "close")
    /\ m_log_fd' = Closed
    /\ Goes(c, "open")
    /\ UNCHANGED <<objectVars, queueVars, lockVars, threadVars, arg>>

\* open() may fail, and SetPath does not look.
Open(c) ==
    /\ ClientAt(c, "open")
    /\ m_log_fd' \in {arg[c], Closed}
    /\ m_logMutex' = NoClient
    /\ Goes(c, "idle")
    /\ arg' = [arg EXCEPT ![c] = NoMsg]
    /\ UNCHANGED <<objectVars, queueVars, waiting, threadVars>>

\* The destructor, when the program exits and no other call is under way.
Destroy ==
    /\ object = "live"
    /\ \A c \in Clients : client[c] = "idle"
    /\ object' = "stopping"
    /\ should_stop' = TRUE
    /\ UNCHANGED <<m_filter, queueVars, m_log_fd, threadVars, clientVars>>

Destroyed ==
    /\ object = "stopping"
    /\ thread = "exit"
    /\ object' = "destroyed"
    /\ m_log_fd' = Closed
    /\ UNCHANGED <<should_stop, m_filter, queueVars, threadVars, clientVars>>

\* A call that has begun, up to its next wait.
Continue(c) == Push(c) \/ Drain(c) \/ Close(c) \/ Open(c)

Next ==
    \/ Constructed
    \/ LogThreadFunc
    \/ PeekRawMemory
    \/ \E c \in Clients :
          \/ Continue(c)
          \/ SpuriousWake(c)
          \/ \E m \in Msgs : Log(c, m)
          \/ \E level \in Levels : SetFilter(c, level)
          \/ \E path \in Paths : SetPath(c, path)
    \/ Destroy
    \/ Destroyed

Spec == Init /\ [][Next]_vars

\* Every thread runs when it can; no call has to be made, no wait ends by itself.
Fairness ==
    /\ WF_vars(Constructed) /\ WF_vars(Destroyed)
    /\ WF_vars(LogThreadFunc)
    /\ \A c \in Clients : WF_vars(Continue(c))

FairSpec == Spec /\ Fairness

=============================================================================
