-------------------------- MODULE LoggerProperties --------------------------
(* What the Logger promises, and what its comments and its test say of it. *)
EXTENDS Logger

Files == Paths \cup {LogTxt, Closed}

\* The types of the state; a message is in hand between Pop and Write only.
TypeOK ==
    /\ object \in {"constructing", "live", "stopping", "destroyed", "crashed"}
    /\ should_stop \in BOOLEAN /\ m_filter \in Levels
    /\ m_queue \in Seq(Msgs) /\ pushed \in Seq(Msgs)
    /\ written \in Seq(Files \X Msgs)
    /\ m_log_fd \in Files
    /\ m_logMutex \in Clients \cup {NoClient} /\ waiting \subseteq Clients
    /\ thread \in {"test", "peek", "pop", "write", "exit"}
    /\ taken \in Msgs \cup {NoMsg} /\ (taken # NoMsg <=> thread = "write")
    /\ client \in [Clients -> {"idle", "push", "drain", "blocked", "close", "open"}]
    /\ arg \in [Clients -> Msgs \cup Paths \cup {NoMsg}]
    /\ \A c \in Clients :
        /\ client[c] = "push" => arg[c] \in Msgs
        /\ client[c] \in {"drain", "blocked", "close", "open"} => arg[c] \in Paths

WrittenMsgs == [i \in DOMAIN written |-> written[i][2]]

InHand == IF taken = NoMsg THEN <<>> ELSE <<taken>>

\* Messages reach the files in the order they entered the queue, none twice and
\* none overtaken, whatever SetPath does meanwhile: what was written, the message
\* in hand and the queue are together the messages that were pushed.
InOrder == pushed = WrittenMsgs \o InHand \o m_queue

\* A message that entered the queue is handed to the stream, as long as the logger
\* lives and its thread survived the construction: SetPath stops no message (but
\* one that meets a closed file, << Closed, m >>, is in none).
Written(m) == \E i \in DOMAIN written : written[i][2] = m

EveryMessageWritten ==
    \A m \in Msgs : (\E i \in DOMAIN m_queue : m_queue[i] = m) ~>
        Written(m) \/ object # "live" \/ thread = "exit"

-----------------------------------------------------------------------------

\* "Wait for the queue to be empty." (logger.cpp:55): the wait of SetPath ends
\* when the queue has been emptied, and SetPath returns (while the writing thread
\* lives).
SetPathReturns ==
    \A c \in Clients :
        client[c] = "drain" ~> client[c] = "idle" \/ object # "live" \/ thread = "exit"

=============================================================================
