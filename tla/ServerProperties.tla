--------------------------- MODULE ServerProperties ---------------------------
(*
  What the block device owes the kernel. As in NaskyServer, each request's buffer
  holds its span; for a payload of 64 KiB the code's has 256 bytes.
*)
EXTENDS NaskyServer

Unit == [part : {"header"}, req : Reqs] \cup [part : {"data"}, req : Reqs, value : Reqs \cup {Zero}]

\* The types of the state.
TypeOK ==
    /\ answered \subseteq issued /\ issued \subseteq Reqs
    /\ before \in [Reqs -> SUBSET Reqs]
    /\ outbox \in Seq(Unit) /\ toApp \in Seq(Unit) /\ toKernel \in Seq(Unit)
    /\ Len(toApp) <= Capacity /\ Len(toKernel) <= Capacity
    /\ replying \in Reqs \cup {NoReq} /\ current \in Reqs \cup {NoReq}
    /\ hungUp \in BOOLEAN /\ alive \in BOOLEAN
    /\ m_mutex \in Threads \cup {NoReq}
    /\ reactor \in {"select", "recv", "header", "payload", "submit"}
    /\ m_buffer \in [Reqs -> [Cells -> Reqs \cup {Zero}]]
    /\ received \in [Reqs -> [Cells -> Reqs \cup {Zero}]]
    /\ storage \in [Cells -> Reqs \cup {Zero}]
    /\ doing \in [Workers -> {"idle", "copy", "lock", "header", "data"}]
    /\ left \in [Threads \cup {NoReq} -> SUBSET Cells]
    /\ pending \subseteq Reqs /\ finished \subseteq Reqs
    /\ running \in [Workers -> Reqs \cup {NoReq}]

Covers(x, c) == Kind[x] = "WRITE" /\ c \in Span[x]

\* v may be what cell c holds at a moment when the writes in "over" were already
\* answered: v was written there, and no answered write came wholly after v.
Current(v, c, over) ==
    /\ v = Zero \/ (v \in issued /\ Covers(v, c))
    /\ \A x \in over : Covers(x, c) => v # Zero /\ (v \in before[x] => v = x)

\* A READ answers, for each cell, with a write that was under way during it or
\* with the last one answered before it: what the kernel had acknowledged when
\* it asked is never missing, though several workers copy without a lock.
\* (A READ that overlaps a WRITE may see some of its cells and not others.)
ReadsCurrent ==
    \A h \in answered : Kind[h] = "READ" =>
        \A c \in Span[h] : Current(received[h][c], c, before[h])

\* An answered WRITE is in the storage, unless a write not answered before it
\* has replaced it: the reply is sent after the copy, never before.
AnsweredWritesStored ==
    \A c \in Cells : Current(storage[c], c, answered)

\* The reply stream is a sequence of whole replies: a header is never taken for
\* data of a READ nor data for a header, although several workers write to the
\* one socket in pieces and block when its buffer is full.
RepliesFramed ==
    toKernel # <<>> /\ ~hungUp =>
        IF replying = NoReq
          THEN Head(toKernel).part = "header"
          ELSE Head(toKernel).part = "data" /\ Head(toKernel).req = replying

\* No request is answered twice: a reply in the stream answers a request that
\* was made, whose reply has neither arrived nor stands elsewhere in the stream.
AnsweredOnce ==
    \A i \in DOMAIN toKernel : toKernel[i].part = "header" =>
        /\ toKernel[i].req \in issued \ (answered \cup {replying})
        /\ \A j \in DOMAIN toKernel : toKernel[j] = toKernel[i] => j = i

\* Every request is answered while the kernel stays connected: the main thread
\* waiting for a payload with m_mutex held, and workers waiting for it with full
\* socket buffers, never wait for one another.
EveryRequestAnswered == \A h \in Reqs : h \in issued ~> h \in answered \/ hungUp

-----------------------------------------------------------------------------

\* "RecvRequest() const //throws DriverException" (nasky.cpp:148): a call ends,
\* with a request or with the exception.
RecvReturns == MainAt("header") ~> ~MainAt("header")

=============================================================================
