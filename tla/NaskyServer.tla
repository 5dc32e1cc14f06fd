----------------------------- MODULE NaskyServer -----------------------------
(*
  The block device server: the reactor of test/nasky_test.cpp, NBDDriverCom and
  RAMStorage of src/nasky.cpp, over the promise of the thread pool (TaskPool,
  which ThreadPool implements) and the kernel's end of the socket pair.

  Data are abstract: a request covers a set of cells of the storage, the value
  of a cell is the write that stored it, and a stream carries one unit for a
  header and one for each cell of a payload. What is kept is every point where
  threads meet: m_mutex, the two socket buffers, the cells.

  RecvRequest and SendReply hold m_mutex for as long as ReadAll and WriteAll
  need, so each is one step per unit that crosses the socket.

  Assumed: the vector of a request holds its span. RecvRequest sizes it by the
  length as it came, without ntohl (nasky.cpp:161), so this is so for lengths
  256 * k with k below 256 (SmallBuffersHold of DriverProofs), and is not for
  64 KiB (LargeBufferIsShort): requests that long are outside this model.
*)
EXTENDS Naturals, Sequences, FiniteSets

CONSTANTS Reqs,     \* the requests the kernel issues, each once
          Kind,       \* the type of each
          Span,       \* the cells each READ or WRITE covers: its buffer holds them
          Workers,
          Cells,
          Capacity,   \* units a socket buffer holds
          Zero,       \* what the storage is filled with
          NoReq,
          Reactor     \* the main thread, as owner of m_mutex

ASSUME ServerAssumption ==
    /\ Kind \in [Reqs -> {"READ", "WRITE", "TRIM", "FLUSH", "DISC"}]
    /\ Span \in [Reqs -> SUBSET Cells]
    /\ \A h \in Reqs : Span[h] # {} <=> Kind[h] \in {"READ", "WRITE"}
    /\ Cells \subseteq Nat /\ IsFiniteSet(Cells)
    /\ Capacity \in Nat \ {0}
    /\ Reactor \notin Workers /\ Zero \notin Reqs /\ NoReq \notin Reqs \cup Workers \cup {Reactor}

VARIABLES
    \* the kernel
    issued,    \* the requests made so far
    answered,  \* those whose whole reply has arrived
    before,    \* for each request, those answered when it was made
    outbox,    \* units the kernel has still to write
    replying,  \* the READ whose data the kernel expects next, or NoReq
    hungUp,    \* the kernel has shut its end down
    \* the socket pair
    toApp, toKernel,
    \* the process
    alive,
    m_mutex,   \* NoReq, or the thread that holds it
    reactor,   \* where the main thread is
    m_buffer,  \* the buffer of each request, cell by cell
    storage,
    doing,     \* where each worker is inside Do()
    left,      \* the cells the loop under way (of the reactor or a worker) has to do
    current,   \* the request the main thread is receiving
    received,  \* what the kernel was sent for each READ
    pending, running, finished   \* the thread pool

kernelVars == <<issued, answered, before, outbox, replying, hungUp, received>>
poolVars == <<pending, running, finished>>
mainVars == <<reactor, current>>
dataVars == <<m_buffer, storage>>
threadVars == <<alive, m_mutex, mainVars, dataVars, doing, poolVars>>
vars == <<kernelVars, toApp, toKernel, threadVars, left>>

\* Every task of nasky_test.cpp has the priority HIGH_P.
Pool == INSTANCE TaskPool WITH Tasks <- Reqs, NoTask <- NoReq, Rank <- [h \in Reqs |-> 1]

Threads == Workers \cup {Reactor}

\* std::copy_n and the two socket loops go upwards.
First(S) == CHOOSE c \in S : \A d \in S : c <= d

\* Slip: one unit too many fits into the buffer.
HasRoomForMore(stream) == Len(stream) <= Capacity

\* A write to a socket blocks while its buffer is full.
HasRoom(stream) == Len(stream) < Capacity

\* Slip: the lock_guard is missing.
LockGuardNone(x) == UNCHANGED m_mutex

LockGuard(x) == m_mutex = NoReq /\ m_mutex' = x

Header(h) == [part |-> "header", req |-> h]

Data(h, v) == [part |-> "data", req |-> h, value |-> v]

\* What the kernel writes for a request: the header and, for a WRITE, its data.
RequestUnits(h) ==
    <<Header(h)>> \o
      [i \in 1 .. (IF Kind[h] = "WRITE" THEN Cardinality(Span[h]) ELSE 0) |-> Data(h, h)]

Init ==
    /\ issued = {} /\ answered = {} /\ finished = {} /\ pending = {}
    /\ before = [h \in Reqs |-> {}]
    /\ outbox = <<>> /\ toApp = <<>> /\ toKernel = <<>>
    /\ replying = NoReq /\ current = NoReq /\ m_mutex = NoReq
    /\ hungUp = FALSE /\ alive = TRUE
    /\ reactor = "select"
    /\ m_buffer = [h \in Reqs |-> [c \in Cells |-> Zero]]
    /\ received = [h \in Reqs |-> [c \in Cells |-> Zero]]
    /\ storage = [c \in Cells |-> Zero]
    /\ doing = [w \in Workers |-> "idle"]
    /\ left = [x \in Threads \cup {NoReq} |-> {}]
    /\ running = [w \in Workers |-> NoReq]

-----------------------------------------------------------------------------
(* The kernel: requests in any order and number, replies read as they come. *)

Issue(h) ==
    /\ ~hungUp /\ h \notin issued
    /\ issued' = issued \cup {h}
    /\ before' = [before EXCEPT ![h] = answered]
    /\ outbox' = outbox \o RequestUnits(h)
    /\ UNCHANGED <<answered, replying, hungUp, received, toApp, toKernel, threadVars, left>>

Transmit ==
    /\ ~hungUp /\ outbox # <<>> /\ HasRoom(toApp)
    /\ toApp' = Append(toApp, Head(outbox))
    /\ outbox' = Tail(outbox)
    /\ UNCHANGED <<issued, answered, before, replying, hungUp, received, toKernel, threadVars, left>>

\* The next unit is a header, unless the data of a READ are due: then it is
\* taken for data, whatever it is.
ReceiveHeader ==
    /\ ~hungUp /\ toKernel # <<>> /\ replying = NoReq
    /\ LET h == Head(toKernel).req IN
         IF Kind[h] = "READ"
           THEN /\ replying' = h
                /\ left' = [left EXCEPT ![NoReq] = Span[h]]
                /\ UNCHANGED answered
           ELSE answered' = answered \cup {h} /\ UNCHANGED <<replying, left>>
    /\ toKernel' = Tail(toKernel)
    /\ UNCHANGED <<issued, before, outbox, hungUp, received, toApp, threadVars>>

ReceiveData ==
    /\ ~hungUp /\ toKernel # <<>> /\ replying # NoReq
    /\ LET c == First(left[NoReq])
           unit == Head(toKernel) IN
         /\ received' = [received EXCEPT ![replying][c] =
                           IF unit.part = "data" THEN unit.value ELSE Zero]
         /\ left' = [left EXCEPT ![NoReq] = @ \ {c}]
    /\ IF left'[NoReq] = {}
         THEN answered' = answered \cup {replying} /\ replying' = NoReq
         ELSE UNCHANGED <<answered, replying>>
    /\ toKernel' = Tail(toKernel)
    /\ UNCHANGED <<issued, before, outbox, hungUp, toApp, threadVars>>

\* The device is disconnected by another process: the kernel shuts its end, and
\* what it had still to write or to read is dropped.
HangUp ==
    /\ ~hungUp
    /\ hungUp' = TRUE
    /\ UNCHANGED <<issued, answered, before, outbox, replying, received, toApp, toKernel, threadVars, left>>

-----------------------------------------------------------------------------
(* The main thread *)

MainAt(place) == alive /\ reactor = place

\* select() also reports a socket at its end.
Select ==
    /\ MainAt("select")
    /\ toApp # <<>> \/ hungUp
    /\ reactor' = "recv"
    /\ UNCHANGED <<kernelVars, toApp, toKernel, alive, m_mutex, current, dataVars, doing, left, poolVars>>

RecvRequest ==
    /\ MainAt("recv")
    /\ LockGuard(Reactor)
    /\ reactor' = "header"
    /\ UNCHANGED <<kernelVars, toApp, toKernel, alive, current, dataVars, doing, left, poolVars>>

\* ReadAll blocks while nothing has come; at the end of the stream read() is 0,
\* which neither fails nor counts: ReadAll calls it again, for ever, and the
\* state does not change (so there is no step for it).
ReadHeader ==
    /\ MainAt("header")
    /\ toApp # <<>>
    /\ LET h == Head(toApp).req IN
         /\ current' = h
         /\ left' = [left EXCEPT ![Reactor] = IF Kind[h] = "WRITE" THEN Span[h] ELSE {}]
         /\ IF Kind[h] = "WRITE"
              THEN reactor' = "payload" /\ UNCHANGED m_mutex
              ELSE reactor' = "submit" /\ m_mutex' = NoReq
    /\ toApp' = Tail(toApp)
    /\ UNCHANGED <<kernelVars, toKernel, alive, dataVars, doing, poolVars>>

\* The payload fits into m_buffer: see the assumption above.
ReadPayload ==
    /\ MainAt("payload")
    /\ toApp # <<>>
    /\ LET c == First(left[Reactor]) IN
         /\ m_buffer' = [m_buffer EXCEPT ![current][c] = Head(toApp).req]
         /\ left' = [left EXCEPT ![Reactor] = @ \ {c}]
    /\ IF left'[Reactor] = {}
         THEN reactor' = "submit" /\ m_mutex' = NoReq
         ELSE UNCHANGED <<reactor, m_mutex>>
    /\ toApp' = Tail(toApp)
    /\ UNCHANGED <<kernelVars, toKernel, alive, current, storage, doing, poolVars>>

\* read() may fail (-1) once the kernel's end is shut, as when it was shut with
\* units unread: ReadAll throws a DriverException that main does not catch. It
\* need not: at a plain end of the stream read() is 0, and ReadAll spins. (A
\* select() that fails needs a closed descriptor, and nothing here closes it.)
MainFails ==
    /\ MainAt("header") \/ MainAt("payload")
    /\ hungUp
    /\ alive' = FALSE
    /\ UNCHANGED <<kernelVars, toApp, toKernel, m_mutex, mainVars, dataVars, doing, left, poolVars>>

\* Factory::Create and ThreadPool::AddTask.
Submit ==
    /\ MainAt("submit")
    /\ Pool!Submit(current)
    /\ reactor' = "select"
    /\ current' = NoReq
    /\ UNCHANGED <<kernelVars, toApp, toKernel, alive, m_mutex, dataVars, doing, left>>

-----------------------------------------------------------------------------
(* The workers: Do() of the task a worker started *)

Doing(w, place) == alive /\ doing[w] = place

\* Slip: a WRITE is answered without having been stored.
FirstPlaceUnstored(h) == IF Kind[h] = "READ" THEN "copy" ELSE "lock"

\* Only the tasks of a READ and a WRITE call the storage.
FirstPlace(h) == IF Kind[h] \in {"READ", "WRITE"} THEN "copy" ELSE "lock"

Start(w) ==
    /\ Doing(w, "idle")
    /\ \E h \in Reqs :
         /\ Pool!Start(w, h)
         /\ left' = [left EXCEPT ![w] = Span[h]]
         /\ doing' = [doing EXCEPT ![w] = FirstPlace(h)]
    /\ UNCHANGED <<kernelVars, toApp, toKernel, alive, m_mutex, mainVars, dataVars>>

\* Slip: the copy ends one cell early.
CopiedButOne(rest) == Cardinality(rest) <= 1

Copied(rest) == rest = {}

\* RAMStorage::Read and Write copy without a lock, so the cells of two requests
\* that overlap come in any order.
Copy(w) ==
    /\ Doing(w, "copy")
    /\ LET h == running[w]
           c == First(left[w]) IN
         /\ IF Kind[h] = "READ"
              THEN m_buffer' = [m_buffer EXCEPT ![h][c] = storage[c]] /\ UNCHANGED storage
              ELSE storage' = [storage EXCEPT ![c] = m_buffer[h][c]] /\ UNCHANGED m_buffer
         /\ left' = [left EXCEPT ![w] = @ \ {c}]
    /\ doing' = [doing EXCEPT ![w] = IF Copied(left'[w]) THEN "lock" ELSE "copy"]
    /\ UNCHANGED <<kernelVars, toApp, toKernel, alive, m_mutex, mainVars, poolVars>>

SendReply(w) ==
    /\ Doing(w, "lock")
    /\ LockGuard(w)
    /\ doing' = [doing EXCEPT ![w] = "header"]
    /\ UNCHANGED <<kernelVars, toApp, toKernel, alive, mainVars, dataVars, left, poolVars>>

\* Slip: Do() sends its reply again.
EndReplyTwice(w) ==
    /\ doing' = [doing EXCEPT ![w] = "lock"]
    /\ m_mutex' = NoReq
    /\ UNCHANGED poolVars

\* Slip: m_mutex stays locked.
EndReplyLocked(w) ==
    /\ doing' = [doing EXCEPT ![w] = "idle"]
    /\ UNCHANGED m_mutex
    /\ Pool!Finish(w)

\* The reply is written: the lock_guard ends, and Do() returns.
EndReply(w) ==
    /\ doing' = [doing EXCEPT ![w] = "idle"]
    /\ m_mutex' = NoReq
    /\ Pool!Finish(w)

WriteHeader(w) ==
    /\ Doing(w, "header")
    /\ ~hungUp /\ HasRoom(toKernel)
    /\ toKernel' = Append(toKernel, Header(running[w]))
    /\ IF Kind[running[w]] = "READ"
         THEN /\ doing' = [doing EXCEPT ![w] = "data"]
              /\ left' = [left EXCEPT ![w] = Span[running[w]]]
              /\ UNCHANGED <<m_mutex, poolVars>>
         ELSE EndReply(w) /\ UNCHANGED left
    /\ UNCHANGED <<kernelVars, toApp, alive, mainVars, dataVars>>

WriteData(w) ==
    /\ Doing(w, "data")
    /\ ~hungUp /\ HasRoom(toKernel)
    /\ LET h == running[w]
           c == First(left[w]) IN
         /\ toKernel' = Append(toKernel, Data(h, m_buffer[h][c]))
         /\ left' = [left EXCEPT ![w] = @ \ {c}]
    /\ IF left'[w] = {}
         THEN EndReply(w)
         ELSE UNCHANGED <<doing, m_mutex, poolVars>>
    /\ UNCHANGED <<kernelVars, toApp, alive, mainVars, dataVars>>

\* A write to a socket whose other end is shut raises SIGPIPE, which no code
\* of the program handles.
WriteFails(w) ==
    /\ Doing(w, "header") \/ Doing(w, "data")
    /\ hungUp
    /\ alive' = FALSE
    /\ UNCHANGED <<kernelVars, toApp, toKernel, m_mutex, mainVars, dataVars, doing, left, poolVars>>

Kernel == Transmit \/ ReceiveHeader \/ ReceiveData

Main == Select \/ RecvRequest \/ ReadHeader \/ ReadPayload \/ Submit

Worker(w) ==
    Start(w) \/ Copy(w) \/ SendReply(w) \/ WriteHeader(w) \/ WriteData(w) \/ WriteFails(w)

Next ==
    \/ \E h \in Reqs : Issue(h)
    \/ HangUp
    \/ MainFails
    \/ Kernel
    \/ Main
    \/ \E w \in Workers : Worker(w)

Spec == Init /\ [][Next]_vars

\* The kernel moves what it has begun to move and every thread runs when it can;
\* no request has to be made, the device need never be disconnected and a read()
\* need not fail. A free worker takes a queued task: WorkProceeds of the pool.
Fairness ==
    /\ WF_vars(Transmit) /\ WF_vars(ReceiveHeader \/ ReceiveData)
    /\ WF_vars(Main)
    /\ \A w \in Workers : WF_vars(Worker(w))

FairSpec == Spec /\ Fairness

=============================================================================
