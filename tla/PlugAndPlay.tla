----------------------------- MODULE PlugAndPlay -----------------------------
(*
  framework/src/pnp.cpp over framework/include/dispatcher_callback.hpp: a thread
  of DirMonitor reads the files that appear in a directory from inotify and
  tells the subscribers of its Dispatcher; each DllLoader subscribes through its
  Callback and opens what it is told. One client thread makes and destroys the
  loaders and the monitor.

  Nothing is locked. Where the two threads meet in undefined behaviour (a
  callback used outside its life, the vector of subscribers copied while it
  changes) the program may go on or be corrupted; the model stops there.
*)
EXTENDS Naturals, Sequences

CONSTANTS Loaders, Files,
          Batch,   \* the inotify events one read() returns at most
          NoFile

ASSUME PnpAssumption == Batch \in Nat \ {0} /\ NoFile \notin Files

VARIABLES
    monitor,          \* the life of the DirMonitor
    isMonitoring,     \* a plain bool, read again in every turn of the loop
    thread,           \* where MonitorRoutine is
    dirPathOk,        \* dirPath_ is the directory's name, not a dangling char*
    events, event,    \* files inotify has queued; the one being announced
    m_subscribers,
    copy,             \* NotifyAll: the subscribers it has still to notify
    loader,           \* the life of each DllLoader
    m_symbolHandlers, \* the files whose handle each loader keeps
    opened, closed,   \* the files each loader ever opened, and closed
    arrived,          \* every file that appeared, in that order
    due, told,        \* subscribed since NotifyAll began; notified by it
    raced,            \* loaders notified before or after the life of their members
    corrupted

monitorVars == <<monitor, isMonitoring, dirPathOk>>
eventVars == <<events, event, arrived>>
roundVars == <<copy, due, told>>
handleVars == <<m_symbolHandlers, opened, closed>>
loaderVars == <<loader, handleVars, raced, corrupted>>
pnpVars == <<monitorVars, thread, eventVars, m_subscribers, roundVars, loaderVars>>

\* The constructor of DirMonitor has returned: the watch is set, the thread started.
PnpInit ==
    /\ monitor = "live" /\ isMonitoring = TRUE
    /\ thread = "start" /\ dirPathOk = FALSE
    /\ events = <<>> /\ event = NoFile /\ arrived = <<>>
    /\ m_subscribers = <<>> /\ copy = <<>> /\ due = {} /\ told = {}
    /\ loader = [l \in Loaders |-> "none"]
    /\ m_symbolHandlers = [l \in Loaders |-> <<>>]
    /\ opened = m_symbolHandlers /\ closed = m_symbolHandlers
    /\ raced = {} /\ corrupted = FALSE

-----------------------------------------------------------------------------
(* inotify *)

FileAppears(f) ==
    /\ thread # "exit" /\ ~corrupted
    /\ \A i \in DOMAIN arrived : arrived[i] # f
    /\ arrived' = Append(arrived, f)
    /\ events' = Append(events, f)
    /\ UNCHANGED <<monitorVars, thread, event, m_subscribers, roundVars, loaderVars>>

-----------------------------------------------------------------------------
(* MonitorRoutine *)

ThreadAt(place) == ~corrupted /\ thread = place

\* dirPath_ is built here from the c_str() of the constructor's argument, which
\* may be gone by now.
ThreadStarts ==
    /\ ThreadAt("start")
    /\ dirPathOk' \in BOOLEAN
    /\ thread' = "test"
    /\ UNCHANGED <<monitor, isMonitoring, eventVars, m_subscribers, roundVars, loaderVars>>

\* Slip: the flag is read once, before the loop.
GoesOnAlways == TRUE

GoesOn == isMonitoring

Test ==
    /\ ThreadAt("test")
    /\ thread' = IF GoesOn THEN "read" ELSE "exit"
    /\ UNCHANGED <<monitorVars, eventVars, m_subscribers, roundVars, loaderVars>>

\* Slip: the events of the buffer are offered again.
LeftSame(n) == events

\* What one read() leaves behind, when it took n files.
Left(n) == SubSeq(events, n + 1, Len(events))

\* read() blocks while there is no event and takes as many as the buffer holds,
\* by the length of their names; only the first is looked at.
Read ==
    /\ ThreadAt("read") /\ events # <<>>
    /\ event' = Head(events)
    /\ \E n \in 1 .. Batch : events' = Left(n)
    /\ thread' = "copy"
    /\ UNCHANGED <<monitorVars, arrived, m_subscribers, roundVars, loaderVars>>

\* The first event is of another mask (the queue overflowed, the directory is
\* gone): nothing is announced, and the files read with it are dropped too.
ReadOther ==
    /\ ThreadAt("read")
    /\ \E n \in 0 .. Batch - 1 : events' = Left(n)
    /\ thread' = "test"
    /\ UNCHANGED <<monitorVars, event, arrived, m_subscribers, roundVars, loaderVars>>

\* A signal, or an inotify_init() that failed: the thread ends.
ReadFails ==
    /\ ThreadAt("read")
    /\ thread' = "exit"
    /\ UNCHANGED <<monitorVars, eventVars, m_subscribers, roundVars, loaderVars>>

\* NotifyAll goes through a copy of m_subscribers.
CopySubscribers ==
    /\ ThreadAt("copy")
    /\ copy' = m_subscribers
    /\ due' = {m_subscribers[i] : i \in DOMAIN m_subscribers}
    /\ told' = {}
    /\ thread' = "notify"
    /\ UNCHANGED <<monitorVars, eventVars, m_subscribers, loaderVars>>

\* Slip: the handle is not kept.
KeepNot(l) == UNCHANGED m_symbolHandlers

Keep(l) == m_symbolHandlers' = [m_symbolHandlers EXCEPT ![l] = Append(@, event)]

\* DllLoader::Load, in a loader whose members exist: dlopen may fail, and fails
\* when the path is wrong.
Load(l) ==
    /\ \/ dirPathOk /\ opened' = [opened EXCEPT ![l] = Append(@, event)] /\ Keep(l)
       \/ UNCHANGED <<opened, m_symbolHandlers>>
    /\ UNCHANGED closed

\* The copy may name a callback that is gone, or a loader whose constructor has
\* not come to m_symbolHandlers, or whose destructor has closed its handles.
Notify ==
    /\ ThreadAt("notify") /\ copy # <<>>
    /\ LET l == Head(copy) IN
         /\ told' = told \cup {l}
         /\ Load(l)
         /\ raced' = IF loader[l] = "live" THEN raced ELSE raced \cup {l}
         /\ corrupted' \in {FALSE, loader[l] # "live"}
    /\ copy' = Tail(copy)
    /\ UNCHANGED <<monitorVars, thread, eventVars, m_subscribers, due, loader>>

NotifyEnds ==
    /\ ThreadAt("notify") /\ copy = <<>>
    /\ thread' = "test"
    /\ UNCHANGED <<monitorVars, eventVars, m_subscribers, roundVars, loaderVars>>

MonitorRoutine ==
    ThreadStarts \/ Test \/ Read \/ CopySubscribers \/ Notify \/ NotifyEnds

-----------------------------------------------------------------------------
(* The client *)

\* It makes one call at a time.
Free == ~corrupted /\ monitor # "stopping" /\ \A l \in Loaders : loader[l] \in {"none", "live", "dead"}

Becomes(l, life) == loader' = [loader EXCEPT ![l] = life]

\* DllLoader's constructor, up to the end of m_callBack's: it is subscribed, and
\* can be notified, before m_symbolHandlers is constructed. The vector may be
\* under copy, which is undefined.
Subscribe(l) ==
    /\ Free /\ monitor = "live" /\ loader[l] = "none"
    /\ Becomes(l, "subscribed")
    /\ m_subscribers' = Append(m_subscribers, l)
    /\ corrupted' \in {FALSE, thread = "copy"}
    /\ UNCHANGED <<monitorVars, thread, eventVars, roundVars, handleVars, raced>>

\* m_symbolHandlers starts empty, whatever was pushed into its raw memory.
Constructed(l) ==
    /\ ~corrupted /\ loader[l] = "subscribed"
    /\ Becomes(l, "live")
    /\ m_symbolHandlers' = [m_symbolHandlers EXCEPT ![l] = <<>>]
    /\ UNCHANGED <<monitorVars, thread, eventVars, m_subscribers, roundVars, opened, closed, raced,
                   corrupted>>

CloseHandlers(l) ==
    /\ Free /\ loader[l] = "live"
    /\ Becomes(l, "closing")
    /\ closed' = [closed EXCEPT ![l] = m_symbolHandlers[l]]
    /\ UNCHANGED <<monitorVars, thread, eventVars, m_subscribers, roundVars, m_symbolHandlers, opened,
                   raced, corrupted>>

\* Slip: the callback stays in the vector.
OthersAndIt(l) == m_subscribers

\* std::find, then erase: whoever stands behind moves one place up.
Others(l) ==
    LET passed == CHOOSE n \in 0 .. Len(m_subscribers) :
                    /\ \A i \in 1 .. n : m_subscribers[i] # l
                    /\ n < Len(m_subscribers) => m_subscribers[n + 1] = l
    IN [i \in 1 .. Len(m_subscribers) - 1 |-> m_subscribers[IF i <= passed THEN i ELSE i + 1]]

\* Slip: NotifyAll goes through m_subscribers itself, which shifts under it.
UnsubscribeShifts(l) ==
    /\ ~corrupted /\ loader[l] = "closing"
    /\ Becomes(l, "dead")
    /\ m_subscribers' = Others(l)
    /\ copy' = IF copy = <<>> \/ Head(copy) = l THEN copy ELSE Tail(copy)
    /\ due' = due \ {l}
    /\ UNCHANGED <<monitorVars, thread, eventVars, told, handleVars, raced, corrupted>>

\* ~ICallback, last of the loader. Without a dispatcher it writes to freed memory.
Unsubscribe(l) ==
    /\ ~corrupted /\ loader[l] = "closing"
    /\ Becomes(l, "dead")
    /\ m_subscribers' = Others(l)
    /\ due' = due \ {l}
    /\ corrupted' \in {FALSE, thread = "copy" \/ monitor = "dead"}
    /\ UNCHANGED <<monitorVars, thread, eventVars, copy, told, handleVars, raced>>

\* ~DirMonitor: the thread may be blocked in read(), where the flag does not reach it.
StopMonitor ==
    /\ Free /\ monitor = "live"
    /\ monitor' = "stopping"
    /\ isMonitoring' = FALSE
    /\ UNCHANGED <<dirPathOk, thread, eventVars, m_subscribers, roundVars, loaderVars>>

\* ~Dispatcher follows; OutOfService is EmptyFunc for a loader.
JoinReturns ==
    /\ ~corrupted /\ monitor = "stopping" /\ thread = "exit"
    /\ monitor' = "dead"
    /\ m_subscribers' = <<>>
    /\ UNCHANGED <<isMonitoring, dirPathOk, thread, eventVars, roundVars, loaderVars>>

CallStep == JoinReturns \/ \E l \in Loaders : Constructed(l) \/ Unsubscribe(l)

PnpNext ==
    \/ \E f \in Files : FileAppears(f)
    \/ MonitorRoutine
    \/ ReadOther
    \/ ReadFails
    \/ StopMonitor
    \/ CallStep
    \/ \E l \in Loaders : Subscribe(l) \/ CloseHandlers(l)

PnpSpec == PnpInit /\ [][PnpNext]_pnpVars

\* Both threads run when they can; no event has to come, no call to be made.
PnpFairSpec == PnpSpec /\ WF_pnpVars(MonitorRoutine) /\ WF_pnpVars(CallStep)

=============================================================================
