# Nasky in TLA+

Nasky is a block device in user space: the Linux kernel sends the requests of an
NBD device (`/dev/nbdN`) over a socket pair, a reactor reads them, a pool of
threads answers them from a RAM storage. Around it stands a small framework: a
thread pool over a semaphore and a priority queue, a logger, a singleton, a
factory, a dispatcher with callbacks and a plug-and-play component that loads
shared libraries as they appear in a directory.

This directory holds a model of that program in TLA+, its instances for the
model checker TLC, and theorems about every component proved with TLAPS. Paths
below are relative to `src/`.

## Inventory: the parts of the system

| Part | Code | State | Operations | Meets |
|---|---|---|---|---|
| Semaphore | `framework/include/semaphore.hpp` | `m_count`, mutex, condition variable | `Wait`, `Post`, `Set` | thread pool |
| Waitable queue, priority queue | `framework/include/waitable_queue.hpp` | heap, mutex, condition variable | `Push`, `Pop`, timed `Pop`, `IsEmpty` | thread pool |
| Thread pool | `framework/include/thread_pool.hpp`, `framework/src/thread_pool.cpp` | vector of threads, stop and pause flags, `m_threadRealSize`, queue, semaphore | `AddTask`, `Run`, `Pause`, `SetNumOfThreads`, `Stop`, destructor; `ThreadRoutine` | main thread, tasks |
| The other thread pool | `framework/src/thread_pool_almog.cpp`, `framework/include/thread_pool_almog.hpp`, `semaphore_almog.hpp` | vector of threads, `m_actoualNumsOfThreads`, two flags, queue, one semaphore of the process | `AddTask`, `Run`, `Pause`, `SetNumOfThreads`, `Stop`, destructor; `RunThreads`, `WaitTask`, `WakeTask` | its client, tasks |
| Driver, requests | `src/nasky.cpp`, `include/nbd_driver.hpp`, `include/driver_data.hpp` | one socket, `m_mutex` | `RecvRequest`, `SendReply`, `ReadAll`, `WriteAll` | kernel, reactor, workers |
| Driver, life | `src/nasky.cpp`, earlier `src/nasky_almog.cpp` | three descriptors, a thread | constructor, `ThreadRoutine`, `Disconnect`, destructor | kernel, the process's other files |
| RAM storage | `src/nasky.cpp`, `include/ram_storage.hpp` | a vector of bytes, no lock | `Read`, `Write` | workers |
| Reactor and tasks | `test/nasky_test.cpp` | select set, task objects | `main`, five `Do()` | all of the above |
| Logger | `framework/src/logger.cpp` | queue, file, filter, mutex, thread | `Log`, `SetFilter`, `SetPath`, destructor | client threads |
| Singleton | `framework/include/singleton.hpp` | `s_instance`, mutex | `GetInstance`, `CleanUp` | factory's users |
| Factory | `framework/include/factory.hpp` | map of create functions, mutex | `SetKey`, `Create` | reactor, plug-ins |
| Dispatcher, callback | `framework/include/dispatcher_callback.hpp` | vector of subscribers, no lock | `Subscribe`, `Unsubscribe`, `NotifyAll` | monitor, loaders |
| Monitor, loader | `framework/src/pnp.cpp` | inotify, a thread, handles | `MonitorRoutine`, `Load`, destructors | file system |

What is hard in it, part by part:

* **Pool.** `IsEmpty()` and `Pop()` are two critical sections; `Set` raises a
  count by many and notifies one; `Pause` races with units that are out; `Stop`
  joins without a deadline; `SetNumOfThreads` fails half-way; an `int` is read
  uninitialised.
* **The other pool.** It pauses by tasks: a worker is parked by an entry of the
  queue that no other may precede. The number of such entries must match the
  number of workers that are free or may become so, in any order of the calls.
* **Queue.** A `wait_for` may report its timeout although a notification reached
  it: the wake-up is used up and the entry stays.
* **Server.** The reactor blocks on a socket with the mutex that replies need;
  several workers write one stream in pieces and copy one memory without a lock.
* **Driver.** Descriptor numbers are reused by the process after they are closed;
  every constructor step can fail; the kernel serves in a thread of the process.
* **Logger.** Its thread starts before the members it uses are constructed; the
  file is replaced under a lock the thread does not take; nobody notifies
  `SetPath`.
* **Singleton and factory.** Double-checked locking; user code under a lock.
* **Plug and play.** Nothing is locked; construction order lets a callback come
  before the members it uses; a blocked `read()` sees no flag.

Every such point is a hazard of `PROJECT.json`, at its line, with the properties
that would fail were it handled wrongly, or a note saying why none does.

## Modules

```
CondVar <- Semaphore ------\
       \<- WaitableQueue --- ThreadPool <- ThreadPoolProperties <- MCThreadPool
                      \  \                    |         \<- ThreadPoolProofs
                       \  \   TaskPool <-------/ (refinement: ImplementsTaskPool)
                        \  \     ^  ^---------\ (refinement: ImplementsTaskPool)
                         \  \    |             |
                          \  \-- | -- AlmogPool <- AlmogProperties <- MCAlmog, AlmogProofs
                           \---- | -- TimedQueue <- MCTimedQueue, TimedQueueProofs
                                 | INSTANCE
                            NaskyServer <- ServerProperties <- MCServer, ServerProofs
                                                    INSTANCE ----^
                                            WireFormat <- DriverProofs
Logger <- LoggerProperties <- MCLogger, LoggerProofs
SharedFactory <- SharedFactoryProperties <- MCFactory, PluginProofs
PlugAndPlay <- PnpProperties <- MCPnp, PluginProofs
NbdDriver <- DriverProperties <- MCDriver, DriverProofs

QueueProofs: lemmas on WaitableQueue, for ThreadPoolProofs, AlmogProofs, TimedQueueProofs
```

Each component has its behaviour in one module, its properties in a second and
the values of its constants in an `MC` module and `.cfg` files. Definitions
whose comment begins with "Slip:" are wrong variants of the next definition, used
by no specification: each is what a plausible bug in that code would make of it, and
the `mutants` of `PROJECT.json` say which property notices which.

**CondVar, Semaphore, WaitableQueue.** A call that runs under its object's mutex
is one step. A wait is split where it releases the mutex: a thread is in the set
of blocked threads, or woken and about to test its condition again. A
notification wakes one of the blocked threads, any of them, and is lost when
there is none. Wake-ups may be spurious. The heap of the priority queue is a set
whose front is any entry of least rank: a heap promises no more among equals.

**ThreadPool.** One action per statement of `ThreadRoutine` at which another
thread can be noticed: the loop condition, `Wait`, `IsEmpty`, `Pop`, `Do`, `Post`.
The client thread's calls are actions (`AddTask`, `Run`, `Pause`,
`SetNumOfThreads`), and those that meet the workers more than once are several
(`Grow...`, `Stop...`, `JoinReturns`). A store to an atomic flag and the `Set()`
right after it are one step. In `Pause` and `Run` the two are in different orders
in the code, but no worker reads `m_pauseFlag`; in `Stop` a worker that read
`m_stopFlag` before the store goes on to `Wait()` as one that read it before the
joint step does. The constructor's garbage in `m_threadRealSize` is a choice over
`Garbage`. The growing loop of `SetNumOfThreads` compares its index with a size
its body increases, so it never ends by itself: the model repeats `GrowPush`
until the system has no thread left (`GrowNoThread`, the `std::system_error` the
handler does not catch) or memory fails (`GrowRollback`). `result` keeps how the
last call ended. A task is added once, ends, and does not throw; an exception out
of `Do()` ends the real process.

**AlmogPool.** `RunThreads` as the points at which another thread can be noticed
(the loop condition, `Pop`, `Do`), over the same `Semaphore` and `WaitableQueue`. The
pool has no flag that a worker looks at for a pause: `Pause` sets the semaphore to
0 and pushes a WaitTask of the highest priority for each worker, whose `Do()` waits
on the semaphore; a WakeTask, whose `Do()` is empty, makes a worker look at
`m_shouldStop`. The queue's `CmpPriority` compares with `>=`
(`thread_pool_almog.hpp:119`), which is not the strict weak order that
`std::priority_queue` asks for: by the standard that is undefined. The model takes
what libstdc++'s heap does, which is to keep at the front an entry that none
precedes, any among equals: what `Front` allows. In the code the entries of one loop are one object pushed many
times; in the model each is an entry of its own (`Waits`, `Wakes`), and `Room` bounds
how many can be queued. Each turn of a pushing or growing loop is a step, so
workers run between two pushes. Both `Stop` and the destructor are one action with
the call's name, since they differ in the deadline and in who sees an exception.
A task may throw: a `runtime_error` ends the worker's thread and no more
(`thread_pool_almog.cpp:191`), anything else ends the process. A task is added
once. `Init` is the state
the constructor leaves: its threads may have gone on by then, which is their first
steps. What the model shows on the way:

* `Run` and `Stop` raise the count by many and notify one, and an unparked worker
  wakes no other (`ThreadPool` has a `Post` for that): `Stop` may join a parked worker
  for ever. `JoinEndsUnlessParked` is what is left of "Stop ends".
* `Run` on a running pool, growing a paused one, or a `SetNumOfThreads` ended by
  an exception leave more free workers than `Pause` counts; `unbalanced` remembers
  it, and `PausedStartsNothing` is about the rest.
* The destructor does not stop a pool already stopped, so after a timed `Stop` that
  gave up it destroys joinable threads: `std::terminate` (`DestroyStopped`).

**TimedQueue.** The queue on its own, among threads that call all its operations.
A timed `Pop` is in a wait, blocked or woken, or its time is over (`expired`). Once
woken it may still be told "timeout", since libstdc++ looks at the clock after it
has the mutex again; then the call returns false whatever the queue holds, and
the notification it had used is lost to the others. `missed` counts those.
The comment at `waitable_queue.hpp:107` says the loop can be replaced by a lambda;
it cannot be without changing both this and the restart of the timeout at each
turn.

**TaskPool.** The abstract pool: a task is pending, runs on one worker and is
finished, and a worker that starts one takes one that nothing precedes.

**NaskyServer.** The kernel, the socket pair with bounded buffers, the reactor,
the mutex of the driver, the storage cell by cell and the workers inside `Do()`,
over the actions of `TaskPool`: the step from pool to abstract pool is the
theorem `Implementation`. A header is one unit of the stream and each cell of a
payload is one; the value of a cell is the write that stored it, which is what
makes a stale read visible. The kernel is modelled from what the code expects of
it: it writes requests whole, takes the unit after a READ's header for its data,
and reads replies while it has requests to write (the NBD client has a thread for
each direction). Once the kernel has hung up, `read()` returns 0 for ever or
fails (`MainFails`, the `DriverException` that main does not catch). `select()` fails for
a closed descriptor only, and nothing here closes it.

**Assumed of every request:** its vector holds its span. `RecvRequest` sizes it by
the length as it came (`nasky.cpp:161`), which is enough for lengths `256 * k` with
`k < 256` and not for 64 KiB. What the runs and theorems of the server say is
about such requests.

`m_count` and the pool's own calls are not repeated here; the pool runs, as the
program never pauses it.

**WireFormat.** The 28 bytes of a request's header as functions from places to
bytes, and what `RecvRequest` makes of them: offset through `ntohll`, length through
`ntohl`, the type, and the vector, whose size is the length without `ntohl`
(`nasky.cpp:161`). These are functions without state: `MCServer` evaluates them
over bounded inputs and `DriverProofs` proves them for all. A type the constructor
of `DriverData` does not know leaves `m_type` unset: any action.

**Logger.** The queue as a sequence and the file as a name. `should_stop` starts
with any value and is set when the constructor reaches it; popping from a queue
that is not constructed may crash. The filter is read without the lock. `SetPath`
closes and opens the file while the thread may write: in C++ a data race on the
stream, in the model a message written to the file of that moment, or to none.

**SharedFactory.** Singleton and factory together: each statement of
`GetInstance`, in the order of the program (the makefile builds without
optimisation, and the target keeps the order of stores), then `SetKey` or
`Create`. A create function is the number of the `SetKey` that installed it.

**PlugAndPlay.** A read takes any number of the files queued, and looks at the first
event only: one of another mask is dropped with the files behind it
(`ReadOther`). One monitor thread and one client thread that makes and destroys
loaders and the monitor. `Unsubscribe` erases what `std::find` returns, the first
place only. Undefined behaviour (a callback used outside its life, a
vector copied while it changes) is a choice between going on and `corrupted`, in
which the model stops: the properties are about executions in which the build was
lucky or the race did not happen.

**NbdDriver.** The descriptor table of the process, what the driver takes from it
and gives back, and what other code opens and closes meanwhile, with every way
the constructor and `ThreadRoutine` can fail. `text` says which of the two texts of
the class was built: in `nasky_almog.cpp` a failing `NBD_CLEAR_SOCK` throws
(`nasky.cpp` logs it), an error on the thread is an exception out of it, and
`Disconnect` looks at the result of neither `close()`.

## Runs

All runs give their constants in the `.cfg`; none replaces a definition. All say
`CHECK_DEADLOCK FALSE` because the program really may stop: every thread blocked,
the process ended, the kernel silent. What must not stop is stated as liveness.

| Run | Instance | What it shows |
|---|---|---|
| `pool` | 1 worker made by the constructor, a second to grow into, 2 tasks of different rank, sizes 1 and 2, garbage in `m_threadRealSize` | all calls in all orders: wake-ups suffice (`NoStall`, `NoLostTaskWakeup`), a stopped pool is empty (`QuietAfterStop`), `Pause` leaves the units that workers hold and a paused pool gains none (`PausedAddsNoUnit`), the pool implements `TaskPool`; a queued task is taken while a unit and a thread exist (`WorkProceeds`), a join ends unless a worker sleeps in `Pop()` (`StopEndsUnlessStranded`) |
| `almog` | 1 worker, a second to grow into, 1 task, 2 WaitTasks and 2 WakeTasks | the other pool implements `TaskPool`, its pushes wake enough workers, a paused pool starts nothing (`PausedStartsNothing`), a join ends unless a worker is parked (`JoinEndsUnlessParked`) |
| `queue` | 4 callers, 2 entries | entries beside a sleeper are the fault of callers that gave up (`EntriesAnnounced`); a timed `Pop` ends (`TimedPopEnds`) |
| `server` | 2 overlapping writes, 1 read, 2 workers, buffers of one unit | acknowledged data are read back, replies are framed, each request is answered once and always |
| `logger` | 2 clients, 3 messages of 2 levels | what is written is a prefix of what was logged, in order and once; all of it while the logger lives |
| `factory` | 3 threads, 2 keys, 3 calls | one object, used when built; `Create` is current and stable; calls end |
| `pnp` | 2 loaders, 3 files, up to 2 events a read | those that stay are told, handles are closed, the monitor stops at the next event |
| `driver` | 5 descriptors, both texts | the driver closes its own descriptors and no other, its sockets outlive the service, a failed thread ends the process and its destructor ends (`UnservedEnds`) |
| `pool_pause` | violation | after `Pause()` workers take up new tasks |
| `pool_stop` | violation | `Stop()` joins a worker asleep in `Pop()` for ever |
| `server_hangup` | violation | `ReadAll` spins at the end of the stream, with the mutex locked |
| `logger_setpath` | violation | `SetPath` waits for a notification nobody sends |

The four violations are the `findings` of `PROJECT.json`, each with the line of
the repository it disagrees with. Others are seen and not listed: the growing
loop above; messages still queued when the logger is destroyed are dropped
(`logger.cpp:97`), although `framework/test/logger_test.cpp:16` says of such a
message that it will be logged; the comment at `waitable_queue.hpp:107`; and
`framework/test/logger_test.cpp:15`, whose comment says the filter starts at INFO
while the constructor sets DEBUG.

### Bounds

* Pool: the races are between two workers and the client (one task seen twice,
  one notification for two sleepers), so the pool starts with one and grows to
  two: each branch of `SetNumOfThreads` is taken, with a growth that succeeds,
  fails or finds no thread. Two tasks are the least that can be in the wrong
  order. `pool_pause` and `pool_stop` start with two workers. The theorems below
  do not depend on any of these numbers.
* The other pool: two workers, one parked while the other runs, are the least for
  a notification that goes to one of two; an entry of each kind for each worker
  fills the loops of `Pause` and `Stop`. One task suffices, since what may precede
  it is a WaitTask, and two tasks in the wrong order are in `pool`.
* Queue: two sleepers, one of them timed, and two pushes or a third caller that
  takes without waiting are where wake-ups cross; four callers have them all.
* Server: two overlapping writes and a read are the least that can be stale; one
  unit of buffer is the hardest case for the circular wait, since every send
  blocks. `server_hangup` needs one request of any kind.
* Logger: two clients for the lock of `SetPath`, three messages so that one is
  queued, one in hand and one written.
* Factory: `MaxCalls` bounds all calls together. Three calls let a thread
  construct while two race with it, or a `Create` run between two `SetKey`.
* Plug and play: `Batch` is the most events the buffer of 1024 bytes holds (how
  many it takes depends on the names); two with three files makes one read drop
  a file.
* Driver: three descriptors are the driver's, two more let others take a number
  it has closed, and let the table be full at each step of the constructor.

### Fairness

* Pool: weak fairness of each worker's next step and of what the client does
  inside a call it has made. Not fair: new calls, deadlines, failed allocations,
  spurious wake-ups. A worker's step at a mutex is enabled when the mutex can be
  had, so this assumes that a mutex is not withheld for ever, which critical
  sections without loops justify.
* The other pool: the same. `JoinEndsUnlessParked` needs no fairness of the client
  beyond the call it is in.
* Queue: a woken thread gets the mutex and timers run. No push is fair: a `Pop()`
  without a timeout need not end.
* Server: the kernel moves what it has begun (each direction on its own), the
  reactor and each worker run. A free worker takes a queued task: that is
  `WorkProceeds` of the pool, and needs a positive `m_threadRealSize`; the
  uninitialised `int` of `nasky_test.cpp` is in `ThreadPool`, not here. Not fair:
  new requests, `HangUp`. Requests are finite, so a worker that waits for
  `m_mutex` is not passed for ever. `server_hangup` is the case in which
  `NBD_DO_IT` returns without an error; with one, `exit(-1)` ends the process
  (`NbdDriver`).
* Logger: the constructor and destructor go on, the writing thread runs, a call
  goes on to its next wait. A wait of `SetPath` ends only by a notification,
  which nothing sends, or spuriously, which is not fair. Contended acquisitions
  of `m_logMutex` begin a call and are not fair either.
* Factory: a call that has begun goes on. `exit()` need not happen.
* Plug and play: the monitor thread runs and a call goes on; no file has to appear.
* Driver: a call goes on, the first two `ioctl`s return and the handler runs (so a
  failed thread ends the process);
  `NBD_DO_IT` need not return, since the device may be served for ever.

## Theorems

Proved by `tlapm` for every value of the constants that satisfies the modules'
assumptions, all of which TLC evaluates in the runs. An invariant is proved by
`Init => IInv`, `IInv /\ [Next]_vars => IInv'` and `IInv => Inv`, with one step for
each action.

`ThreadPoolProofs`, for every finite set of workers, any set of tasks and ranks, any sizes and any garbage, from `PoolAssumption`
(`ThreadPool`: sets are finite, sentinels are not members) and `RankAssumption`
(`WaitableQueue`: ranks are naturals):

* `TypesHold`: `TypeOK /\ WaitSetsOK` is an invariant. `WaitSetsOK` ties the sets
  inside the two condition variables to the program points of the workers; it is
  the part every other proof rests on, because without it a notification could
  move a thread that does not wait.
* `NeverStalled`: one `notify_one` for each `Set` and `Post` is enough.
  `NoStall` is inductive beside the types: a step that raises the count notifies
  (`NotifyRefutesStall`), and a worker that stops being one that will post has
  either posted or fallen asleep on an empty count or queue.
* `NoTaskWakeupLost`: while anybody sleeps in `Pop()`, there are at least as many
  woken poppers as tasks. The argument is by cardinalities: a push adds one to
  each side (`PushKeepsAnnounced`), a pop takes one from each or from the queue
  alone (`TakeKeepsAnnounced`), a spurious wake-up adds to the right side. These
  lemmas are about the queue and are in `QueueProofs`.
* `Implementation`: the pool implements `TaskPool`, with `m_queue` as pending and
  `held` as running. Initial states map to initial states, `AddTask` to
  `Submit`, `PopReturns` to `Start`, `FinishTask` to `Finish`, and the rest leaves
  the abstract state alone.
* `TasksInOnePlace`: what follows for a task of the pool, by induction over the
  abstract steps.
* `PausedPoolAddsNoUnit`: the action property `PausedAddsNoUnit`, an account of units.
  A worker's steps keep the sum of the count and of those past the semaphore
  (`WorkerKeepsUnits`), and of the client's only `Run`, `Stop` and a failed allocation
  add to it while the pool is paused. That `Pause` does not add needs `Counted`: the
  count of a paused pool is not negative, though `Run` may have made it so before.
* `StopLeavesNobody`: `QuietAfterStop` is not inductive. The strengthening says
  which slots are joined already, that every thread ever started is in a slot or
  has left, and that the slots past `idx` while growing are new.

`AlmogProofs`, from `AlmogAssumption` (the entries that park and wake are apart from
the user's tasks and of lower rank, as `MASTER_P` is; there is a WaitTask for each
worker of the constructor):

* `TypesHold`, which includes that a worker holds a user's task exactly inside
  `Do()`.
* `NoTaskWakeupLost`: the lemmas of `QueueProofs` again.
* `Implementation`: this pool implements `TaskPool` with the user's tasks of the
  queue as pending. The steps on WaitTasks and WakeTasks leave the abstract state
  alone; a user's task is popped only when nothing precedes it, so nothing among
  the user's tasks does.
* `PausedPoolStartsNothing`. The strengthening is `Balanced`, an account: as long
  as nothing has disturbed it, the free workers and the units of the semaphore
  are at most the queued WaitTasks and those that the call under way, or the next
  `Pause`, is pledged to push. In a paused pool nothing is pledged, so a free
  worker has a WaitTask ahead of every task, and popping it makes the worker not
  free. `WorkerBalance` and `ClientBalance` are its steps.

`TimedQueueProofs`, for any callers and entries: `TypesHold`, and
`EntriesStayAnnounced`, the bound of `QueueProofs` with `missed` as what may be owed:
a caller that gives up while woken takes one from the wake-ups and adds one there.

`PluginProofs` has the two components a plug-in meets. For the factory, with any
threads, keys and number of calls, `IInv` is `TypeOK`, `Placed` (a constructor runs while
there is no object, an object not yet stored belongs to the thread about to store it, and
whoever goes on has seen it stored) and `Latest` (`m_classes` is what the `SetKey` calls
so far installed, and a running `Create` was given its key's). From it `OneObject`,
`BuiltWhenUsed`, `CreateRunsCurrent`; from the types alone `MapStable`, since `SetKey`
needs the mutex that `Create` holds.

For plug and play, with any loaders, files and number of events in a read
(`PnpAssumption`: at least one; its specification is called `PnpSpec`, so that one
module can extend both components), `PnpInv` is `PnpTypeOK` with

* `Enlisted`: the vector holds each loader alive at one place, and a file is
  announced once it was read. `OthersStay` is the lemma on `std::find` and `erase`;
* `Queued`: the files inotify still holds are the last that appeared, in that
  order. Without it nothing says that the next file read is a later one;
* `Ordered`: each loader has opened files already read, in order, and the file of
  the round under way comes after all those of the loaders it has still to tell.
  That the copy names nobody twice is part of it;
* `Kept`: what a loader that was notified within its life only keeps is what it
  opened, and `Told`: whom a round owes, it told or has in its copy.

They give `PnpTypesHold`, `FilesOpenInOrder`, `HandlesAreClosed` and, as an action
property, `RoundsTellStayers`.

`LoggerProofs`, for any clients, messages and levels. `IInv` is `TypeOK`, `Seen`
(a thread about to pop has an entry to pop: only it takes messages out) and
`InOrder` itself. The step that moves the front of the queue into the thread's hand
rests on `HeadThenTail`, the one that writes it on `WrittenGrows`.

`DriverProofs`, for any set of descriptor numbers, both texts of the class and any
files the rest of the process opens and closes. None of the properties is
inductive: that a `close()` meets the driver's own descriptor depends on what every
step before it took and gave back. `Held` says, for each stage of the constructor
and of the destructor, which numbers stand for the device and the two sockets and
that no other number does, or that a client's `Disconnect()` has closed both;
`Ordered` says what the thread may be doing meanwhile. The lemmas `LowestIsOne` and
`LowestIsFree` are about the number the kernel gives to a new descriptor. From
`IInv`: `TypesHold`, `OnlyOwnClosed`, `NothingIsLeft`, `SocketsOpen`.

The same module has what a request decodes to: `OffsetDecoded` (`ntohll` reverses
eight bytes and undoes itself), `SmallBuffersHold` (for a length `256 * k` with
`k < 256`, as block requests below 64 KiB are, the vector sized by the bytes as they
came is long enough, and for most far too long) and `LargeBufferIsShort` (for 64 KiB
it has 256 bytes).

`ServerProofs`, for any set of requests of any kinds that cover any cells of a
finite storage, any workers and any size of the socket buffers, from
`ServerAssumption`, and for requests whose buffers hold their spans (see
`NaskyServer`, and `SmallBuffersHold` for which lengths these are). A request is an element of `Reqs`, issued once, since the driver
tells requests apart by the handle the kernel chose. `IInv` has four layers:

* who does what: `Mutex` (the lock is held by whoever is inside `RecvRequest` or
  `SendReply`) and `Busy` (whoever is inside a loop has cells left, of the request
  it serves);
* the kernel's stream: `RequestsFramed` (what was sent and not read is a sequence
  of whole requests, except for the part of the first that `ReadAll` has taken) and
  `Placed` (a request is on its way, in the main thread's hands or in the pool, and
  in one place of these). They give `RequestsAreTakenWhole`, `SubmitsOnce`;
* the replies: `RepliesPlaced` (a reply is in the stream once, and was not received
  before) and `RepliesDue`. The latter is the heart of the framing: there is a
  function `due` from the places of the stream to the cells whose data are due
  there, which begins with what the kernel is waiting for and ends with what the
  worker holding the mutex has still to send. Each step that takes a unit shifts it,
  each that writes one extends it (`DueRead`, `DueWritten`). A weaker statement, that
  data units are followed by data of the same request, is not inductive: it does
  not say when a reply is complete. They give `RepliesAreFramed`,
  `RepliesAreSentOnce`;
* the data: `Loaded` (the buffer of a WRITE holds what the kernel sent),
  `StoredCurrent` (no cell is older than a copy into it of an answered WRITE),
  `CopiedCurrent` and `ArrivedCurrent` (nor is what a READ took from it, nor what
  arrived of its reply). `Past` is what the three count by: the requests that have
  made their copy of a cell, answered or not. They give `AnsweredIsStored`,
  `ReadsAreCurrent`, although copies run without a lock.

Only model-checked: liveness, under the fairness above, since the provers have no
rule for `ENABLED`.

## Not modelled

* `test/nasky_test_nadav.cpp`, another main that the makefile does not build: it
  gives each request to the pool and replies without waiting for it.
* `RecvRequest` and `SendReply` of `src/nasky_almog.cpp`: they read and write the
  stream as those of `nasky.cpp` do, which `NaskyServer` has.
* The constructor of `AlmogPool` statement by statement, and a constructor there
  that throws.
* An exception out of `Do()` in `thread_pool.cpp`, which ends the process.
* `include/framework.hpp`, `gateway.hpp`, `master_getway.hpp`: sketches that do
  not compile.
* `framework/include/pnp_lib.cpp`, `so_file_for_pnp.cpp`: sample libraries.
* Offsets beyond the storage, which the kernel does not send, and payloads of
  64 KiB and more, for which the buffer of `nasky.cpp:161` is too short.
* `Logger::WriteLog` (never called) and `m_is_connected` (never read).
* Create functions that use the factory they run in: the repository has none.

## Plan

Done, in this order: the pool with its semaphore and queue; `TaskPool` and the
refinement; the server over `TaskPool`; logger; singleton and factory; plug and
play; driver; the theorems of the pool; the other pool as a second refinement of
`TaskPool`; the timed `Pop`; the wire format; the theorems of those, of the factory
and of the logger; the theorems of the driver, the server and plug and play. Every
safety and action property of the runs that pass is now a theorem.

Next: `NaskyServer` as an implementation of an abstract block device, in which a
request is issued, takes effect cell by cell and is answered; `NoLostTaskWakeup` of
the pool towards a bound on workers asleep in `Pop()` after `Stop`, the safety half of
`StopEndsUnlessStranded`; the main of `nasky_test_nadav.cpp` over the same driver.
