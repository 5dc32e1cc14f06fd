------------------------------ MODULE NbdDriver ------------------------------
(*
  The life of an NBDDriverCom (src/nasky.cpp): the descriptors it opens and
  closes in a process that opens others, and its thread, which spends the life
  of the device inside ioctl(NBD_DO_IT). The requests are in NaskyServer.

  src/nasky_almog.cpp is an earlier text of the same class; "text" says which of
  the two the process was built from, and where they differ, what it does.

  A descriptor is a number and a number is reused: open() and socketpair() give
  the lowest that is free, and close() closes whatever a number stands for now.
*)
EXTENDS Naturals

CONSTANT Numbers   \* the descriptors of the process

ASSUME DriverAssumption == Numbers \subseteq Nat \ {0}

VARIABLES
    text,               \* "nasky" or "almog", fixed by the build
    life,               \* how far the constructor or destructor has come
    table,              \* what each number stands for
    m_fd, m_app, m_device,  \* the numbers the driver holds, 0 for none
    thread,             \* where ThreadRoutine is
    alive,              \* the process
    inDtor,             \* the destructor has begun
    explicit,           \* the client has called Disconnect() itself
    unguarded,          \* the constructor threw with its sockets open
    foreign             \* the driver closed a descriptor that was not its own

object == <<text, m_fd, m_app, m_device>>
process == <<thread, alive, inDtor, explicit>>
fds == <<object, table, foreign>>
vars == <<life, fds, process, unguarded>>

Init ==
    /\ text \in {"nasky", "almog"}
    /\ life = "none"
    /\ table = [n \in Numbers |-> "free"]
    /\ m_fd = 0 /\ m_app = 0 /\ m_device = 0
    /\ thread = "none"
    /\ alive = TRUE
    /\ inDtor = FALSE /\ explicit = FALSE /\ unguarded = FALSE /\ foreign = FALSE

Lowest(S) == CHOOSE n \in S : \A k \in S : n <= k

Free(tab) == {n \in Numbers : tab[n] = "free"}

\* close(number) by the driver; EBADF, and nothing happens, on a free number.
CloseOf(number, mine) ==
    /\ table' = [n \in Numbers |-> IF n = number THEN "free" ELSE table[n]]
    /\ foreign' = (foreign \/ (number \in Numbers /\ table[number] \notin {"free", mine}))

IsOpen(number) == number \in Numbers \ Free(table)

At(stage) == alive /\ life = stage

-----------------------------------------------------------------------------
(* The constructor. What throws in it leaves "failed" behind, with only the
   members constructed so far destroyed: that is FDGuard. *)

OpenDevice ==
    /\ At("none")
    /\ \/ /\ Free(table) # {}
          /\ m_fd' = Lowest(Free(table))
          /\ table' = [table EXCEPT ![m_fd'] = "device"]
          /\ life' = "device"
       \/ life' = "failed" /\ UNCHANGED <<m_fd, table>>
    /\ UNCHANGED <<text, m_app, m_device, foreign, process, unguarded>>

\* ioctl(NBD_SET_SIZE), then socketpair(), which takes two numbers.
MakeSockets ==
    /\ At("device")
    /\ \E app, dev \in Free(table) :
         /\ app < dev /\ \A n \in Free(table) : n = app \/ dev <= n
         /\ table' = [table EXCEPT ![app] = "app", ![dev] = "kernelEnd"]
         /\ m_app' = app /\ m_device' = dev
    /\ life' = "sockets"
    /\ UNCHANGED <<text, m_fd, foreign, process, unguarded>>

\* NBD_SET_SIZE or socketpair() fails.
MakeSocketsFails ==
    /\ At("device")
    /\ CloseOf(m_fd, "device")
    /\ life' = "failed"
    /\ UNCHANGED <<object, process, unguarded>>

StartThread ==
    /\ At("sockets")
    /\ thread' = "setsock"
    /\ life' = "live"
    /\ UNCHANGED <<fds, alive, inDtor, explicit, unguarded>>

\* Slip: the exception is swallowed.
StartThreadIgnored ==
    /\ At("sockets")
    /\ unguarded' = TRUE
    /\ life' = "live"
    /\ UNCHANGED <<fds, process>>

\* std::system_error: the two sockets have no guard.
StartThreadFails ==
    /\ At("sockets")
    /\ CloseOf(m_fd, "device")
    /\ unguarded' = TRUE
    /\ life' = "failed"
    /\ UNCHANGED <<object, process>>

\* NBD_CLEAR_SOCK fails: "nasky" writes that to its log and goes on.
ClearSocketFails == text = "almog" /\ StartThreadFails

-----------------------------------------------------------------------------
(* ThreadRoutine *)

\* NBD_SET_SOCK, then NBD_SET_FLAGS, then NBD_DO_IT; each may fail.
Ioctl(from, to) ==
    /\ alive /\ thread = from
    /\ thread' \in {to, "failed"}
    /\ UNCHANGED <<life, fds, alive, inDtor, explicit, unguarded>>

SetSock == Ioctl("setsock", "setflags")

SetFlags == Ioctl("setflags", "doit")

\* The device is disconnected, or an error ends NBD_DO_IT.
DoItReturns == Ioctl("doit", "ended")

\* Slip: the handler does not end the process, so it returns and the thread ends:
\* the device is dead, and a join takes that for its end.
HandlerReturns ==
    /\ alive /\ thread = "failed"
    /\ thread' = "ended"
    /\ UNCHANGED <<life, fds, alive, inDtor, explicit, unguarded>>

\* The handler: exit(-1), or an exception out of a thread, which is std::terminate.
HandlerEndsProcess ==
    /\ alive /\ thread = "failed"
    /\ alive' = FALSE
    /\ UNCHANGED <<life, fds, thread, inDtor, explicit, unguarded>>

-----------------------------------------------------------------------------
(* Disconnect, called by the client, or by the destructor once it has joined *)

Disconnect ==
    /\ At("live")
    /\ life' = "closeApp"
    /\ explicit' = TRUE
    /\ UNCHANGED <<fds, thread, alive, inDtor, unguarded>>

\* Slip: the destructor disconnects without waiting for its thread.
DestroyAtOnce ==
    /\ At("live")
    /\ inDtor' = TRUE
    /\ life' = "closeApp"
    /\ UNCHANGED <<fds, thread, alive, explicit, unguarded>>

Destroy ==
    /\ At("live")
    /\ inDtor' = TRUE
    /\ life' = "joining"
    /\ UNCHANGED <<fds, thread, alive, explicit, unguarded>>

JoinReturns ==
    /\ At("joining") /\ thread = "ended"
    /\ life' = "closeApp"
    /\ UNCHANGED <<fds, thread, alive, inDtor, explicit, unguarded>>

\* Disconnect is over, or has thrown: the destructor catches that.
Left == IF inDtor THEN "dtorEnds" ELSE "live"

\* A first close() that fails throws, and the second is never tried; "almog" looks
\* at no result.
CloseApp ==
    /\ At("closeApp")
    /\ CloseOf(m_app, "app")
    /\ life' = IF IsOpen(m_app) \/ text = "almog" THEN "closeDevice" ELSE Left
    /\ UNCHANGED <<object, process, unguarded>>

\* Slip: the first socket is closed a second time, the other stays open.
CloseAppAgain ==
    /\ At("closeDevice")
    /\ CloseOf(m_app, "app")
    /\ life' = Left
    /\ UNCHANGED <<object, process, unguarded>>

CloseDevice ==
    /\ At("closeDevice")
    /\ CloseOf(m_device, "kernelEnd")
    /\ life' = Left
    /\ UNCHANGED <<object, process, unguarded>>

\* ~FDGuard, the last of the destructor.
CloseGuard ==
    /\ At("dtorEnds")
    /\ CloseOf(m_fd, "device")
    /\ life' = "destroyed"
    /\ UNCHANGED <<object, process, unguarded>>

-----------------------------------------------------------------------------

\* The rest of the program opens and closes files of its own.
OthersFiles ==
    /\ alive
    /\ \/ Free(table) # {} /\ table' = [table EXCEPT ![Lowest(Free(table))] = "other"]
       \/ \E n \in Numbers : table[n] = "other" /\ table' = [table EXCEPT ![n] = "free"]
    /\ UNCHANGED <<life, object, foreign, process, unguarded>>

CallStep == JoinReturns \/ CloseApp \/ CloseDevice \/ CloseGuard

Next ==
    \/ OpenDevice \/ MakeSockets \/ MakeSocketsFails \/ StartThread \/ StartThreadFails
    \/ ClearSocketFails
    \/ SetSock \/ SetFlags \/ DoItReturns \/ HandlerEndsProcess
    \/ Disconnect \/ Destroy \/ CallStep
    \/ OthersFiles

Spec == Init /\ [][Next]_vars

\* A call and the thread go on; NBD_DO_IT need not return.
FairSpec ==
    Spec /\ WF_vars(CallStep) /\ WF_vars(SetSock \/ SetFlags \/ HandlerEndsProcess)

=============================================================================
