---------------------------- MODULE DriverProofs ----------------------------
(*
  What is true of NBDDriverCom whatever descriptors its process has: the life of
  the device (NbdDriver), and the requests it decodes (WireFormat).
*)
EXTENDS DriverProperties, WireFormat, WellFoundedInduction, TLAPS

\* The constructor has made the socket pair and the destructor is not done with it.
Paired == life \in {"sockets", "live", "joining", "closeApp"}

Nowhere(owner) == \A n \in Numbers : table[n] # owner

\* A number the driver holds is its own and nobody else's, as long as it has not
\* closed it: both sockets until a first Disconnect(), then none; the device
\* until the guard's close().
Held ==
    /\ life \in {"none", "failed", "destroyed"} /\ ~unguarded =>
         Nowhere("device") /\ Nowhere("app") /\ Nowhere("kernelEnd")
    /\ life \notin {"none", "failed", "destroyed"} =>
         \A n \in Numbers : table[n] = "device" <=> n = m_fd
    /\ life = "device" => Nowhere("app") /\ Nowhere("kernelEnd")
    /\ life \notin {"none", "device", "failed"} =>
         {m_fd, m_app, m_device} \subseteq Numbers /\ m_fd \notin {m_app, m_device} /\ m_app # m_device
    /\ Paired =>
         \/ \A n \in Numbers : (table[n] = "app" <=> n = m_app) /\ (table[n] = "kernelEnd" <=> n = m_device)
         \/ explicit /\ Nowhere("app") /\ Nowhere("kernelEnd")
    /\ life = "closeDevice" =>
         /\ Nowhere("app")
         /\ \/ \A n \in Numbers : table[n] = "kernelEnd" <=> n = m_device
            \/ explicit /\ Nowhere("kernelEnd")
    /\ life = "dtorEnds" => Nowhere("app") /\ Nowhere("kernelEnd")
    /\ life \in {"device", "sockets", "live", "joining", "closeApp", "closeDevice", "dtorEnds"} =>
         m_fd \in Numbers

\* Without a client's Disconnect() the driver closes only in its destructor, once
\* its thread has ended.
Ordered ==
    /\ life \in {"none", "device", "sockets", "failed"} => thread = "none" /\ ~explicit /\ ~inDtor
    /\ life = "joining" => inDtor
    /\ life \in {"closeApp", "closeDevice", "dtorEnds", "destroyed"} /\ ~explicit =>
         inDtor /\ thread \notin {"setsock", "setflags", "doit"}
    /\ life = "live" => ~inDtor
    /\ life \in {"closeApp", "closeDevice"} /\ ~inDtor => explicit

IInv == TypeOK /\ Held /\ Ordered /\ ClosesItsOwn

\* open() finds the number it is to give,
LEMMA LowestIsOne == ASSUME NEW S, S \subseteq Nat, S # {} PROVE Lowest(S) \in S
<1> DEFINE less == OpToRel(<, Nat)
<1>1. \A x, y \in Nat : <<x, y>> \in less <=> x < y
  BY DEF OpToRel
<1>2. IsWellFoundedOn(less, Nat)
  BY NatLessThanWellFounded
<1> HIDE DEF less
<1>3. PICK n \in S : \A k \in S : <<k, n>> \notin less
  BY <1>2, WFMin
<1>4. ASSUME NEW k \in S PROVE n <= k
  <2>1. k \in Nat /\ n \in Nat
    OBVIOUS
  <2>2. ~(k < n)
    BY <1>1, <1>3, <2>1
  <2> QED BY <2>1, <2>2
<1> QED BY <1>4 DEF Lowest

\* and it is a free one.
LEMMA LowestIsFree ==
    Free(table) # {} => Lowest(Free(table)) \in Numbers /\ table[Lowest(Free(table))] = "free"
<1>1. Free(table) \subseteq Nat
  BY DriverAssumption DEF Free
<1>2. Free(table) # {} => Lowest(Free(table)) \in Free(table)
  BY <1>1, LowestIsOne
<1> QED BY <1>2 DEF Free

\* The invariant holds before the constructor.
LEMMA InitHolds == Init => IInv
  BY DEF Init, IInv, TypeOK, Held, Nowhere, Paired, Ordered, ClosesItsOwn, Owners

\* A step keeps the invariant.
LEMMA StepHolds == IInv /\ [Next]_vars => IInv'
<1> SUFFICES ASSUME IInv, [Next]_vars PROVE IInv'
    OBVIOUS
<1> USE DriverAssumption DEF At, fds, object, process
<1>1. CASE UNCHANGED vars
  BY <1>1 DEF vars, IInv, TypeOK, Owners, Held, Nowhere, Paired, Ordered, ClosesItsOwn
<1>2. CASE OpenDevice
  <2>1. CASE life' = "failed" /\ UNCHANGED <<m_fd, table>>
    BY <1>2, <2>1 DEF OpenDevice, IInv, TypeOK, Owners, Held, Nowhere, Paired, Ordered, ClosesItsOwn
  <2>2. CASE /\ Free(table) # {} /\ m_fd' = Lowest(Free(table))
             /\ table' = [table EXCEPT ![m_fd'] = "device"] /\ life' = "device"
    <3>1. m_fd' \in Numbers /\ table[m_fd'] = "free"
      BY <2>2, LowestIsFree
    <3>2. /\ table' = [table EXCEPT ![m_fd'] = "device"] /\ life' = "device" /\ life = "none"
          /\ UNCHANGED <<text, m_app, m_device, foreign, process, unguarded>>
      BY <1>2, <2>2 DEF OpenDevice
    <3> QED BY <3>1, <3>2 DEF IInv, TypeOK, Owners, Held, Nowhere, Paired, Ordered, ClosesItsOwn
  <2> QED BY <1>2, <2>1, <2>2 DEF OpenDevice
<1>3. CASE MakeSockets
  <2>1. PICK app, dev \in Numbers :
          /\ app # dev /\ table[app] = "free" /\ table[dev] = "free"
          /\ table' = [table EXCEPT ![app] = "app", ![dev] = "kernelEnd"]
          /\ m_app' = app /\ m_device' = dev
    <3>1. PICK app \in Free(table), dev \in Free(table) :
            /\ app < dev
            /\ table' = [table EXCEPT ![app] = "app", ![dev] = "kernelEnd"]
            /\ m_app' = app /\ m_device' = dev
      BY <1>3 DEF MakeSockets
    <3>2. app \in Numbers /\ dev \in Numbers /\ table[app] = "free" /\ table[dev] = "free"
      BY DEF Free
    <3>3. app # dev
      BY <3>1, <3>2
    <3> QED BY <3>1, <3>2, <3>3
  <2>2. /\ life = "device" /\ life' = "sockets"
        /\ UNCHANGED <<text, m_fd, foreign, process, unguarded>>
    BY <1>3 DEF MakeSockets
  <2>3. TypeOK /\ Held
    BY DEF IInv
  <2>4. m_fd \in Numbers /\ \A n \in Numbers : table[n] = "device" <=> n = m_fd
    BY <2>2, <2>3 DEF Held
  <2>5. Nowhere("app") /\ Nowhere("kernelEnd")
    BY <2>2, <2>3 DEF Held
  <2>6. table \in [Numbers -> Owners]
    BY <2>3 DEF TypeOK
  <2>7. \A n \in Numbers : /\ table'[n] = "device" <=> n = m_fd'
                           /\ table'[n] = "app" <=> n = m_app'
                           /\ table'[n] = "kernelEnd" <=> n = m_device'
    BY <2>1, <2>2, <2>4, <2>5, <2>6 DEF Nowhere
  <2>8. {m_fd, m_app, m_device}' \subseteq Numbers /\ m_fd' \notin {m_app', m_device'} /\ m_app' # m_device'
    BY <2>1, <2>2, <2>4
  <2>9. table' \in [Numbers -> Owners]
    BY <2>1, <2>6 DEF Owners
  <2>10. TypeOK'
    BY <2>2, <2>3, <2>8, <2>9 DEF TypeOK
  <2>11. Held'
    BY <2>2, <2>7, <2>8 DEF Held, Paired
  <2> QED BY <2>2, <2>10, <2>11 DEF IInv, Ordered, ClosesItsOwn
<1>4. CASE MakeSocketsFails
  BY <1>4 DEF MakeSocketsFails, CloseOf, IInv, TypeOK, Owners, Held, Nowhere, Paired, Ordered, ClosesItsOwn
<1>5. CASE StartThread
  BY <1>5 DEF StartThread, IInv, TypeOK, Owners, Held, Nowhere, Paired, Ordered, ClosesItsOwn
<1>6. CASE StartThreadFails
  BY <1>6 DEF StartThreadFails, CloseOf, IInv, TypeOK, Owners, Held, Nowhere, Paired, Ordered, ClosesItsOwn
<1>7. CASE ClearSocketFails
  BY <1>7 DEF ClearSocketFails, StartThreadFails, CloseOf, IInv, TypeOK, Owners, Held, Nowhere, Paired, Ordered, ClosesItsOwn
<1>8. CASE SetSock
  BY <1>8 DEF SetSock, Ioctl, IInv, TypeOK, Owners, Held, Nowhere, Paired, Ordered, ClosesItsOwn
<1>9. CASE SetFlags
  BY <1>9 DEF SetFlags, Ioctl, IInv, TypeOK, Owners, Held, Nowhere, Paired, Ordered, ClosesItsOwn
<1>10. CASE DoItReturns
  BY <1>10 DEF DoItReturns, Ioctl, IInv, TypeOK, Owners, Held, Nowhere, Paired, Ordered, ClosesItsOwn
<1>11. CASE HandlerEndsProcess
  BY <1>11 DEF HandlerEndsProcess, IInv, TypeOK, Owners, Held, Nowhere, Paired, Ordered, ClosesItsOwn
<1>12. CASE Disconnect
  BY <1>12 DEF Disconnect, IInv, TypeOK, Owners, Held, Nowhere, Paired, Ordered, ClosesItsOwn
<1>13. CASE Destroy
  BY <1>13 DEF Destroy, IInv, TypeOK, Owners, Held, Nowhere, Paired, Ordered, ClosesItsOwn
<1>14. CASE JoinReturns
  BY <1>14 DEF JoinReturns, IInv, TypeOK, Owners, Held, Nowhere, Paired, Ordered, ClosesItsOwn
<1>15. CASE CloseApp
  BY <1>15 DEF CloseApp, CloseOf, IsOpen, Free, Left, IInv, TypeOK, Owners, Held, Nowhere, Paired, Ordered, ClosesItsOwn
<1>16. CASE CloseDevice
  BY <1>16 DEF CloseDevice, CloseOf, Left, IInv, TypeOK, Owners, Held, Nowhere, Paired, Ordered, ClosesItsOwn
<1>17. CASE CloseGuard
  BY <1>17 DEF CloseGuard, CloseOf, IInv, TypeOK, Owners, Held, Nowhere, Paired, Ordered, ClosesItsOwn
<1>18. CASE OthersFiles
  <2>1. PICK n \in Numbers :
          /\ table[n] \in {"free", "other"}
          /\ \E owner \in {"free", "other"} : table' = [table EXCEPT ![n] = owner]
    BY <1>18, LowestIsFree DEF OthersFiles
  <2>2. UNCHANGED <<life, object, foreign, process, unguarded>>
    BY <1>18 DEF OthersFiles
  <2>3. TypeOK /\ Held /\ Ordered /\ ClosesItsOwn
    BY DEF IInv
  <2>4. table' \in [Numbers -> Owners]
    BY <2>1, <2>3 DEF TypeOK, Owners
  <2>5. \A k \in Numbers, owner \in {"device", "app", "kernelEnd"} : table'[k] = owner <=> table[k] = owner
    BY <2>1, <2>3 DEF TypeOK
  <2>6. Held'
    BY <2>2, <2>3, <2>5 DEF Held, Nowhere, Paired
  <2> QED BY <2>2, <2>3, <2>4, <2>6 DEF IInv, TypeOK, Ordered, ClosesItsOwn
<1> QED BY <1>1, <1>2, <1>3, <1>4, <1>5, <1>6, <1>7, <1>8, <1>9, <1>10, <1>11, <1>12, <1>13, <1>14, <1>15, <1>16, <1>17, <1>18 DEF Next, CallStep

\* The invariant holds in every state.
LEMMA InvariantHolds == Spec => []IInv
  BY InitHolds, StepHolds, PTL DEF Spec

\* The state has the types it is given.
THEOREM TypesHold == Spec => []TypeOK
<1>1. IInv => TypeOK
  BY DEF IInv
<1> QED BY <1>1, InvariantHolds, PTL

\* Whatever other files the process opens between two steps, the driver closes a
\* number that is not its own only after a client's Disconnect().
THEOREM OnlyOwnClosed == Spec => []ClosesItsOwn
<1>1. IInv => ClosesItsOwn
  BY DEF IInv
<1> QED BY <1>1, InvariantHolds, PTL

\* When a constructor has failed with its sockets guarded, or the destructor is
\* done, no number stands for anything of the driver's.
THEOREM NothingIsLeft == Spec => []NothingLeft
<1>1. IInv => NothingLeft
  BY DEF IInv, NothingLeft, TypeOK, Owners, Held, Nowhere
<1> QED BY <1>1, InvariantHolds, PTL

\* As long as the thread serves the device both sockets are open, unless a client
\* has called Disconnect().
THEOREM SocketsOpen == Spec => []ServedSocketsOpen
<1>1. IInv => ServedSocketsOpen
  BY DEF IInv, ServedSocketsOpen, TypeOK, Held, Nowhere, Paired, Ordered
<1> QED BY <1>1, InvariantHolds, PTL

-----------------------------------------------------------------------------
(* The requests on the wire *)

\* ntohl: the host's reading of the turned bytes is what the sender meant.
LEMMA LengthDecoded == \A w \in Word : HostValue(Ntohl(w)) = NetValue(w)
  BY DEF HostValue, NetValue, Ntohl

\* ntohll turns the eight bytes round: nothing of an offset is lost, and applied
\* twice it is the identity, as the way back to the wire needs.
THEOREM OffsetDecoded ==
    \A a \in Long : Ntohll(a) = [i \in 1 .. 8 |-> a[9 - i]] /\ Ntohll(Ntohll(a)) = a
<1> SUFFICES ASSUME NEW a \in Long
             PROVE  Ntohll(a) = [i \in 1 .. 8 |-> a[9 - i]] /\ Ntohll(Ntohll(a)) = a
    OBVIOUS
<1>1. \A b \in Long : Ntohll(b) = [i \in 1 .. 8 |-> b[9 - i]]
  <2> TAKE b \in Long
  <2>1. ASSUME NEW i \in 1 .. 8 PROVE Ntohll(b)[i] = b[9 - i]
    <3>1. CASE i <= 4
      BY <3>1 DEF Ntohll, Ntohl
    <3>2. CASE i > 4
      BY <3>2 DEF Ntohll, Ntohl
    <3> QED BY <3>1, <3>2
  <2>2. Ntohll(b) = [i \in 1 .. 8 |-> Ntohll(b)[i]]
    BY DEF Ntohll
  <2> QED BY <2>1, <2>2
<1>2. Ntohll(a) \in Long
  BY <1>1 DEF Long
<1>3. ASSUME NEW i \in 1 .. 8 PROVE Ntohll(Ntohll(a))[i] = a[i]
  <2>1. Ntohll(Ntohll(a))[i] = Ntohll(a)[9 - i] /\ 9 - i \in 1 .. 8
    BY <1>1, <1>2
  <2> QED BY <1>1, <2>1
<1>4. Ntohll(Ntohll(a)) = [i \in 1 .. 8 |-> Ntohll(Ntohll(a))[i]]
  BY <1>1, <1>2
<1>5. a = [i \in 1 .. 8 |-> a[i]]
  BY DEF Long
<1> QED BY <1>1, <1>3, <1>4, <1>5

\* The buffer holds the payload of any request of less than 256 times 256 bytes, in
\* the multiples of a block device: its length turned round is larger.
THEOREM SmallBuffersHold ==
    ASSUME NEW type \in Word, NEW from \in Long, NEW len \in Word,
           NEW k \in Nat, NetValue(len) = 256 * k, k < 256
    PROVE  \A data \in Received([type |-> type, from |-> from, len |-> len]) : Holds(data)
<1> DEFINE a == len[1]
           b == len[2]
           c == len[3]
           d == len[4]
<1>1. a \in 0 .. 255 /\ b \in 0 .. 255 /\ c \in 0 .. 255 /\ d \in 0 .. 255
  BY DEF Word, Byte
<1>2. NetValue(len) = d + 256 * c + 65536 * b + 16777216 * a
  BY DEF NetValue
<1>3. HostValue(len) = a + 256 * b + 65536 * c + 16777216 * d
  BY DEF HostValue
<1>4. d + 256 * c + 65536 * b + 16777216 * a = 256 * k
  BY <1>2
<1> HIDE DEF a, b, c, d
<1>5. a = 0
  BY <1>1, <1>4
<1>6. b = 0
  BY <1>1, <1>4, <1>5
<1>7. d = 256 * (k - c)
  BY <1>1, <1>4, <1>5, <1>6
<1>8. k - c = 0
  BY <1>1, <1>7
<1>9. NetValue(len) <= HostValue(len)
  BY <1>1, <1>2, <1>3, <1>5, <1>6, <1>7, <1>8
<1> QED BY <1>9 DEF Received, Holds

\* That bound is the best: the buffer of a request of 64 KiB has 256 bytes.
THEOREM LargeBufferIsShort ==
    \E len \in Word : NetValue(len) = 65536 /\ HostValue(len) = 256
<1> DEFINE len == [i \in 1 .. 4 |-> IF i = 2 THEN 1 ELSE 0]
<1>1. len \in Word
  BY DEF Word, Byte
<1> WITNESS len \in Word
<1> QED BY DEF NetValue, HostValue

=============================================================================
