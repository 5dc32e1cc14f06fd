---------------------------- MODULE ServerProofs ----------------------------
(*
  What is true of the block device for every set of requests and of workers, as
  long as each request's buffer holds its span: NaskyServer says of which lengths
  that is so, DriverProofs proves it.
*)
EXTENDS ServerProperties, FiniteSetTheorems, SequenceTheorems, WellFoundedInduction, TLAPS

\* What has left the kernel and was not read yet.
In == toApp \o outbox

\* The units of data that follow the header of a request.
DataUnits(h) == IF Kind[h] = "WRITE" THEN Cardinality(Span[h]) ELSE 0

\* After its first j units s has k units of data of h, then a header or its end.
Run(s, j, k, h) ==
    /\ j + k <= Len(s)
    /\ \A i \in j + 1 .. j + k : s[i].part = "data" /\ s[i].req = h
    /\ j + k < Len(s) => s[j + k + 1].part = "header"

\* The kernel's stream is a sequence of whole requests, but for what the main
\* thread has read of the first one.
RequestsFramed ==
    /\ Run(In, 0, IF reactor = "payload" THEN Cardinality(left[Reactor]) ELSE 0, current)
    /\ \A j \in 1 .. Len(In) :
          In[j].part = "header" => Run(In, j, DataUnits(In[j].req), In[j].req)

\* m_mutex is locked by whoever is inside RecvRequest or SendReply.
Mutex ==
    /\ m_mutex = Reactor <=> reactor \in {"header", "payload"}
    /\ \A w \in Workers : m_mutex = w <=> doing[w] \in {"header", "data"}

\* Whoever is inside a loop has something left to do, for the request it serves.
Busy ==
    /\ \A w \in Workers :
          /\ doing[w] = "idle" <=> running[w] = NoReq
          /\ doing[w] \in {"copy", "data"} => left[w] # {} /\ left[w] \subseteq Span[running[w]]
          /\ doing[w] = "data" => Kind[running[w]] = "READ"
    /\ reactor \in {"payload", "submit"} <=> current # NoReq
    /\ reactor = "payload" =>
         Kind[current] = "WRITE" /\ left[Reactor] # {} /\ left[Reactor] \subseteq Span[current]
    /\ replying # NoReq <=> left[NoReq] # {}
    /\ replying # NoReq => Kind[replying] = "READ" /\ left[NoReq] \subseteq Span[replying]

\* Every request made is in one place: still on its way, in the main thread's
\* hands, or in the pool.
InPool == pending \cup Pool!Running \cup finished

Placed ==
    /\ InPool \subseteq issued
    /\ current # NoReq => current \in issued \ InPool
    /\ \A j \in 1 .. Len(In) :
          In[j].part = "header" => In[j].req \in issued \ (InPool \cup {current})
    /\ \A i, j \in 1 .. Len(In) :
          In[i].part = "header" /\ In[j].part = "header" /\ In[i].req = In[j].req => i = j
    /\ Pool!OnePlace

\* The requests whose reply has been sent, if only its header.
Replied == finished \cup {running[w] : w \in {v \in Workers : doing[v] = "data"}}

\* A reply is sent once, arrives once, and is not known before it arrives.
RepliesPlaced ==
    /\ answered \subseteq Replied
    /\ replying # NoReq => replying \in Replied \ answered
    /\ \A j \in 1 .. Len(toKernel) :
          toKernel[j].part = "header" => toKernel[j].req \in Replied \ (answered \cup {replying})
    /\ \A i, j \in 1 .. Len(toKernel) :
          toKernel[i].part = "header" /\ toKernel[j].part = "header"
            /\ toKernel[i].req = toKernel[j].req => i = j
    /\ \A h \in Reqs : before[h] \subseteq answered

\* The request a unit after the first k of the stream would belong to.
ReplyAfter(k) == IF k = 0 THEN replying ELSE toKernel[k].req

\* The cells whose data follow the header of a reply.
DataCells(h) == IF Kind[h] = "READ" THEN Span[h] ELSE {}

\* The worker that is writing data, and the cells it has still to send.
Writing(w) == m_mutex = w /\ doing[w] = "data"

\* "due" tells, for each place of the stream and for its end, the cells whose data
\* are due there; where none are, comes a header.
Due(due) ==
    /\ due[1] = left[NoReq]
    /\ \A j \in 1 .. Len(toKernel) :
         /\ toKernel[j].part = "header" <=> due[j] = {}
         /\ due[j + 1] = IF due[j] = {} THEN DataCells(toKernel[j].req) ELSE due[j] \ {First(due[j])}
         /\ due[j] # {} =>
              /\ toKernel[j].req = ReplyAfter(j - 1)
              /\ toKernel[j].req \in issued
              /\ Current(toKernel[j].value, First(due[j]), before[toKernel[j].req])
    /\ \A w \in Workers : Writing(w) =>
         due[Len(toKernel) + 1] = left[w] /\ running[w] = ReplyAfter(Len(toKernel))
    /\ (\A w \in Workers : ~Writing(w)) => due[Len(toKernel) + 1] = {}

RepliesDue == \E due \in [1 .. Len(toKernel) + 1 -> SUBSET Cells] : Due(due)

\* The copy of cell c for h is made.
Past(h, c) ==
    h \in finished \/ \E w \in Workers : running[w] = h /\ (doing[w] = "copy" => c \notin left[w])

\* The buffer of a WRITE holds what the kernel sent for it.
Loaded ==
    \A h \in Reqs, c \in Cells :
        Covers(h, c) /\ (h \in InPool \/ (h = current /\ ~(reactor = "payload" /\ c \in left[Reactor])))
          => m_buffer[h][c] = h

\* What a cell holds is not older than any copy into it of an answered WRITE,
StoredCurrent == \A c \in Cells : Current(storage[c], c, {x \in Reqs : Past(x, c)})

\* nor is what a READ took from it,
CopiedCurrent ==
    \A h \in Reqs, c \in Cells :
        Kind[h] = "READ" /\ c \in Span[h] /\ Past(h, c) => Current(m_buffer[h][c], c, before[h])

\* nor what has arrived of a reply.
ArrivedCurrent ==
    \A h \in Reqs, c \in Cells :
        Kind[h] = "READ" /\ c \in Span[h] /\ (h \in answered \/ (h = replying /\ c \notin left[NoReq]))
          => Current(received[h][c], c, before[h])

IInv ==
    /\ TypeOK /\ Mutex /\ Busy /\ RequestsFramed /\ Placed /\ RepliesPlaced /\ RepliesDue
    /\ Loaded /\ StoredCurrent /\ CopiedCurrent /\ ArrivedCurrent

-----------------------------------------------------------------------------

\* A loop over cells has a first one to do,
LEMMA FirstIsOne == ASSUME NEW S, S \subseteq Cells, S # {} PROVE First(S) \in S
<1> DEFINE less == OpToRel(<, Nat)
<1>1. \A x, y \in Nat : <<x, y>> \in less <=> x < y
  BY DEF OpToRel
<1>2. IsWellFoundedOn(less, Nat)
  BY NatLessThanWellFounded
<1>3. S \subseteq Nat
  BY ServerAssumption
<1> HIDE DEF less
<1>4. PICK c \in S : \A d \in S : <<d, c>> \notin less
  BY <1>2, <1>3, WFMin
<1>5. ASSUME NEW d \in S PROVE c <= d
  <2>1. c \in Nat /\ d \in Nat
    BY <1>3
  <2>2. ~(d < c)
    BY <1>1, <1>4, <2>1
  <2> QED BY <2>1, <2>2
<1> QED BY <1>5 DEF First

\* and has one less to do after it.
LEMMA CountsDown ==
    ASSUME NEW S, S \subseteq Cells
    PROVE  /\ Cardinality(S) \in Nat
           /\ Cardinality(S) = 0 <=> S = {}
           /\ \A c \in S : Cardinality(S \ {c}) = Cardinality(S) - 1
<1>1. IsFiniteSet(S)
  BY ServerAssumption, FS_Subset
<1> QED BY <1>1, FS_CardinalityType, FS_EmptySet, FS_RemoveElement

\* What a request announces is a number of units.
LEMMA DataUnitsCounted == \A h \in Reqs : DataUnits(h) \in Nat
  BY ServerAssumption, CountsDown DEF DataUnits

\* The stream does not change when a unit goes on from one buffer to the next.
LEMMA InSent == TypeOK /\ Transmit => In' = In
<1> SUFFICES ASSUME TypeOK, Transmit PROVE In' = In
    OBVIOUS
<1>1. toApp \in Seq(Unit) /\ outbox \in Seq(Unit) /\ outbox # <<>>
  BY DEF TypeOK, Transmit
<1>2. toApp' = Append(toApp, Head(outbox)) /\ outbox' = Tail(outbox)
  BY DEF Transmit
<1> QED BY <1>1, <1>2 DEF In

\* The main thread reads its first unit.
LEMMA InRead ==
    TypeOK /\ toApp # <<>> /\ toApp' = Tail(toApp) /\ outbox' = outbox =>
        /\ Len(In) \in Nat /\ Len(In) # 0 /\ Len(In') = Len(In) - 1
        /\ In[1] = Head(toApp)
        /\ \A j \in 1 .. Len(In') : In'[j] = In[j + 1]
  BY DEF TypeOK, In

\* So does the kernel of the other stream,
LEMMA ReplyRead ==
    TypeOK /\ toKernel # <<>> /\ toKernel' = Tail(toKernel) =>
        /\ Len(toKernel) \in Nat /\ Len(toKernel) # 0 /\ Len(toKernel') = Len(toKernel) - 1
        /\ toKernel[1] = Head(toKernel) /\ Head(toKernel) \in Unit /\ Head(toKernel).req \in Reqs
        /\ \A j \in 1 .. Len(toKernel') : toKernel'[j] = toKernel[j + 1]
<1> SUFFICES ASSUME TypeOK, toKernel # <<>>, toKernel' = Tail(toKernel)
             PROVE  /\ Len(toKernel) \in Nat /\ Len(toKernel) # 0 /\ Len(toKernel') = Len(toKernel) - 1
                    /\ toKernel[1] = Head(toKernel) /\ Head(toKernel) \in Unit /\ Head(toKernel).req \in Reqs
                    /\ \A j \in 1 .. Len(toKernel') : toKernel'[j] = toKernel[j + 1]
    OBVIOUS
<1>1. toKernel \in Seq(Unit)
  BY DEF TypeOK
<1>2. Head(toKernel) \in Unit
  BY <1>1
<1> QED BY <1>1, <1>2 DEF Unit

\* and a worker writes its last unit.
LEMMA ReplyWritten ==
    ASSUME TypeOK, NEW u \in Unit, toKernel' = Append(toKernel, u)
    PROVE  /\ Len(toKernel) \in Nat /\ Len(toKernel') = Len(toKernel) + 1
           /\ toKernel'[Len(toKernel')] = u
           /\ \A j \in 1 .. Len(toKernel) : toKernel'[j] = toKernel[j]
  BY DEF TypeOK

\* The units of the kernel's stream are units.
LEMMA InTyped == TypeOK => In \in Seq(Unit) /\ \A j \in 1 .. Len(In) : In[j] \in Unit /\ In[j].req \in Reqs
<1> SUFFICES ASSUME TypeOK PROVE In \in Seq(Unit) /\ \A j \in 1 .. Len(In) : In[j] \in Unit /\ In[j].req \in Reqs
    OBVIOUS
<1>1. In \in Seq(Unit)
  BY DEF TypeOK, In
<1>2. \A u \in Unit : u.req \in Reqs
  BY DEF Unit
<1> QED BY <1>1, <1>2

\* What the kernel adds to its stream: a header and the data it announces.
LEMMA InIssued ==
    ASSUME TypeOK, NEW h \in Reqs, Issue(h)
    PROVE  /\ DataUnits(h) \in Nat /\ Len(In) \in Nat /\ Len(In') = Len(In) + 1 + DataUnits(h)
           /\ \A j \in 1 .. Len(In) : In'[j] = In[j]
           /\ In'[Len(In) + 1] = Header(h)
           /\ \A j \in Len(In) + 2 .. Len(In') : In'[j] = Data(h, h)
<1>1. toApp \in Seq(Unit) /\ outbox \in Seq(Unit)
  BY DEF TypeOK
<1>2. DataUnits(h) \in Nat
  BY ServerAssumption, CountsDown DEF DataUnits
<1> DEFINE n == DataUnits(h)
           data == [i \in 1 .. n |-> Data(h, h)]
           units == <<Header(h)>> \o data
<1>3. data \in Seq(Unit) /\ Len(data) = n /\ \A i \in 1 .. n : data[i] = Data(h, h)
  BY <1>2 DEF Data, Unit
<1>4. <<Header(h)>> \in Seq(Unit) /\ Len(<<Header(h)>>) = 1 /\ <<Header(h)>>[1] = Header(h)
  BY DEF Header, Unit
<1>5. toApp' = toApp /\ outbox' = outbox \o units
  BY DEF Issue, RequestUnits, DataUnits
<1> HIDE DEF data, n
<1>6. units \in Seq(Unit) /\ Len(units) = n + 1 /\ units[1] = Header(h)
      /\ \A i \in 2 .. n + 1 : units[i] = Data(h, h)
  BY <1>2, <1>3, <1>4 DEF n
<1> HIDE DEF units
<1>7. In \in Seq(Unit) /\ In' = In \o units
  BY <1>1, <1>5, <1>6 DEF In
<1>8. /\ Len(In) \in Nat /\ Len(In') = Len(In) + (n + 1)
      /\ \A j \in 1 .. Len(In) + Len(units) : In'[j] = IF j <= Len(In) THEN In[j] ELSE units[j - Len(In)]
  <2>1. /\ Len(In \o units) = Len(In) + Len(units)
        /\ \A j \in 1 .. Len(In) + Len(units) :
             (In \o units)[j] = IF j <= Len(In) THEN In[j] ELSE units[j - Len(In)]
    BY <1>6, <1>7, ConcatProperties, Zenon
  <2> QED BY <1>6, <1>7, <2>1
<1>9. n \in Nat
  BY <1>2 DEF n
<1>10. In'[Len(In) + 1] = Header(h)
  BY <1>6, <1>8, <1>9
<1>11. ASSUME NEW j \in Len(In) + 2 .. Len(In') PROVE In'[j] = Data(h, h)
  <2>1. j \in 1 .. Len(In) + Len(units) /\ ~(j <= Len(In)) /\ j - Len(In) \in 2 .. n + 1
    BY <1>6, <1>8, <1>9
  <2>2. In'[j] = units[j - Len(In)]
    BY <1>8, <2>1
  <2>3. \A i \in 2 .. n + 1 : units[i] = Data(h, h)
    BY <1>6
  <2>4. units[j - Len(In)] = Data(h, h)
    BY <2>1, <2>3
  <2> QED BY <2>2, <2>4
<1>12. \A j \in 1 .. Len(In) : In'[j] = In[j]
  BY <1>6, <1>8, <1>9
<1>13. Len(In) \in Nat /\ Len(In') = Len(In) + 1 + DataUnits(h)
  BY <1>8, <1>9 DEF n
<1> QED BY <1>2, <1>10, <1>11, <1>12, <1>13

\* The kernel takes for data what are data of the READ it is receiving, and for a
\* header what is one.
LEMMA NextReply ==
    TypeOK /\ Busy /\ RepliesDue /\ toKernel # <<>> =>
        IF replying = NoReq
          THEN toKernel[1].part = "header"
          ELSE /\ toKernel[1].part = "data" /\ toKernel[1].req = replying
               /\ Current(toKernel[1].value, First(left[NoReq]), before[replying])
<1> SUFFICES ASSUME TypeOK, Busy, RepliesDue, toKernel # <<>>
             PROVE  IF replying = NoReq
                      THEN toKernel[1].part = "header"
                      ELSE /\ toKernel[1].part = "data" /\ toKernel[1].req = replying
                           /\ Current(toKernel[1].value, First(left[NoReq]), before[replying])
    OBVIOUS
<1>1. 1 \in 1 .. Len(toKernel) /\ toKernel[1] \in Unit
  BY DEF TypeOK
<1>2. toKernel[1].part \in {"header", "data"}
  BY <1>1 DEF Unit
<1>3. PICK due \in [1 .. Len(toKernel) + 1 -> SUBSET Cells] : Due(due)
  BY DEF RepliesDue
<1>4. /\ due[1] = left[NoReq]
      /\ toKernel[1].part = "header" <=> due[1] = {}
      /\ due[1] # {} => /\ toKernel[1].req = ReplyAfter(1 - 1)
                        /\ Current(toKernel[1].value, First(due[1]), before[toKernel[1].req])
  BY <1>1, <1>3 DEF Due
<1>5. ReplyAfter(1 - 1) = replying
  BY DEF ReplyAfter
<1> QED BY <1>2, <1>4, <1>5 DEF Busy

\* The replies on their way are of requests.
LEMMA RepliesTyped ==
    TypeOK => /\ Len(toKernel) \in Nat
              /\ \A j \in 1 .. Len(toKernel) : toKernel[j] \in Unit /\ toKernel[j].req \in Reqs
<1> SUFFICES ASSUME TypeOK
             PROVE  /\ Len(toKernel) \in Nat
                    /\ \A j \in 1 .. Len(toKernel) : toKernel[j] \in Unit /\ toKernel[j].req \in Reqs
    OBVIOUS
<1>1. toKernel \in Seq(Unit)
  BY DEF TypeOK
<1>2. \A u \in Unit : u.req \in Reqs
  BY DEF Unit
<1> QED BY <1>1, <1>2

\* What a worker writes of its buffer is a unit of data of its request.
LEMMA WriteDataUnit ==
    ASSUME TypeOK, Busy, NEW w \in Workers, WriteData(w)
    PROVE  LET u == Data(running[w], m_buffer[running[w]][First(left[w])]) IN
           /\ running[w] \in Reqs /\ First(left[w]) \in left[w] /\ left[w] \subseteq Cells
           /\ u \in Unit /\ toKernel' = Append(toKernel, u)
<1>1. doing[w] = "data" /\ running[w] \in Reqs /\ left[w] # {} /\ left[w] \subseteq Cells
  BY DEF WriteData, Doing, Busy, TypeOK, Threads
<1>2. First(left[w]) \in left[w]
  BY <1>1, FirstIsOne
<1>3. m_buffer[running[w]][First(left[w])] \in Reqs \cup {Zero}
  BY <1>1, <1>2 DEF TypeOK
<1>4. Data(running[w], m_buffer[running[w]][First(left[w])]) \in Unit
  BY <1>1, <1>3 DEF Data, Unit
<1>5. toKernel' = Append(toKernel, Data(running[w], m_buffer[running[w]][First(left[w])]))
  BY DEF WriteData
<1> QED BY <1>1, <1>2, <1>4, <1>5

\* The main thread takes for data what are data of the WRITE it is receiving, and
\* for a header what is one.
LEMMA NextRequest ==
    TypeOK /\ Busy /\ RequestsFramed /\ Len(In) # 0 =>
        IF reactor = "payload" THEN In[1].part = "data" /\ In[1].req = current
                               ELSE In[1].part = "header"
<1> SUFFICES ASSUME TypeOK, Busy, RequestsFramed, Len(In) # 0
             PROVE  IF reactor = "payload" THEN In[1].part = "data" /\ In[1].req = current
                                           ELSE In[1].part = "header"
    OBVIOUS
<1>1. Len(In) \in Nat /\ Len(In) >= 1
  BY InTyped
<1>2. CASE reactor = "payload"
  <2>1. Cardinality(left[Reactor]) \in Nat /\ Cardinality(left[Reactor]) # 0
    BY <1>2, CountsDown DEF Busy, TypeOK, Threads
  <2>2. Run(In, 0, Cardinality(left[Reactor]), current)
    BY <1>2 DEF RequestsFramed
  <2> QED BY <1>1, <1>2, <2>1, <2>2 DEF Run
<1>3. CASE reactor # "payload"
  <2>1. Run(In, 0, 0, current)
    BY <1>3 DEF RequestsFramed
  <2> QED BY <1>1, <1>3, <2>1 DEF Run
<1> QED BY <1>2, <1>3

\* A task that enters the pool is in one place,
LEMMA PoolSubmits ==
    ASSUME NEW h \in Reqs, Pool!OnePlace, Pool!Submit(h)
    PROVE  InPool' = InPool \cup {h} /\ Pool!OnePlace'
  BY DEF InPool, Pool!OnePlace, Pool!Submit, Pool!Running

\* and stays in one when a worker starts it
LEMMA PoolStarts ==
    ASSUME TypeOK, NEW w \in Workers, NEW h \in Reqs, Pool!OnePlace, Pool!Start(w, h)
    PROVE  InPool' = InPool /\ Pool!OnePlace'
<1>1. h # NoReq /\ running[w] = NoReq /\ h \in pending
  BY ServerAssumption DEF Pool!Start
<1>2. /\ pending' = pending \ {h} /\ finished' = finished
      /\ running'[w] = h /\ \A v \in Workers \ {w} : running'[v] = running[v]
  BY DEF Pool!Start, TypeOK
<1>3. Pool!Running' = Pool!Running \cup {h}
  <2>1. ASSUME NEW x PROVE x \in Pool!Running' <=> x \in Pool!Running \cup {h}
    BY <1>1, <1>2 DEF Pool!Running
  <2> QED BY <2>1
<1>4. InPool' = InPool
  BY <1>1, <1>2, <1>3 DEF InPool
<1>5. \A v \in Workers : running[v] # h
  BY <1>1 DEF Pool!OnePlace, Pool!Running
<1> QED BY <1>1, <1>2, <1>3, <1>4, <1>5 DEF Pool!OnePlace

\* and when it ends.
LEMMA PoolFinishes ==
    ASSUME TypeOK, NEW w \in Workers, Pool!OnePlace, Pool!Finish(w)
    PROVE  InPool' = InPool /\ Pool!OnePlace'
<1> DEFINE h == running[w]
<1>1. h # NoReq
  BY DEF Pool!Finish
<1>2. /\ pending' = pending /\ finished' = finished \cup {h}
      /\ running'[w] = NoReq /\ \A v \in Workers \ {w} : running'[v] = running[v]
  BY DEF Pool!Finish, TypeOK
<1>3. \A v \in Workers \ {w} : running[v] # h
  BY <1>1 DEF Pool!OnePlace
<1>4. Pool!Running' = Pool!Running \ {h}
  <2>1. ASSUME NEW x PROVE x \in Pool!Running' <=> x \in Pool!Running \ {h}
    BY <1>2, <1>3 DEF Pool!Running
  <2> QED BY <2>1
<1>5. h \in Pool!Running
  BY <1>1 DEF Pool!Running
<1>6. InPool' = InPool
  BY <1>2, <1>4, <1>5 DEF InPool
<1> QED BY <1>1, <1>2, <1>3, <1>4, <1>5, <1>6 DEF Pool!OnePlace

\* What is left of a stream whose first unit was read,
LEMMA RunRead ==
    ASSUME NEW s, NEW t, Len(s) \in Nat, Len(s) # 0, Len(t) = Len(s) - 1,
           \A i \in 1 .. Len(t) : t[i] = s[i + 1],
           NEW j \in Nat, NEW k \in Nat, NEW h
    PROVE  /\ Run(s, j + 1, k, h) => Run(t, j, k, h)
           /\ Run(s, 0, k, h) /\ k # 0 => Run(t, 0, k - 1, h)
<1>1. Run(s, j + 1, k, h) => Run(t, j, k, h)
  <2> SUFFICES ASSUME Run(s, j + 1, k, h) PROVE Run(t, j, k, h)
      OBVIOUS
  <2>1. j + k <= Len(t)
    BY DEF Run
  <2>2. ASSUME NEW i \in j + 1 .. j + k PROVE t[i].part = "data" /\ t[i].req = h
    <3>1. i + 1 \in (j + 1) + 1 .. (j + 1) + k /\ i \in 1 .. Len(t)
      BY <2>1
    <3> QED BY <3>1 DEF Run
  <2>3. j + k < Len(t) => t[j + k + 1].part = "header"
    <3>1. j + k < Len(t) => s[(j + 1) + k + 1].part = "header"
      BY DEF Run
    <3>2. j + k < Len(t) => j + k + 1 \in 1 .. Len(t) /\ (j + k + 1) + 1 = (j + 1) + k + 1
      OBVIOUS
    <3> QED BY <3>1, <3>2
  <2> QED BY <2>1, <2>2, <2>3 DEF Run
<1>2. Run(s, 0, k, h) /\ k # 0 => Run(t, 0, k - 1, h)
  <2> SUFFICES ASSUME Run(s, 0, k, h), k # 0 PROVE Run(t, 0, k - 1, h)
      OBVIOUS
  <2>1. k - 1 <= Len(t)
    BY DEF Run
  <2>2. ASSUME NEW i \in 0 + 1 .. 0 + (k - 1) PROVE t[i].part = "data" /\ t[i].req = h
    <3>1. i + 1 \in 0 + 1 .. 0 + k /\ i \in 1 .. Len(t)
      BY <2>1
    <3> QED BY <3>1 DEF Run
  <2>3. k - 1 < Len(t) => t[k].part = "header"
    <3>1. k - 1 < Len(t) => s[k + 1].part = "header"
      BY DEF Run
    <3>2. k - 1 < Len(t) => k \in 1 .. Len(t)
      OBVIOUS
    <3> QED BY <3>1, <3>2
  <2> QED BY <2>1, <2>2, <2>3 DEF Run
<1> QED BY <1>1, <1>2

\* and of one that went on with a header.
LEMMA RunGrows ==
    ASSUME NEW s, NEW t, Len(s) \in Nat, Len(t) \in Nat, Len(s) < Len(t),
           \A i \in 1 .. Len(s) : t[i] = s[i], t[Len(s) + 1].part = "header",
           NEW j \in Nat, NEW k \in Nat, NEW h, Run(s, j, k, h)
    PROVE  Run(t, j, k, h)
<1>1. j + k <= Len(s)
  BY DEF Run
<1>2. ASSUME NEW i \in j + 1 .. j + k PROVE t[i].part = "data" /\ t[i].req = h
  <2>1. i \in 1 .. Len(s)
    BY <1>1
  <2> QED BY <2>1 DEF Run
<1>3. t[j + k + 1].part = "header"
  <2>1. CASE j + k < Len(s)
    <3>1. j + k + 1 \in 1 .. Len(s) /\ s[j + k + 1].part = "header"
      BY <2>1 DEF Run
    <3> QED BY <3>1
  <2>2. CASE j + k = Len(s)
    BY <2>2
  <2> QED BY <1>1, <2>1, <2>2
<1> QED BY <1>1, <1>2, <1>3 DEF Run

\* What was made stays made, as it was,
Grown == issued \subseteq issued' /\ \A x \in issued : before'[x] = before[x]

\* in every step: only Issue touches either.
LEMMA Grows == TypeOK /\ [Next]_vars => Grown
<1> SUFFICES ASSUME TypeOK, [Next]_vars PROVE Grown
    OBVIOUS
<1>1. CASE UNCHANGED <<issued, before>>
  BY <1>1 DEF Grown
<1>2. ASSUME NEW h \in Reqs, Issue(h) PROVE Grown
  BY <1>2 DEF Issue, Grown, TypeOK
<1> QED
  BY <1>1, <1>2
  DEF Next, vars, kernelVars, HangUp, MainFails, Kernel, Transmit, ReceiveHeader, ReceiveData, Main,
      Select, RecvRequest,
      ReadHeader, ReadPayload, Submit, Worker, Start, Copy, SendReply, WriteHeader, WriteData,
      WriteFails

\* A value that was not too old for a request does not become so.
LEMMA StaysCurrent ==
    ASSUME Grown, RepliesPlaced, answered \subseteq issued, NEW v, NEW c, NEW h \in issued, issued \subseteq Reqs,
           Current(v, c, before[h])
    PROVE  /\ v = Zero \/ (v \in issued' /\ Covers(v, c))
           /\ \A x \in before'[h] : Covers(x, c) => v # Zero /\ (v \in before'[x] => v = x)
<1>1. before'[h] = before[h] /\ \A x \in before[h] : x \in issued /\ before'[x] = before[x]
  BY DEF Grown, RepliesPlaced
<1> QED BY <1>1 DEF Current, Grown

\* What is due at each place of the stream does not change while the stream,
\* its reader and its writer do not,
LEMMA DueStays ==
    ASSUME TypeOK, RepliesPlaced, Grown, RepliesDue,
           UNCHANGED <<toKernel, replying, left[NoReq]>>,
           \A w \in Workers : /\ Writing(w)' <=> Writing(w)
                              /\ Writing(w) => left'[w] = left[w] /\ running'[w] = running[w]
    PROVE  RepliesDue'
<1>1. PICK due \in [1 .. Len(toKernel) + 1 -> SUBSET Cells] : Due(due)
  BY DEF RepliesDue
<1>2. due[1] = left'[NoReq]
  BY <1>1 DEF Due
<1>3. ASSUME NEW j \in 1 .. Len(toKernel)
      PROVE  /\ toKernel'[j].part = "header" <=> due[j] = {}
             /\ due[j + 1] = IF due[j] = {} THEN DataCells(toKernel'[j].req) ELSE due[j] \ {First(due[j])}
             /\ due[j] # {} =>
                  /\ toKernel'[j].req = ReplyAfter(j - 1)'
                  /\ toKernel'[j].req \in issued'
                  /\ Current(toKernel[j].value, First(due[j]), before[toKernel[j].req])'
  <2>1. ReplyAfter(j - 1)' = ReplyAfter(j - 1)
    BY DEF ReplyAfter
  <2>2. CASE due[j] = {}
    BY <1>1, <2>2 DEF Due
  <2>3. CASE due[j] # {}
    <3>1. /\ toKernel[j].req \in issued /\ toKernel[j].req = ReplyAfter(j - 1)
          /\ Current(toKernel[j].value, First(due[j]), before[toKernel[j].req])
      BY <1>1, <2>3 DEF Due
    <3>2. Current(toKernel[j].value, First(due[j]), before[toKernel[j].req])'
      <4>1. answered \subseteq issued /\ issued \subseteq Reqs
        BY DEF TypeOK
      <4>2. /\ toKernel[j].value = Zero \/ (toKernel[j].value \in issued' /\ Covers(toKernel[j].value, First(due[j])))
            /\ \A x \in before'[toKernel[j].req] :
                 Covers(x, First(due[j])) =>
                   toKernel[j].value # Zero /\ (toKernel[j].value \in before'[x] => toKernel[j].value = x)
        BY <3>1, <4>1, StaysCurrent
      <4>3. toKernel' = toKernel
        OBVIOUS
      <4> QED BY <4>2, <4>3 DEF Current
    <3> QED BY <1>1, <2>1, <2>3, <3>1, <3>2 DEF Due, Grown
  <2> QED BY <2>2, <2>3
<1>4. ASSUME NEW w \in Workers, Writing(w)'
      PROVE  due[Len(toKernel') + 1] = left'[w] /\ running'[w] = ReplyAfter(Len(toKernel))'
  BY <1>1, <1>4 DEF Due, ReplyAfter
<1>5. (\A w \in Workers : ~Writing(w)') => due[Len(toKernel') + 1] = {}
  BY <1>1 DEF Due
<1>6. Due(due)'
  BY <1>2, <1>3, <1>4, <1>5 DEF Due
<1> QED BY <1>6 DEF RepliesDue

\* The kernel reads the first unit: what was due after it is due now.
LEMMA DueRead ==
    ASSUME TypeOK, Busy, UNCHANGED <<before, issued>>,
           NEW due \in [1 .. Len(toKernel) + 1 -> SUBSET Cells], Due(due),
           toKernel # <<>>, toKernel' = Tail(toKernel),
           left'[NoReq] = due[2], due[2] # {} => replying' = toKernel[1].req,
           UNCHANGED <<m_mutex, doing, running>>, \A w \in Workers : left'[w] = left[w]
    PROVE  RepliesDue'
<1>1. PICK n \in Nat : /\ Len(toKernel') = n /\ Len(toKernel) = n + 1
                       /\ \A j \in 1 .. n : toKernel'[j] = toKernel[j + 1]
  <2>1. /\ Len(toKernel') \in Nat /\ Len(toKernel) = Len(toKernel') + 1
        /\ \A j \in 1 .. Len(toKernel') : toKernel'[j] = toKernel[j + 1]
    BY ReplyRead
  <2> QED BY <2>1
<1>2. PICK later \in [1 .. n + 1 -> SUBSET Cells] : \A j \in 1 .. n + 1 : later[j] = due[j + 1]
  <2>1. [j \in 1 .. n + 1 |-> due[j + 1]] \in [1 .. n + 1 -> SUBSET Cells]
    BY <1>1
  <2> QED BY <2>1
<1>3. ASSUME NEW j \in 0 .. n, j # 0 \/ due[2] # {}
      PROVE  ReplyAfter(j)' = ReplyAfter(j + 1)
  BY <1>1, <1>3 DEF ReplyAfter
<1>4. ASSUME NEW j \in 1 .. n
      PROVE  /\ toKernel'[j].part = "header" <=> later[j] = {}
             /\ later[j + 1] = IF later[j] = {} THEN DataCells(toKernel'[j].req) ELSE later[j] \ {First(later[j])}
             /\ later[j] # {} =>
                  /\ toKernel'[j].req = ReplyAfter(j - 1)'
                  /\ toKernel'[j].req \in issued'
                  /\ Current(toKernel[j].value, First(later[j]), before[toKernel[j].req])'
  <2>1. /\ j + 1 \in 1 .. Len(toKernel) /\ j \in 1 .. n + 1 /\ j + 1 \in 1 .. n + 1
        /\ toKernel'[j] = toKernel[j + 1]
    BY <1>1
  <2>2. later[j] = due[j + 1] /\ later[j + 1] = due[(j + 1) + 1]
    BY <1>2, <2>1
  <2>3. /\ toKernel[j + 1].part = "header" <=> due[j + 1] = {}
        /\ due[(j + 1) + 1] = IF due[j + 1] = {} THEN DataCells(toKernel[j + 1].req) ELSE due[j + 1] \ {First(due[j + 1])}
    BY <2>1 DEF Due
  <2>4. ASSUME later[j] # {}
        PROVE  /\ toKernel'[j].req = ReplyAfter(j - 1)'
               /\ toKernel'[j].req \in issued'
               /\ Current(toKernel[j].value, First(later[j]), before[toKernel[j].req])'
    <3>1. /\ toKernel[j + 1].req = ReplyAfter((j + 1) - 1) /\ toKernel[j + 1].req \in issued
          /\ Current(toKernel[j + 1].value, First(due[j + 1]), before[toKernel[j + 1].req])
      BY <2>1, <2>2, <2>4 DEF Due
    <3>2. ReplyAfter(j - 1)' = ReplyAfter((j - 1) + 1)
      <4>1. j - 1 \in 0 .. n /\ (j - 1 # 0 \/ j + 1 = 2)
        BY <1>1
      <4> QED BY <1>3, <2>2, <2>4, <4>1
    <3>3. (j - 1) + 1 = (j + 1) - 1
      BY <1>1
    <3> QED BY <2>1, <2>2, <3>1, <3>2, <3>3 DEF Current
  <2> QED BY <2>1, <2>2, <2>3, <2>4
<1>5. ASSUME NEW w \in Workers, Writing(w)'
      PROVE  later[n + 1] = left'[w] /\ running'[w] = ReplyAfter(n)'
  <2>1. due[(n + 1) + 1] = left[w] /\ running[w] = ReplyAfter(n + 1) /\ left[w] # {}
    BY <1>1, <1>5 DEF Due, Writing, Busy
  <2>2. later[n + 1] = due[(n + 1) + 1]
    BY <1>2
  <2>3. n # 0 \/ due[2] # {}
    BY <1>1, <2>1
  <2>4. ReplyAfter(n)' = ReplyAfter(n + 1)
    BY <1>1, <1>3, <2>3
  <2> QED BY <2>1, <2>2, <2>4
<1>6. (\A w \in Workers : ~Writing(w)') => later[n + 1] = {}
  <2>1. later[n + 1] = due[Len(toKernel) + 1]
    BY <1>1, <1>2
  <2> QED BY <2>1 DEF Due, Writing
<1>7. later[1] = left'[NoReq]
  BY <1>2
<1>8. Due(later)'
  BY <1>1, <1>4, <1>5, <1>6, <1>7 DEF Due
<1> QED BY <1>1, <1>8 DEF RepliesDue

\* A worker writes the last unit: what is due after it comes after the rest.
LEMMA DueWritten ==
    ASSUME TypeOK, UNCHANGED <<before, issued, replying>>,
           left'[NoReq] = left[NoReq],
           NEW due \in [1 .. Len(toKernel) + 1 -> SUBSET Cells], Due(due),
           NEW u \in Unit, toKernel' = Append(toKernel, u),
           u.part = "header" <=> due[Len(toKernel) + 1] = {},
           due[Len(toKernel) + 1] # {} =>
              /\ u.req = ReplyAfter(Len(toKernel)) /\ u.req \in issued
              /\ Current(u.value, First(due[Len(toKernel) + 1]), before[u.req]),
           NEW rest \in SUBSET Cells,
           rest = IF due[Len(toKernel) + 1] = {} THEN DataCells(u.req)
                    ELSE due[Len(toKernel) + 1] \ {First(due[Len(toKernel) + 1])},
           \A w \in Workers : Writing(w)' => left'[w] = rest /\ running'[w] = u.req,
           (\A w \in Workers : ~Writing(w)') => rest = {}
    PROVE  RepliesDue'
<1>1. PICK n \in Nat : /\ Len(toKernel) = n /\ Len(toKernel') = n + 1 /\ toKernel'[n + 1] = u
                       /\ \A j \in 1 .. n : toKernel'[j] = toKernel[j]
  BY ReplyWritten
<1>2. PICK later \in [1 .. n + 2 -> SUBSET Cells] :
          later[n + 2] = rest /\ \A j \in 1 .. n + 1 : later[j] = due[j]
  <2> DEFINE f == [j \in 1 .. n + 2 |-> IF j <= n + 1 THEN due[j] ELSE rest]
  <2>1. f \in [1 .. n + 2 -> SUBSET Cells]
    BY <1>1
  <2>2. f[n + 2] = rest /\ \A j \in 1 .. n + 1 : f[j] = due[j]
    OBVIOUS
  <2> HIDE DEF f
  <2> QED BY <2>1, <2>2
<1>3. \A j \in 0 .. n : ReplyAfter(j)' = ReplyAfter(j)
  BY <1>1 DEF ReplyAfter
<1>5. ASSUME NEW j \in 1 .. n + 1
      PROVE  /\ toKernel'[j].part = "header" <=> later[j] = {}
             /\ later[j + 1] = IF later[j] = {} THEN DataCells(toKernel'[j].req) ELSE later[j] \ {First(later[j])}
             /\ later[j] # {} =>
                  /\ toKernel'[j].req = ReplyAfter(j - 1)'
                  /\ toKernel'[j].req \in issued'
                  /\ Current(toKernel[j].value, First(later[j]), before[toKernel[j].req])'
  <2>1. CASE j \in 1 .. n
    <3>1. /\ toKernel'[j] = toKernel[j] /\ later[j] = due[j] /\ later[j + 1] = due[j + 1]
          /\ ReplyAfter(j - 1)' = ReplyAfter(j - 1)
      <4>1. j \in 1 .. n + 1 /\ j + 1 \in 1 .. n + 1 /\ j - 1 \in 0 .. n
        BY <2>1
      <4> QED BY <1>1, <1>2, <1>3, <2>1, <4>1
    <3>2. /\ toKernel[j].part = "header" <=> due[j] = {}
          /\ due[j + 1] = IF due[j] = {} THEN DataCells(toKernel[j].req) ELSE due[j] \ {First(due[j])}
          /\ due[j] # {} =>
               /\ toKernel[j].req = ReplyAfter(j - 1) /\ toKernel[j].req \in issued
               /\ Current(toKernel[j].value, First(due[j]), before[toKernel[j].req])
      BY <1>1, <2>1 DEF Due
    <3> QED BY <3>1, <3>2 DEF Current
  <2>2. CASE j = n + 1
    <3>1. /\ toKernel'[j] = u /\ later[j] = due[n + 1] /\ later[j + 1] = rest
          /\ ReplyAfter(j - 1)' = ReplyAfter(n)
      <4>1. n + 1 \in 1 .. n + 1 /\ j + 1 = n + 2 /\ j - 1 = n /\ n \in 0 .. n
        BY <2>2
      <4> QED BY <1>1, <1>2, <1>3, <2>2, <4>1
    <3> QED BY <1>1, <3>1 DEF Current
  <2> QED BY <1>1, <2>1, <2>2
<1>6. ASSUME NEW w \in Workers, Writing(w)'
      PROVE  later[n + 2] = left'[w] /\ running'[w] = ReplyAfter(n + 1)'
  <2>1. left'[w] = rest /\ running'[w] = u.req
    BY <1>6
  <2>2. ReplyAfter(n + 1)' = toKernel'[n + 1].req
    <3>1. n + 1 # 0
      OBVIOUS
    <3> QED BY <3>1 DEF ReplyAfter
  <2> QED BY <1>1, <1>2, <2>1, <2>2
<1>7. later[1] = left'[NoReq]
  BY <1>1, <1>2 DEF Due
<1>8. Due(later)'
  <2>1. (n + 1) + 1 = n + 2
    OBVIOUS
  <2> QED BY <1>1, <1>2, <1>5, <1>6, <1>7, <2>1 DEF Due
<1> QED BY <1>1, <1>8 DEF RepliesDue

\* What is past is of the pool.
LEMMA PastInPool == \A h \in Reqs, c \in Cells : Past(h, c) => h \in InPool
  BY ServerAssumption DEF Past, InPool, Pool!Running

\* The kernel has no answer before the copy was made.
LEMMA AnsweredIsPast == RepliesPlaced => \A h \in answered, c \in Cells : Past(h, c)
  BY DEF RepliesPlaced, Replied, Past

\* A copy of a cell becomes past by being made.
CopiesOnly ==
    \A h \in Reqs, c \in Cells :
        Past(h, c)' /\ c \in Span[h] =>
          Past(h, c) \/ \E w \in Workers : Copy(w) /\ running[w] = h /\ c = First(left[w])

\* So it does in every step.
LEMMA PastByCopies == TypeOK /\ [Next]_vars => CopiesOnly
<1> SUFFICES ASSUME TypeOK, [Next]_vars PROVE CopiesOnly
    OBVIOUS
<1>1. CASE UNCHANGED vars
  <2>1. UNCHANGED <<running, finished>>
    BY <1>1 DEF vars, threadVars, poolVars
  <2>2. \A v \in Workers : left'[v] = left[v] /\ doing'[v] = doing[v]
    BY <1>1 DEF vars, threadVars
  <2> QED BY <2>1, <2>2 DEF CopiesOnly, Past
<1>2. ASSUME NEW h \in Reqs, Issue(h) PROVE CopiesOnly
  <2>1. UNCHANGED <<running, finished>>
    BY <1>2 DEF Issue, threadVars, poolVars
  <2>2. \A v \in Workers : left'[v] = left[v] /\ doing'[v] = doing[v]
    BY <1>2 DEF Issue, threadVars
  <2> QED BY <2>1, <2>2 DEF CopiesOnly, Past
<1>3. CASE HangUp \/ MainFails
  <2>1. UNCHANGED <<running, finished>>
    BY <1>3 DEF HangUp, MainFails, kernelVars, threadVars, poolVars
  <2>2. \A v \in Workers : left'[v] = left[v] /\ doing'[v] = doing[v]
    BY <1>3 DEF HangUp, MainFails, kernelVars, threadVars
  <2> QED BY <2>1, <2>2 DEF CopiesOnly, Past
<1>4. CASE Transmit
  <2>1. UNCHANGED <<running, finished>>
    BY <1>4 DEF Transmit, threadVars, poolVars
  <2>2. \A v \in Workers : left'[v] = left[v] /\ doing'[v] = doing[v]
    BY <1>4 DEF Transmit, threadVars
  <2> QED BY <2>1, <2>2 DEF CopiesOnly, Past
<1>5. CASE ReceiveHeader
  <2>1. UNCHANGED <<running, finished>>
    BY <1>5 DEF ReceiveHeader, threadVars, poolVars
  <2>2. \A v \in Workers : left'[v] = left[v] /\ doing'[v] = doing[v]
    BY <1>5, ServerAssumption DEF ReceiveHeader, threadVars, TypeOK, Threads
  <2> QED BY <2>1, <2>2 DEF CopiesOnly, Past
<1>6. CASE ReceiveData
  <2>1. UNCHANGED <<running, finished>>
    BY <1>6 DEF ReceiveData, threadVars, poolVars
  <2>2. \A v \in Workers : left'[v] = left[v] /\ doing'[v] = doing[v]
    BY <1>6, ServerAssumption DEF ReceiveData, threadVars
  <2> QED BY <2>1, <2>2 DEF CopiesOnly, Past
<1>7. CASE Select
  <2>1. UNCHANGED <<running, finished>>
    BY <1>7 DEF Select, poolVars
  <2>2. \A v \in Workers : left'[v] = left[v] /\ doing'[v] = doing[v]
    BY <1>7 DEF Select
  <2> QED BY <2>1, <2>2 DEF CopiesOnly, Past
<1>8. CASE RecvRequest
  <2>1. UNCHANGED <<running, finished>>
    BY <1>8 DEF RecvRequest, poolVars
  <2>2. \A v \in Workers : left'[v] = left[v] /\ doing'[v] = doing[v]
    BY <1>8 DEF RecvRequest
  <2> QED BY <2>1, <2>2 DEF CopiesOnly, Past
<1>9. CASE ReadHeader
  <2>1. UNCHANGED <<running, finished>>
    BY <1>9 DEF ReadHeader, poolVars
  <2>2. \A v \in Workers : left'[v] = left[v] /\ doing'[v] = doing[v]
    BY <1>9, ServerAssumption DEF ReadHeader
  <2> QED BY <2>1, <2>2 DEF CopiesOnly, Past
<1>10. CASE ReadPayload
  <2>1. UNCHANGED <<running, finished>>
    BY <1>10 DEF ReadPayload, poolVars
  <2>2. \A v \in Workers : left'[v] = left[v] /\ doing'[v] = doing[v]
    BY <1>10, ServerAssumption DEF ReadPayload
  <2> QED BY <2>1, <2>2 DEF CopiesOnly, Past
<1>11. CASE Submit
  <2>1. UNCHANGED <<running, finished>>
    BY <1>11 DEF Submit, Pool!Submit
  <2>2. \A v \in Workers : left'[v] = left[v] /\ doing'[v] = doing[v]
    BY <1>11 DEF Submit
  <2> QED BY <2>1, <2>2 DEF CopiesOnly, Past
<1>12. ASSUME NEW w \in Workers, Start(w) PROVE CopiesOnly
  <2>1. PICK h \in Reqs : Pool!Start(w, h) /\ left' = [left EXCEPT ![w] = Span[h]]
                        /\ doing' = [doing EXCEPT ![w] = FirstPlace(h)]
    BY <1>12 DEF Start
  <2>2. /\ finished' = finished /\ running'[w] = h /\ left'[w] = Span[h] /\ doing'[w] = FirstPlace(h)
    BY <2>1 DEF Pool!Start, TypeOK, Threads
  <2>3. \A v \in Workers \ {w} : running'[v] = running[v] /\ left'[v] = left[v] /\ doing'[v] = doing[v]
    BY <2>1 DEF Pool!Start, TypeOK, Threads
  <2>4. \A c \in Span[h] : doing'[w] = "copy" /\ c \in left'[w]
    BY <2>2, ServerAssumption DEF FirstPlace
  <2> QED BY <2>2, <2>3, <2>4 DEF CopiesOnly, Past
<1>13. ASSUME NEW w \in Workers, Copy(w) PROVE CopiesOnly
  <2>1. UNCHANGED <<running, finished>>
    BY <1>13 DEF Copy, poolVars
  <2>2. left'[w] = left[w] \ {First(left[w])} /\ doing[w] = "copy"
    BY <1>13 DEF Copy, Doing, TypeOK, Threads
  <2>3. \A v \in Workers \ {w} : left'[v] = left[v] /\ doing'[v] = doing[v]
    BY <1>13 DEF Copy
  <2>4. doing'[w] = "copy" \/ left'[w] = {}
    BY <1>13 DEF Copy, Doing, Copied
  <2>5. ASSUME NEW h \in Reqs, NEW c \in Cells, Past(h, c)', ~Past(h, c)
        PROVE  running[w] = h /\ c = First(left[w])
    <3>1. PICK v \in Workers : running[v] = h /\ (doing'[v] = "copy" => c \notin left'[v])
      BY <2>1, <2>5 DEF Past
    <3>2. doing[v] = "copy" /\ c \in left[v]
      BY <2>5, <3>1 DEF Past
    <3>3. v = w
      BY <2>3, <3>1, <3>2
    <3> QED BY <2>2, <2>4, <3>1, <3>2, <3>3
  <2> QED BY <1>13, <2>5 DEF CopiesOnly
<1>14. ASSUME NEW w \in Workers, SendReply(w) PROVE CopiesOnly
  <2>1. UNCHANGED <<running, finished, left>>
    BY <1>14 DEF SendReply, poolVars
  <2>2. doing[w] = "lock" /\ \A v \in Workers \ {w} : doing'[v] = doing[v]
    BY <1>14 DEF SendReply, Doing
  <2> QED BY <2>1, <2>2 DEF CopiesOnly, Past
<1>15. ASSUME NEW w \in Workers, WriteHeader(w) PROVE CopiesOnly
  <2>1. doing[w] \in {"header", "data"} /\ finished' \subseteq finished \cup {running[w]}
    BY <1>15 DEF WriteHeader, Doing, EndReply, Pool!Finish, poolVars
  <2>2. \A v \in Workers \ {w} : running'[v] = running[v] /\ left'[v] = left[v] /\ doing'[v] = doing[v]
    BY <1>15 DEF WriteHeader, EndReply, Pool!Finish, poolVars, TypeOK, Threads
  <2>3. running'[w] \in {running[w], NoReq}
    BY <1>15 DEF WriteHeader, EndReply, Pool!Finish, poolVars, TypeOK
  <2>4. ASSUME NEW h \in Reqs, NEW c \in Cells, Past(h, c)' PROVE Past(h, c)
    <3>1. CASE h \in finished'
      BY <1>15, <2>1, <3>1 DEF Past
    <3>2. CASE h \notin finished'
      <4>1. PICK v \in Workers : running'[v] = h /\ (doing'[v] = "copy" => c \notin left'[v])
        BY <2>4, <3>2 DEF Past
      <4>2. CASE v = w
        BY <1>15, <2>1, <2>3, <4>1, <4>2, ServerAssumption DEF Past
      <4>3. CASE v # w
        BY <2>2, <4>1, <4>3 DEF Past
      <4> QED BY <4>2, <4>3
    <3> QED BY <3>1, <3>2
  <2> QED BY <2>4 DEF CopiesOnly
<1>16. ASSUME NEW w \in Workers, WriteData(w) PROVE CopiesOnly
  <2>1. doing[w] \in {"header", "data"} /\ finished' \subseteq finished \cup {running[w]}
    BY <1>16 DEF WriteData, Doing, EndReply, Pool!Finish, poolVars
  <2>2. \A v \in Workers \ {w} : running'[v] = running[v] /\ left'[v] = left[v] /\ doing'[v] = doing[v]
    BY <1>16 DEF WriteData, EndReply, Pool!Finish, poolVars, TypeOK
  <2>3. running'[w] \in {running[w], NoReq}
    BY <1>16 DEF WriteData, EndReply, Pool!Finish, poolVars, TypeOK
  <2>4. ASSUME NEW h \in Reqs, NEW c \in Cells, Past(h, c)' PROVE Past(h, c)
    <3>1. CASE h \in finished'
      BY <1>16, <2>1, <3>1 DEF Past
    <3>2. CASE h \notin finished'
      <4>1. PICK v \in Workers : running'[v] = h /\ (doing'[v] = "copy" => c \notin left'[v])
        BY <2>4, <3>2 DEF Past
      <4>2. CASE v = w
        BY <1>16, <2>1, <2>3, <4>1, <4>2, ServerAssumption DEF Past
      <4>3. CASE v # w
        BY <2>2, <4>1, <4>3 DEF Past
      <4> QED BY <4>2, <4>3
    <3> QED BY <3>1, <3>2
  <2> QED BY <2>4 DEF CopiesOnly
<1>17. ASSUME NEW w \in Workers, WriteFails(w) PROVE CopiesOnly
  <2>1. UNCHANGED <<running, finished>>
    BY <1>17 DEF WriteFails, poolVars
  <2>2. \A v \in Workers : left'[v] = left[v] /\ doing'[v] = doing[v]
    BY <1>17 DEF WriteFails
  <2> QED BY <2>1, <2>2 DEF CopiesOnly, Past
<1> QED BY <1>1, <1>2, <1>3, <1>4, <1>5, <1>6, <1>7, <1>8, <1>9, <1>10, <1>11, <1>12, <1>13,
           <1>14, <1>15, <1>16, <1>17 DEF Next, Kernel, Main, Worker

\* m_mutex is never locked twice.
LEMMA MutexKept == TypeOK /\ Mutex /\ [Next]_vars => Mutex'
<1> SUFFICES ASSUME TypeOK, Mutex, [Next]_vars PROVE Mutex'
    OBVIOUS
<1>1. CASE UNCHANGED vars
  BY <1>1 DEF vars, threadVars, mainVars, Mutex
<1>2. ASSUME NEW h \in Reqs, Issue(h) PROVE Mutex'
  BY <1>2 DEF Issue, threadVars, mainVars, Mutex
<1>3. CASE HangUp \/ MainFails
  BY <1>3 DEF HangUp, MainFails, kernelVars, threadVars, mainVars, Mutex
<1>4. CASE Transmit
  BY <1>4 DEF Transmit, threadVars, mainVars, Mutex
<1>5. CASE ReceiveHeader
  BY <1>5 DEF ReceiveHeader, threadVars, mainVars, Mutex
<1>6. CASE ReceiveData
  BY <1>6 DEF ReceiveData, threadVars, mainVars, Mutex
<1>7. CASE Select
  BY <1>7 DEF Select, MainAt, Mutex
<1>8. CASE RecvRequest
  BY <1>8, ServerAssumption DEF RecvRequest, LockGuard, Mutex
<1>9. CASE ReadHeader
  BY <1>9, ServerAssumption DEF ReadHeader, MainAt, Mutex
<1>10. CASE ReadPayload
  BY <1>10, ServerAssumption DEF ReadPayload, MainAt, Mutex
<1>11. CASE Submit
  BY <1>11 DEF Submit, MainAt, Mutex
<1>12. ASSUME NEW w \in Workers, Start(w) PROVE Mutex'
  BY <1>12 DEF Start, Doing, FirstPlace, mainVars, Mutex
<1>13. ASSUME NEW w \in Workers, Copy(w) PROVE Mutex'
  BY <1>13 DEF Copy, Doing, mainVars, Mutex
<1>14. ASSUME NEW w \in Workers, SendReply(w) PROVE Mutex'
  BY <1>14, ServerAssumption DEF SendReply, LockGuard, mainVars, Mutex, TypeOK
<1>15. ASSUME NEW w \in Workers, WriteHeader(w) PROVE Mutex'
  BY <1>15, ServerAssumption DEF WriteHeader, Doing, EndReply, mainVars, dataVars, Mutex,
     TypeOK, Threads
<1>16. ASSUME NEW w \in Workers, WriteData(w) PROVE Mutex'
  BY <1>16, ServerAssumption DEF WriteData, Doing, EndReply, Pool!Finish, kernelVars, mainVars,
     poolVars, Mutex, TypeOK, Threads
<1>17. ASSUME NEW w \in Workers, WriteFails(w) PROVE Mutex'
  BY <1>17 DEF WriteFails, mainVars, Mutex
<1> QED BY <1>1, <1>2, <1>3, <1>4, <1>5, <1>6, <1>7, <1>8, <1>9, <1>10, <1>11, <1>12, <1>13,
           <1>14, <1>15, <1>16, <1>17 DEF Next, Kernel, Main, Worker

\* Whoever enters a loop has something to do in it.
LEMMA BusyKept == TypeOK /\ Busy /\ [Next]_vars => Busy'
<1> SUFFICES ASSUME TypeOK, Busy, [Next]_vars PROVE Busy'
    OBVIOUS
<1>1. CASE UNCHANGED vars
  BY <1>1 DEF vars, kernelVars, threadVars, mainVars, poolVars, Busy
<1>2. ASSUME NEW h \in Reqs, Issue(h) PROVE Busy'
  BY <1>2 DEF Issue, threadVars, mainVars, poolVars, Busy
<1>3. CASE HangUp \/ MainFails
  BY <1>3 DEF HangUp, MainFails, kernelVars, threadVars, mainVars, poolVars, Busy
<1>4. CASE Transmit
  BY <1>4 DEF Transmit, threadVars, mainVars, poolVars, Busy
<1>5. CASE ReceiveHeader
  <2> DEFINE h == Head(toKernel).req
  <2>1. h \in Reqs /\ replying = NoReq
    BY <1>5, ReplyRead DEF ReceiveHeader
  <2>2. UNCHANGED <<m_mutex, doing, running, reactor, current>>
    BY <1>5 DEF ReceiveHeader, threadVars, mainVars, poolVars
  <2>3. CASE Kind[h] = "READ"
    <3>1. replying' = h /\ left' = [left EXCEPT ![NoReq] = Span[h]]
      BY <1>5, <2>3 DEF ReceiveHeader
    <3>2. left'[NoReq] = Span[h] /\ left'[Reactor] = left[Reactor] /\ \A w \in Workers : left'[w] = left[w]
      BY <3>1, ServerAssumption DEF TypeOK, Threads
    <3>3. Span[h] # {}
      BY <2>1, <2>3, ServerAssumption
    <3> HIDE DEF h
    <3> QED BY <2>1, <2>2, <2>3, <3>1, <3>2, <3>3, ServerAssumption DEF Busy
  <2>4. CASE Kind[h] # "READ"
    <3>1. UNCHANGED <<replying, left>>
      BY <1>5, <2>4 DEF ReceiveHeader
    <3> QED BY <2>2, <3>1 DEF Busy
  <2> QED BY <2>3, <2>4
<1>6. CASE ReceiveData
  BY <1>6, ServerAssumption DEF ReceiveData, threadVars, mainVars, poolVars, Busy
<1>7. CASE Select
  BY <1>7 DEF Select, MainAt, kernelVars, poolVars, Busy
<1>8. CASE RecvRequest
  BY <1>8 DEF RecvRequest, MainAt, kernelVars, poolVars, Busy
<1>9. CASE ReadHeader
  <2>1. In[1] = Head(toApp) /\ Head(toApp).req \in Reqs
    BY <1>9, InRead, InTyped DEF ReadHeader, kernelVars
  <2> QED BY <1>9, <2>1, ServerAssumption DEF ReadHeader, kernelVars, poolVars, Busy, TypeOK,
             Threads
<1>10. CASE ReadPayload
  BY <1>10, ServerAssumption DEF ReadPayload, MainAt, kernelVars, poolVars, Busy
<1>11. CASE Submit
  BY <1>11 DEF Submit, Pool!Submit, kernelVars, Busy
<1>12. ASSUME NEW w \in Workers, Start(w) PROVE Busy'
  BY <1>12, ServerAssumption DEF Start, FirstPlace, Pool!Start, kernelVars, mainVars, Busy,
     TypeOK, Threads
<1>13. ASSUME NEW w \in Workers, Copy(w) PROVE Busy'
  BY <1>13, ServerAssumption DEF Copy, Doing, Copied, kernelVars, mainVars, poolVars, Busy,
     TypeOK
<1>14. ASSUME NEW w \in Workers, SendReply(w) PROVE Busy'
  BY <1>14 DEF SendReply, Doing, kernelVars, mainVars, poolVars, Busy
<1>15. ASSUME NEW w \in Workers, WriteHeader(w) PROVE Busy'
  <2>1. running[w] \in Reqs /\ doing[w] = "header"
    BY <1>15 DEF WriteHeader, Doing, Busy, TypeOK
  <2>2. UNCHANGED <<reactor, current, replying>>
    BY <1>15 DEF WriteHeader, kernelVars, mainVars
  <2>3. CASE Kind[running[w]] = "READ"
    <3>1. left' = [left EXCEPT ![w] = Span[running[w]]] /\ doing' = [doing EXCEPT ![w] = "data"] /\ running' = running
      BY <1>15, <2>3 DEF WriteHeader, poolVars
    <3>2. left'[w] = Span[running[w]] /\ left'[Reactor] = left[Reactor] /\ left'[NoReq] = left[NoReq]
          /\ \A v \in Workers \ {w} : left'[v] = left[v]
      BY <3>1, <1>15, ServerAssumption DEF TypeOK, Threads
    <3>3. Span[running[w]] # {}
      BY <2>1, <2>3, ServerAssumption
    <3> QED BY <1>15, <2>1, <2>2, <2>3, <3>1, <3>2, <3>3 DEF Busy, TypeOK
  <2>4. CASE Kind[running[w]] # "READ"
    <3>1. left' = left /\ doing' = [doing EXCEPT ![w] = "idle"] /\ running' = [running EXCEPT ![w] = NoReq]
      BY <1>15, <2>4 DEF WriteHeader, EndReply, Pool!Finish
    <3> QED BY <1>15, <2>2, <3>1 DEF Busy, TypeOK
  <2> QED BY <2>3, <2>4
<1>16. ASSUME NEW w \in Workers, WriteData(w) PROVE Busy'
  BY <1>16, ServerAssumption DEF WriteData, EndReply, Pool!Finish, kernelVars, mainVars,
     poolVars, Busy, TypeOK
<1>17. ASSUME NEW w \in Workers, WriteFails(w) PROVE Busy'
  BY <1>17 DEF WriteFails, kernelVars, mainVars, poolVars, Busy
<1> QED BY <1>1, <1>2, <1>3, <1>4, <1>5, <1>6, <1>7, <1>8, <1>9, <1>10, <1>11, <1>12, <1>13,
           <1>14, <1>15, <1>16, <1>17 DEF Next, Kernel, Main, Worker

\* The requests behind the first unit stay whole when it is read.
LEMMA RunsRead ==
    ASSUME TypeOK, RequestsFramed, Len(In) \in Nat, Len(In) # 0, Len(In') = Len(In) - 1,
           \A j \in 1 .. Len(In') : In'[j] = In[j + 1]
    PROVE  \A j \in 1 .. Len(In') : In'[j].part = "header" => Run(In', j, DataUnits(In'[j].req), In'[j].req)
<1> TAKE j \in 1 .. Len(In')
<1> HAVE In'[j].part = "header"
<1>1. j + 1 \in 1 .. Len(In) /\ In'[j] = In[j + 1] /\ j \in Nat
  OBVIOUS
<1>2. In[j + 1].req \in Reqs
  BY <1>1, InTyped
<1>3. Run(In, j + 1, DataUnits(In[j + 1].req), In[j + 1].req)
  BY <1>1 DEF RequestsFramed
<1>4. Run(In', j, DataUnits(In[j + 1].req), In[j + 1].req)
  BY <1>1, <1>2, <1>3, RunRead, DataUnitsCounted
<1> QED BY <1>1, <1>4

\* The kernel's stream stays a sequence of whole requests.
LEMMA RequestsFramedKept ==
    TypeOK /\ Busy /\ RequestsFramed /\ [Next]_vars
      => RequestsFramed'
<1> SUFFICES ASSUME TypeOK, Busy, RequestsFramed, [Next]_vars PROVE RequestsFramed'
    OBVIOUS
<1>1. CASE UNCHANGED <<toApp, outbox, current, reactor, left>>
  BY <1>1 DEF RequestsFramed, In
<1>2. ASSUME NEW h \in Reqs, Issue(h) PROVE RequestsFramed'
  <2>1. /\ DataUnits(h) \in Nat /\ Len(In) \in Nat /\ Len(In') = Len(In) + 1 + DataUnits(h)
        /\ \A j \in 1 .. Len(In) : In'[j] = In[j]
        /\ In'[Len(In) + 1] = Header(h)
        /\ \A j \in Len(In) + 2 .. Len(In') : In'[j] = Data(h, h)
    BY <1>2, InIssued
  <2>2. /\ Len(In') \in Nat /\ Len(In) < Len(In') /\ In'[Len(In) + 1].part = "header"
    BY <2>1 DEF Header
  <2>3. UNCHANGED <<current, reactor, left>>
    BY <1>2 DEF Issue, threadVars, mainVars
  <2> DEFINE n == IF reactor = "payload" THEN Cardinality(left[Reactor]) ELSE 0
  <2>4. n \in Nat
    BY CountsDown DEF TypeOK, Threads
  <2>5. Run(In, 0, n, current)
    BY DEF RequestsFramed
  <2>6. Run(In', 0, n, current)
    <3> HIDE DEF n
    <3> QED BY <2>1, <2>2, <2>4, <2>5, RunGrows
  <2>7. ASSUME NEW j \in 1 .. Len(In'), In'[j].part = "header" PROVE Run(In', j, DataUnits(In'[j].req), In'[j].req)
    <3>1. CASE j \in 1 .. Len(In)
      <4>1. In'[j] = In[j] /\ In[j].req \in Reqs /\ j \in Nat
        BY <2>1, <3>1, InTyped
      <4>2. Run(In, j, DataUnits(In[j].req), In[j].req) /\ DataUnits(In[j].req) \in Nat
        BY <2>7, <3>1, <4>1, DataUnitsCounted DEF RequestsFramed
      <4>3. Run(In', j, DataUnits(In[j].req), In[j].req)
        BY <2>1, <2>2, <4>1, <4>2, RunGrows
      <4> QED BY <4>1, <4>3
    <3>2. CASE j = Len(In) + 1
      <4>1. In'[j].req = h
        BY <2>1, <3>2 DEF Header
      <4>2. \A i \in j + 1 .. j + DataUnits(h) : In'[i].part = "data" /\ In'[i].req = h
        BY <2>1, <3>2 DEF Data
      <4>3. j + DataUnits(h) = Len(In')
        BY <2>1, <3>2
      <4> QED BY <2>2, <4>1, <4>2, <4>3 DEF Run
    <3>3. CASE j \in Len(In) + 2 .. Len(In')
      BY <2>1, <2>7, <3>3 DEF Data
    <3> QED BY <2>1, <3>1, <3>2, <3>3
  <2> QED BY <2>3, <2>6, <2>7 DEF RequestsFramed
<1>3. CASE Transmit
  <2>1. In' = In
    BY <1>3, InSent
  <2>2. UNCHANGED <<current, reactor, left>>
    BY <1>3 DEF Transmit, threadVars, mainVars
  <2> QED BY <2>1, <2>2 DEF RequestsFramed
<1>4. CASE ReceiveHeader
  <2>1. UNCHANGED <<toApp, outbox, current, reactor>> /\ left'[Reactor] = left[Reactor]
    BY <1>4, ServerAssumption DEF ReceiveHeader, threadVars, mainVars, TypeOK, Threads
  <2> QED BY <2>1 DEF RequestsFramed, In
<1>5. CASE ReceiveData
  <2>1. UNCHANGED <<toApp, outbox, current, reactor>> /\ left'[Reactor] = left[Reactor]
    BY <1>5, ServerAssumption DEF ReceiveData, threadVars, mainVars
  <2> QED BY <2>1 DEF RequestsFramed, In
<1>6. CASE Select
  <2>1. /\ UNCHANGED <<toApp, outbox, left>> /\ reactor # "payload" /\ reactor' # "payload"
        /\ current' = current \/ current' = NoReq
    BY <1>6 DEF Select, MainAt, kernelVars
  <2>2. Run(In, 0, 0, current) => Run(In, 0, 0, current')
    BY DEF Run
  <2> QED BY <2>1, <2>2 DEF RequestsFramed, In
<1>7. CASE RecvRequest
  <2>1. /\ UNCHANGED <<toApp, outbox, left>> /\ reactor # "payload" /\ reactor' # "payload"
        /\ current' = current \/ current' = NoReq
    BY <1>7 DEF RecvRequest, MainAt, kernelVars
  <2>2. Run(In, 0, 0, current) => Run(In, 0, 0, current')
    BY DEF Run
  <2> QED BY <2>1, <2>2 DEF RequestsFramed, In
<1>8. CASE ReadHeader
  <2> DEFINE h == Head(toApp).req
  <2>1. /\ reactor = "header" /\ toApp # <<>> /\ toApp' = Tail(toApp) /\ outbox' = outbox /\ current' = h
        /\ left' = [left EXCEPT ![Reactor] = IF Kind[h] = "WRITE" THEN Span[h] ELSE {}]
        /\ reactor' = IF Kind[h] = "WRITE" THEN "payload" ELSE "submit"
    BY <1>8 DEF ReadHeader, MainAt, kernelVars
  <2>2. /\ Len(In) \in Nat /\ Len(In) # 0 /\ Len(In') = Len(In) - 1 /\ In[1] = Head(toApp)
        /\ \A j \in 1 .. Len(In') : In'[j] = In[j + 1]
    BY <2>1, InRead
  <2>3. In[1].part = "header" /\ In[1].req = h /\ 1 \in 1 .. Len(In) /\ h \in Reqs
    BY <2>1, <2>2, NextRequest, InTyped
  <2>4. DataUnits(h) = IF reactor' = "payload" THEN Cardinality(left'[Reactor]) ELSE 0
    BY <2>1 DEF DataUnits, TypeOK, Threads
  <2> HIDE DEF h
  <2>5. Run(In, 0 + 1, DataUnits(h), h) /\ DataUnits(h) \in Nat
    BY <2>3, DataUnitsCounted DEF RequestsFramed
  <2>6. Run(In', 0, DataUnits(h), h)
    BY <2>2, <2>5, RunRead
  <2>7. \A j \in 1 .. Len(In') : In'[j].part = "header" => Run(In', j, DataUnits(In'[j].req), In'[j].req)
    BY <2>2, RunsRead
  <2> QED BY <2>1, <2>4, <2>6, <2>7 DEF RequestsFramed
<1>9. CASE ReadPayload
  <2> DEFINE n == Cardinality(left[Reactor])
  <2>1. /\ reactor = "payload" /\ toApp # <<>> /\ toApp' = Tail(toApp) /\ outbox' = outbox /\ current' = current
        /\ left' = [left EXCEPT ![Reactor] = @ \ {First(left[Reactor])}]
        /\ reactor' = IF left'[Reactor] = {} THEN "submit" ELSE "payload"
    BY <1>9 DEF ReadPayload, MainAt, kernelVars
  <2>2. /\ Len(In) \in Nat /\ Len(In) # 0 /\ Len(In') = Len(In) - 1
        /\ \A j \in 1 .. Len(In') : In'[j] = In[j + 1]
    BY <2>1, InRead
  <2>3. left[Reactor] \subseteq Cells /\ left[Reactor] # {} /\ left'[Reactor] = left[Reactor] \ {First(left[Reactor])}
    BY <2>1 DEF Busy, TypeOK, Threads
  <2>4. First(left[Reactor]) \in left[Reactor]
    BY <2>3, FirstIsOne
  <2>5. /\ n \in Nat /\ n # 0 /\ Cardinality(left'[Reactor]) = n - 1
        /\ n - 1 = 0 <=> left'[Reactor] = {}
    <3>1. n \in Nat /\ n # 0 /\ Cardinality(left'[Reactor]) = n - 1
      BY <2>3, <2>4, CountsDown
    <3>2. Cardinality(left'[Reactor]) = 0 <=> left'[Reactor] = {}
      BY <2>3, CountsDown
    <3> QED BY <3>1, <3>2
  <2>6. Run(In, 0, n, current)
    BY <2>1 DEF RequestsFramed
  <2> HIDE DEF n
  <2>7. Run(In', 0, n - 1, current)
    BY <2>2, <2>5, <2>6, RunRead
  <2>8. n - 1 = IF reactor' = "payload" THEN Cardinality(left'[Reactor]) ELSE 0
    BY <2>1, <2>5
  <2>9. \A j \in 1 .. Len(In') : In'[j].part = "header" => Run(In', j, DataUnits(In'[j].req), In'[j].req)
    BY <2>2, RunsRead
  <2> QED BY <2>1, <2>7, <2>8, <2>9 DEF RequestsFramed
<1>10. CASE Submit
  <2>1. /\ UNCHANGED <<toApp, outbox, left>> /\ reactor # "payload" /\ reactor' # "payload"
        /\ current' = current \/ current' = NoReq
    BY <1>10 DEF Submit, MainAt, kernelVars
  <2>2. Run(In, 0, 0, current) => Run(In, 0, 0, current')
    BY DEF Run
  <2> QED BY <2>1, <2>2 DEF RequestsFramed, In
<1>11. ASSUME NEW w \in Workers, Start(w) PROVE RequestsFramed'
  <2>1. UNCHANGED <<toApp, outbox, current, reactor>> /\ left'[Reactor] = left[Reactor]
    BY <1>11, ServerAssumption DEF Start, kernelVars, mainVars
  <2> QED BY <2>1 DEF RequestsFramed, In
<1>12. ASSUME NEW w \in Workers, Copy(w) PROVE RequestsFramed'
  <2>1. UNCHANGED <<toApp, outbox, current, reactor>> /\ left'[Reactor] = left[Reactor]
    BY <1>12, ServerAssumption DEF Copy, kernelVars, mainVars
  <2> QED BY <2>1 DEF RequestsFramed, In
<1>13. ASSUME NEW w \in Workers, WriteHeader(w) PROVE RequestsFramed'
  <2>1. UNCHANGED <<toApp, outbox, current, reactor>> /\ left'[Reactor] = left[Reactor]
    BY <1>13, ServerAssumption DEF WriteHeader, kernelVars, mainVars, TypeOK, Threads
  <2> QED BY <2>1 DEF RequestsFramed, In
<1>14. ASSUME NEW w \in Workers, WriteData(w) PROVE RequestsFramed'
  <2>1. UNCHANGED <<toApp, outbox, current, reactor>> /\ left'[Reactor] = left[Reactor]
    BY <1>14, ServerAssumption DEF WriteData, kernelVars, mainVars
  <2> QED BY <2>1 DEF RequestsFramed, In
<1> QED BY <1>1, <1>2, <1>3, <1>4, <1>5, <1>6, <1>7, <1>8, <1>9, <1>10, <1>11, <1>12, <1>13,
           <1>14 DEF Next, Kernel, Main, Worker, vars, kernelVars, threadVars, mainVars,
           HangUp, MainFails, SendReply, WriteFails

\* No request is in two places.
LEMMA PlacedKept == TypeOK /\ Busy /\ RequestsFramed /\ Placed /\ [Next]_vars => Placed'
<1> SUFFICES ASSUME TypeOK, Busy, RequestsFramed, Placed, [Next]_vars PROVE Placed'
    OBVIOUS
<1>1. CASE UNCHANGED <<issued, toApp, outbox, current, pending, running, finished>>
  BY <1>1 DEF Placed, In, InPool, Pool!OnePlace, Pool!Running
<1>2. ASSUME NEW h \in Reqs, Issue(h) PROVE Placed'
  <2>1. /\ DataUnits(h) \in Nat /\ Len(In) \in Nat /\ Len(In') = Len(In) + 1 + DataUnits(h)
        /\ \A j \in 1 .. Len(In) : In'[j] = In[j]
        /\ In'[Len(In) + 1] = Header(h)
        /\ \A j \in Len(In) + 2 .. Len(In') : In'[j] = Data(h, h)
    BY <1>2, InIssued
  <2>2. /\ h \notin issued /\ issued' = issued \cup {h}
        /\ UNCHANGED <<current, pending, running, finished>>
    BY <1>2 DEF Issue, threadVars, mainVars, poolVars
  <2>3. InPool' = InPool /\ Pool!OnePlace'
    BY <2>2 DEF Placed, InPool, Pool!OnePlace, Pool!Running
  <2>4. \A j \in 1 .. Len(In') : In'[j].part = "header" =>
          \/ j \in 1 .. Len(In) /\ In'[j] = In[j] /\ In'[j].req # h
          \/ j = Len(In) + 1 /\ In'[j].req = h
    <3> TAKE j \in 1 .. Len(In')
    <3>1. CASE j \in 1 .. Len(In)
      BY <2>1, <2>2, <3>1 DEF Placed
    <3>2. CASE j = Len(In) + 1
      BY <2>1, <3>2 DEF Header
    <3>3. CASE j \in Len(In) + 2 .. Len(In')
      BY <2>1, <3>3 DEF Data
    <3> QED BY <2>1, <3>1, <3>2, <3>3
  <2>5. h \notin InPool \cup {current}
    BY <2>2, ServerAssumption DEF Placed
  <2>6. \A j \in 1 .. Len(In') :
          In'[j].part = "header" => In'[j].req \in issued' \ (InPool' \cup {current'})
    BY <2>2, <2>3, <2>4, <2>5 DEF Placed
  <2>7. \A i, j \in 1 .. Len(In') :
          In'[i].part = "header" /\ In'[j].part = "header" /\ In'[i].req = In'[j].req => i = j
    BY <2>4 DEF Placed
  <2>8. InPool' \subseteq issued' /\ (current' # NoReq => current' \in issued' \ InPool')
    BY <2>2, <2>3 DEF Placed
  <2> QED BY <2>3, <2>6, <2>7, <2>8 DEF Placed
<1>3. CASE Transmit
  <2>1. In' = In
    BY <1>3, InSent
  <2>2. UNCHANGED <<issued, pending, running, finished, current>>
    BY <1>3 DEF Transmit, threadVars, mainVars, poolVars
  <2> QED BY <2>1, <2>2 DEF Placed, InPool, Pool!OnePlace, Pool!Running
<1>4. CASE ReadHeader
  <2> DEFINE h == Head(toApp).req
  <2>1. /\ reactor = "header" /\ toApp # <<>> /\ toApp' = Tail(toApp) /\ outbox' = outbox /\ current' = h
        /\ UNCHANGED <<issued, pending, running, finished>>
    BY <1>4 DEF ReadHeader, MainAt, kernelVars, poolVars
  <2>2. /\ Len(In) \in Nat /\ Len(In) # 0 /\ Len(In') = Len(In) - 1 /\ In[1] = Head(toApp)
        /\ \A j \in 1 .. Len(In') : In'[j] = In[j + 1]
    BY <2>1, InRead
  <2>3. In[1].part = "header" /\ In[1].req = h
    BY <2>1, <2>2, NextRequest
  <2> HIDE DEF h
  <2>4. InPool' = InPool /\ Pool!OnePlace'
    BY <2>1 DEF Placed, InPool, Pool!OnePlace, Pool!Running
  <2>5. h \in issued \ InPool
    BY <2>2, <2>3 DEF Placed
  <2>6. \A j \in 1 .. Len(In') : In'[j].part = "header" =>
          /\ In'[j].req \in issued \ InPool /\ In'[j].req # h
          /\ \A i \in 1 .. Len(In') : In'[i].part = "header" /\ In'[i].req = In'[j].req => i = j
    <3> TAKE j \in 1 .. Len(In')
    <3> HAVE In'[j].part = "header"
    <3>1. j + 1 \in 1 .. Len(In) /\ j + 1 # 1 /\ In'[j] = In[j + 1]
      BY <2>2
    <3>2. In'[j].req \in issued \ InPool /\ In'[j].req # h
      BY <2>2, <2>3, <3>1 DEF Placed
    <3>3. ASSUME NEW i \in 1 .. Len(In'), In'[i].part = "header", In'[i].req = In'[j].req PROVE i = j
      <4>1. i + 1 \in 1 .. Len(In) /\ In'[i] = In[i + 1]
        BY <2>2
      <4>2. i + 1 = j + 1
        BY <3>1, <3>3, <4>1 DEF Placed
      <4> QED BY <2>2, <4>2
    <3> QED BY <3>2, <3>3
  <2> QED BY <2>1, <2>4, <2>5, <2>6 DEF Placed
<1>5. CASE ReadPayload
  <2>1. /\ reactor = "payload" /\ toApp # <<>> /\ toApp' = Tail(toApp) /\ outbox' = outbox
        /\ UNCHANGED <<issued, pending, running, finished, current>>
    BY <1>5 DEF ReadPayload, MainAt, kernelVars, poolVars
  <2>2. /\ Len(In) \in Nat /\ Len(In) # 0 /\ Len(In') = Len(In) - 1
        /\ \A j \in 1 .. Len(In') : In'[j] = In[j + 1] /\ j + 1 \in 1 .. Len(In)
    BY <2>1, InRead
  <2>3. InPool' = InPool /\ Pool!OnePlace'
    BY <2>1 DEF Placed, InPool, Pool!OnePlace, Pool!Running
  <2>4. \A i, j \in 1 .. Len(In') :
          In'[i].part = "header" /\ In'[j].part = "header" /\ In'[i].req = In'[j].req => i = j
    <3> TAKE i, j \in 1 .. Len(In')
    <3> HAVE In'[i].part = "header" /\ In'[j].part = "header" /\ In'[i].req = In'[j].req
    <3>1. i + 1 = j + 1
      BY <2>2 DEF Placed
    <3> QED BY <2>2, <3>1
  <2> QED BY <2>1, <2>2, <2>3, <2>4 DEF Placed
<1>6. CASE Submit
  <2>1. /\ reactor = "submit" /\ Pool!Submit(current) /\ current' = NoReq
        /\ UNCHANGED <<issued, toApp, outbox>>
    BY <1>6 DEF Submit, MainAt, kernelVars
  <2>2. current # NoReq /\ current \in Reqs
    BY <2>1 DEF Busy, TypeOK
  <2>3. InPool' = InPool \cup {current} /\ Pool!OnePlace'
    BY <2>1, <2>2, PoolSubmits DEF Placed
  <2>4. In' = In
    BY <2>1 DEF In
  <2>5. \A j \in 1 .. Len(In) : In[j].req # NoReq
    BY InTyped, ServerAssumption
  <2> QED BY <2>1, <2>2, <2>3, <2>4, <2>5 DEF Placed
<1>7. ASSUME NEW w \in Workers, Start(w) PROVE Placed'
  <2>1. PICK h \in Reqs : Pool!Start(w, h)
    BY <1>7 DEF Start
  <2>2. InPool' = InPool /\ Pool!OnePlace'
    BY <2>1, PoolStarts DEF Placed
  <2>3. UNCHANGED <<issued, toApp, outbox, current>>
    BY <1>7 DEF Start, kernelVars, mainVars
  <2> QED BY <2>2, <2>3 DEF Placed, In
<1>8. ASSUME NEW w \in Workers, WriteHeader(w) PROVE Placed'
  <2>1. UNCHANGED poolVars \/ Pool!Finish(w)
    BY <1>8 DEF WriteHeader, EndReply
  <2>2. InPool' = InPool /\ Pool!OnePlace'
    BY <2>1, PoolFinishes DEF Placed, poolVars, InPool, Pool!OnePlace, Pool!Running
  <2>3. UNCHANGED <<issued, toApp, outbox, current>>
    BY <1>8 DEF WriteHeader, kernelVars, mainVars
  <2> QED BY <2>2, <2>3 DEF Placed, In
<1>9. ASSUME NEW w \in Workers, WriteData(w) PROVE Placed'
  <2>1. UNCHANGED poolVars \/ Pool!Finish(w)
    BY <1>9 DEF WriteData, EndReply
  <2>2. InPool' = InPool /\ Pool!OnePlace'
    BY <2>1, PoolFinishes DEF Placed, poolVars, InPool, Pool!OnePlace, Pool!Running
  <2>3. UNCHANGED <<issued, toApp, outbox, current>>
    BY <1>9 DEF WriteData, kernelVars, mainVars
  <2> QED BY <2>2, <2>3 DEF Placed, In
<1> QED BY <1>1, <1>2, <1>3, <1>4, <1>5, <1>6, <1>7, <1>8, <1>9
        DEF Next, Kernel, Main, Worker, vars, kernelVars, threadVars, mainVars, poolVars,
            HangUp, MainFails, ReceiveHeader, ReceiveData, Select, RecvRequest, Copy, SendReply, WriteFails

\* No reply is sent twice or known before it arrives.
LEMMA RepliesPlacedKept ==
    TypeOK /\ Busy /\ Placed /\ RepliesDue /\ RepliesPlaced /\ [Next]_vars
      => RepliesPlaced'
<1> SUFFICES ASSUME TypeOK, Busy, Placed, RepliesDue, RepliesPlaced, [Next]_vars PROVE RepliesPlaced'
    OBVIOUS
<1>1. CASE UNCHANGED vars
  BY <1>1 DEF vars, kernelVars, threadVars, poolVars, RepliesPlaced, Replied
<1>2. ASSUME NEW h \in Reqs, Issue(h) PROVE RepliesPlaced'
  BY <1>2 DEF Issue, threadVars, poolVars, RepliesPlaced, Replied
<1>3. CASE HangUp \/ MainFails
  BY <1>3 DEF HangUp, MainFails, kernelVars, threadVars, poolVars, RepliesPlaced, Replied
<1>4. CASE Transmit
  BY <1>4 DEF Transmit, threadVars, poolVars, RepliesPlaced, Replied
<1>5. CASE ReceiveHeader
  <2> DEFINE h == Head(toKernel).req
  <2>1. /\ replying = NoReq /\ toKernel # <<>> /\ toKernel' = Tail(toKernel)
        /\ UNCHANGED <<doing, running, finished, before>>
        /\ IF Kind[h] = "READ" THEN replying' = h /\ answered' = answered
                              ELSE replying' = NoReq /\ answered' = answered \cup {h}
    BY <1>5 DEF ReceiveHeader, threadVars, poolVars
  <2>2. /\ Len(toKernel) \in Nat /\ Len(toKernel) # 0 /\ Len(toKernel') = Len(toKernel) - 1
        /\ toKernel[1].req = h /\ toKernel[1].part = "header" /\ h \in Reqs
        /\ \A j \in 1 .. Len(toKernel') : toKernel'[j] = toKernel[j + 1] /\ j + 1 \in 1 .. Len(toKernel)
    BY <2>1, ReplyRead, NextReply
  <2>3. h # NoReq
    BY <2>2, ServerAssumption
  <2> HIDE DEF h
  <2>4. h \in Replied \ answered
    BY <2>2 DEF RepliesPlaced
  <2>5. Replied' = Replied
    BY <2>1 DEF Replied
  <2>6. \A j \in 1 .. Len(toKernel') :
          toKernel'[j].part = "header" => toKernel'[j].req \in Replied \ answered /\ toKernel'[j].req # h
    BY <2>2 DEF RepliesPlaced
  <2>7. \A j \in 1 .. Len(toKernel') :
          toKernel'[j].part = "header" => toKernel'[j].req # NoReq
    BY <2>1, <2>6 DEF RepliesPlaced
  <2>8. \A i, j \in 1 .. Len(toKernel') :
           toKernel'[i].part = "header" /\ toKernel'[j].part = "header"
             /\ toKernel'[i].req = toKernel'[j].req => i = j
    BY <2>2 DEF RepliesPlaced
  <2> QED BY <2>1, <2>3, <2>4, <2>5, <2>6, <2>7, <2>8 DEF RepliesPlaced
<1>6. CASE ReceiveData
  <2>1. /\ replying # NoReq /\ toKernel # <<>> /\ toKernel' = Tail(toKernel)
        /\ UNCHANGED <<doing, running, finished, before>>
        /\ \/ replying' = NoReq /\ answered' = answered \cup {replying}
           \/ UNCHANGED <<answered, replying>>
    BY <1>6 DEF ReceiveData, threadVars, poolVars
  <2>2. /\ Len(toKernel) \in Nat /\ Len(toKernel) # 0 /\ Len(toKernel') = Len(toKernel) - 1
        /\ \A j \in 1 .. Len(toKernel') : toKernel'[j] = toKernel[j + 1] /\ j + 1 \in 1 .. Len(toKernel)
    BY <2>1, ReplyRead
  <2>3. Replied' = Replied
    BY <2>1 DEF Replied
  <2>4. \A j \in 1 .. Len(toKernel') :
          toKernel'[j].part = "header" => toKernel'[j].req \in Replied \ (answered \cup {replying})
    BY <2>2 DEF RepliesPlaced
  <2>5. \A j \in 1 .. Len(toKernel') :
          toKernel'[j].part = "header" => toKernel'[j].req # NoReq
    <3>1. \A j \in 1 .. Len(toKernel) : toKernel[j].req # NoReq
      BY RepliesTyped, ServerAssumption
    <3> QED BY <2>2, <3>1
  <2>6. ASSUME NEW i \in 1 .. Len(toKernel'), NEW j \in 1 .. Len(toKernel'),
               toKernel'[i].part = "header", toKernel'[j].part = "header",
               toKernel'[i].req = toKernel'[j].req
        PROVE  i = j
    <3>1. /\ i + 1 \in 1 .. Len(toKernel) /\ toKernel'[i] = toKernel[i + 1]
          /\ j + 1 \in 1 .. Len(toKernel) /\ toKernel'[j] = toKernel[j + 1]
      BY <2>2
    <3>2. i + 1 = j + 1
      BY <3>1, <2>6 DEF RepliesPlaced
    <3> QED BY <3>2, <2>2
  <2> QED BY <2>1, <2>3, <2>4, <2>5, <2>6 DEF RepliesPlaced
<1>7. CASE Select
  BY <1>7 DEF Select, kernelVars, poolVars, RepliesPlaced, Replied
<1>8. CASE RecvRequest
  BY <1>8 DEF RecvRequest, kernelVars, poolVars, RepliesPlaced, Replied
<1>9. CASE ReadHeader
  BY <1>9 DEF ReadHeader, kernelVars, poolVars, RepliesPlaced, Replied
<1>10. CASE ReadPayload
  BY <1>10 DEF ReadPayload, kernelVars, poolVars, RepliesPlaced, Replied
<1>11. CASE Submit
  BY <1>11 DEF Submit, Pool!Submit, kernelVars, RepliesPlaced, Replied
<1>12. ASSUME NEW w \in Workers, Start(w) PROVE RepliesPlaced'
  BY <1>12 DEF Start, Doing, Pool!Start, kernelVars, RepliesPlaced, Replied
<1>13. ASSUME NEW w \in Workers, Copy(w) PROVE RepliesPlaced'
  BY <1>13 DEF Copy, Doing, kernelVars, poolVars, RepliesPlaced, Replied
<1>14. ASSUME NEW w \in Workers, SendReply(w) PROVE RepliesPlaced'
  BY <1>14 DEF SendReply, Doing, kernelVars, poolVars, RepliesPlaced, Replied
<1>15. ASSUME NEW w \in Workers, WriteHeader(w) PROVE RepliesPlaced'
  <2> DEFINE h == running[w]
  <2>1. /\ h \in Reqs /\ h # NoReq /\ doing[w] = "header"
        /\ toKernel' = Append(toKernel, Header(h)) /\ UNCHANGED <<answered, replying, before>>
        /\ IF Kind[h] = "READ" THEN doing' = [doing EXCEPT ![w] = "data"] /\ UNCHANGED <<running, finished>>
             ELSE /\ doing' = [doing EXCEPT ![w] = "idle"] /\ running' = [running EXCEPT ![w] = NoReq]
                  /\ finished' = finished \cup {h}
    BY <1>15 DEF WriteHeader, Doing, EndReply, Pool!Finish, kernelVars, poolVars, Busy, TypeOK
  <2>2. h \notin finished /\ \A v \in Workers : running[v] = h => v = w
    BY <1>15, <2>1 DEF Placed, Pool!OnePlace, Pool!Running
  <2>3. h \notin Replied
    BY <2>1, <2>2 DEF Replied
  <2>4. Replied' = Replied \cup {h}
    <3>1. \A v \in Workers \ {w} : doing'[v] = doing[v] /\ running'[v] = running[v]
      BY <1>15, <2>1 DEF TypeOK
    <3>2. CASE Kind[h] = "READ"
      <4>1. doing'[w] = "data" /\ running'[w] = h /\ finished' = finished
        BY <1>15, <2>1, <3>2 DEF TypeOK
      <4>2. ASSUME NEW x PROVE x \in Replied' <=> x \in Replied \cup {h}
        BY <1>15, <2>1, <3>1, <4>1 DEF Replied
      <4> QED BY <4>2
    <3>3. CASE Kind[h] # "READ"
      <4>1. doing'[w] = "idle" /\ finished' = finished \cup {h}
        BY <1>15, <2>1, <3>3 DEF TypeOK
      <4>2. ASSUME NEW x PROVE x \in Replied' <=> x \in Replied \cup {h}
        BY <1>15, <2>1, <3>1, <4>1 DEF Replied
      <4> QED BY <4>2
    <3> QED BY <3>2, <3>3
  <2>5. Header(h) \in Unit /\ Header(h).part = "header" /\ Header(h).req = h
    BY <2>1 DEF Header, Unit
  <2> HIDE DEF h
  <2>6. /\ Len(toKernel) \in Nat /\ Len(toKernel') = Len(toKernel) + 1
        /\ toKernel'[Len(toKernel')] = Header(h)
        /\ \A j \in 1 .. Len(toKernel) : toKernel'[j] = toKernel[j]
    BY <2>1, <2>5, ReplyWritten
  <2>7. \A j \in 1 .. Len(toKernel') : toKernel'[j].part = "header" =>
          /\ j \in 1 .. Len(toKernel) => toKernel'[j].req \in Replied \ (answered \cup {replying})
          /\ j \notin 1 .. Len(toKernel) => j = Len(toKernel') /\ toKernel'[j].req = h
    BY <2>5, <2>6 DEF RepliesPlaced
  <2>8. \A i, j \in 1 .. Len(toKernel') :
           toKernel'[i].part = "header" /\ toKernel'[j].part = "header"
             /\ toKernel'[i].req = toKernel'[j].req => i = j
    BY <2>3, <2>6, <2>7 DEF RepliesPlaced
  <2>9. h \notin answered \cup {replying}
    BY <2>1, <2>3 DEF RepliesPlaced
  <2> QED BY <2>1, <2>4, <2>7, <2>8, <2>9 DEF RepliesPlaced
<1>16. ASSUME NEW w \in Workers, WriteData(w) PROVE RepliesPlaced'
  <2> DEFINE h == running[w]
  <2>1. PICK u \in Unit : u.part = "data" /\ toKernel' = Append(toKernel, u)
    BY <1>16, WriteDataUnit DEF Data
  <2>2. /\ h # NoReq /\ doing[w] = "data" /\ UNCHANGED <<answered, replying, before>>
        /\ \/ UNCHANGED <<doing, running, finished>>
           \/ /\ doing' = [doing EXCEPT ![w] = "idle"] /\ running' = [running EXCEPT ![w] = NoReq]
              /\ finished' = finished \cup {h}
    BY <1>16 DEF WriteData, Doing, EndReply, Pool!Finish, kernelVars, poolVars, Busy
  <2>3. Replied' = Replied
    <3>1. CASE UNCHANGED <<doing, running, finished>>
      BY <3>1 DEF Replied
    <3>2. CASE /\ doing' = [doing EXCEPT ![w] = "idle"] /\ running' = [running EXCEPT ![w] = NoReq]
               /\ finished' = finished \cup {h}
      <4>1. /\ doing'[w] = "idle" /\ doing[w] = "data"
            /\ \A v \in Workers \ {w} : doing'[v] = doing[v] /\ running'[v] = running[v]
        BY <1>16, <2>2, <3>2 DEF TypeOK
      <4>2. ASSUME NEW x PROVE x \in Replied' <=> x \in Replied
        BY <1>16, <3>2, <4>1 DEF Replied
      <4> QED BY <4>2
    <3> QED BY <2>2, <3>1, <3>2
  <2>4. /\ Len(toKernel) \in Nat /\ Len(toKernel') = Len(toKernel) + 1
        /\ toKernel'[Len(toKernel')] = u
        /\ \A j \in 1 .. Len(toKernel) : toKernel'[j] = toKernel[j]
    BY <2>1, ReplyWritten
  <2>5. \A j \in 1 .. Len(toKernel') : toKernel'[j].part = "header" =>
          j \in 1 .. Len(toKernel) /\ toKernel'[j] = toKernel[j]
    BY <2>1, <2>4
  <2> QED BY <2>2, <2>3, <2>5 DEF RepliesPlaced
<1>17. ASSUME NEW w \in Workers, WriteFails(w) PROVE RepliesPlaced'
  BY <1>17 DEF WriteFails, kernelVars, poolVars, RepliesPlaced, Replied
<1> QED BY <1>1, <1>2, <1>3, <1>4, <1>5, <1>6, <1>7, <1>8, <1>9, <1>10, <1>11, <1>12, <1>13,
           <1>14, <1>15, <1>16, <1>17 DEF Next, Kernel, Main, Worker

\* The kernel writes units.
LEMMA RequestUnitsTyped == \A h \in Reqs : RequestUnits(h) \in Seq(Unit)
<1> TAKE h \in Reqs
<1>1. DataUnits(h) \in Nat
  BY DataUnitsCounted
<1>2. Header(h) \in Unit /\ Data(h, h) \in Unit
  BY DEF Header, Data, Unit
<1>3. <<Header(h)>> \in Seq(Unit) /\ [i \in 1 .. DataUnits(h) |-> Data(h, h)] \in Seq(Unit)
  BY <1>1, <1>2
<1> QED BY <1>3 DEF RequestUnits, DataUnits

\* The types are kept.
LEMMA TypesKept == TypeOK /\ Busy /\ (answered \subseteq issued)' /\ [Next]_vars => TypeOK'
<1> SUFFICES ASSUME TypeOK, Busy, (answered \subseteq issued)', [Next]_vars PROVE TypeOK'
    OBVIOUS
<1>1. CASE UNCHANGED vars
  BY <1>1 DEF vars, kernelVars, threadVars, mainVars, dataVars, poolVars, TypeOK
<1>2. ASSUME NEW h \in Reqs, Issue(h) PROVE TypeOK'
  <2>1. outbox' = outbox \o RequestUnits(h) /\ outbox \in Seq(Unit) /\ RequestUnits(h) \in Seq(Unit)
    BY <1>2, RequestUnitsTyped DEF Issue, TypeOK
  <2>2. outbox' \in Seq(Unit)
    BY <2>1
  <2>3. issued' \subseteq Reqs /\ before' \in [Reqs -> SUBSET Reqs]
    BY <1>2 DEF Issue, TypeOK
  <2> QED BY <1>2, <2>2, <2>3 DEF Issue, threadVars, mainVars, dataVars, poolVars, TypeOK
<1>3. CASE HangUp \/ MainFails
  BY <1>3 DEF HangUp, MainFails, kernelVars, threadVars, mainVars, dataVars, poolVars, TypeOK
<1>4. CASE Transmit
  <2>1. /\ outbox \in Seq(Unit) /\ outbox # <<>> /\ toApp \in Seq(Unit) /\ Len(toApp) < Capacity
        /\ toApp' = Append(toApp, Head(outbox)) /\ outbox' = Tail(outbox)
    BY <1>4 DEF Transmit, HasRoom, TypeOK
  <2>2. outbox' \in Seq(Unit) /\ toApp' \in Seq(Unit) /\ Len(toApp') <= Capacity
    <3> HIDE DEF Unit
    <3> QED BY <2>1, ServerAssumption
  <2> QED BY <1>4, <2>2 DEF Transmit, threadVars, mainVars, dataVars, poolVars, TypeOK
<1>5. CASE ReceiveHeader
  <2>1. toKernel # <<>> /\ toKernel' = Tail(toKernel) /\ toKernel \in Seq(Unit) /\ Len(toKernel) <= Capacity
    BY <1>5 DEF ReceiveHeader, TypeOK
  <2>2. toKernel' \in Seq(Unit) /\ Len(toKernel') <= Capacity /\ Head(toKernel).req \in Reqs
    BY <2>1, ReplyRead, ServerAssumption
  <2>3. replying' \in Reqs \cup {NoReq} /\ left' \in [Threads \cup {NoReq} -> SUBSET Cells]
    BY <1>5, <2>2, ServerAssumption DEF ReceiveHeader, TypeOK, Threads
  <2> QED BY <1>5, <2>2, <2>3 DEF ReceiveHeader, threadVars, mainVars, dataVars, poolVars,
             TypeOK
<1>6. CASE ReceiveData
  <2>1. /\ left[NoReq] \subseteq Cells /\ First(left[NoReq]) \in left[NoReq] /\ replying \in Reqs
        /\ toKernel \in Seq(Unit) /\ toKernel # <<>> /\ toKernel' = Tail(toKernel)
    BY <1>6, FirstIsOne DEF ReceiveData, Busy, TypeOK
  <2>2. toKernel' \in Seq(Unit) /\ Len(toKernel') <= Capacity
    BY <2>1, ServerAssumption DEF TypeOK
  <2>3. Head(toKernel) \in Unit
    BY <2>1
  <2>4. Head(toKernel).part = "data" => Head(toKernel).value \in Reqs \cup {Zero}
    BY <2>3 DEF Unit
  <2> HIDE DEF Unit
  <2>5. received' \in [Reqs -> [Cells -> Reqs \cup {Zero}]]
    BY <1>6, <2>1, <2>4 DEF ReceiveData, TypeOK
  <2>6. left' \in [Threads \cup {NoReq} -> SUBSET Cells]
    BY <1>6, <2>1 DEF ReceiveData, TypeOK, Threads
  <2>7. replying' \in Reqs \cup {NoReq}
    BY <1>6 DEF ReceiveData, TypeOK
  <2> QED BY <1>6, <2>2, <2>5, <2>6, <2>7 DEF ReceiveData, threadVars, mainVars, dataVars,
             poolVars, TypeOK
<1>7. CASE Select
  BY <1>7 DEF Select, kernelVars, dataVars, poolVars, TypeOK
<1>8. CASE RecvRequest
  BY <1>8 DEF RecvRequest, LockGuard, kernelVars, dataVars, poolVars, TypeOK, Threads
<1>9. CASE ReadHeader
  BY <1>9, ServerAssumption, InRead, InTyped DEF ReadHeader, MainAt, kernelVars, dataVars,
     poolVars, TypeOK, Threads
<1>10. CASE ReadPayload
  <2>1. toApp # <<>> /\ toApp' = Tail(toApp) /\ toApp \in Seq(Unit) /\ Len(toApp) <= Capacity /\ outbox' = outbox
    BY <1>10 DEF ReadPayload, TypeOK, kernelVars
  <2>2. toApp' \in Seq(Unit) /\ Len(toApp') <= Capacity
    BY <2>1, ServerAssumption
  <2>3. Head(toApp).req \in Reqs
    BY <2>1, InRead, InTyped
  <2>4. current \in Reqs /\ left[Reactor] \subseteq Cells /\ First(left[Reactor]) \in left[Reactor]
    BY <1>10, FirstIsOne DEF ReadPayload, MainAt, Busy, TypeOK, Threads
  <2>5. m_buffer' \in [Reqs -> [Cells -> Reqs \cup {Zero}]] /\ left' \in [Threads \cup {NoReq} -> SUBSET Cells]
    BY <1>10, <2>3, <2>4 DEF ReadPayload, TypeOK, Threads
  <2> QED BY <1>10, <2>2, <2>5 DEF ReadPayload, kernelVars, poolVars, TypeOK
<1>11. CASE Submit
  <2>1. current \in Reqs
    BY <1>11 DEF Submit, MainAt, Busy, TypeOK
  <2> QED BY <1>11, <2>1 DEF Submit, Pool!Submit, kernelVars, dataVars, TypeOK
<1>12. ASSUME NEW w \in Workers, Start(w) PROVE TypeOK'
  BY <1>12, ServerAssumption DEF Start, FirstPlace, Pool!Start, kernelVars, mainVars, dataVars,
     TypeOK, Threads
<1>13. ASSUME NEW w \in Workers, Copy(w) PROVE TypeOK'
  <2>1. running[w] \in Reqs /\ left[w] \subseteq Cells /\ First(left[w]) \in left[w]
    BY <1>13, FirstIsOne DEF Copy, Doing, Busy, TypeOK, Threads
  <2>2. m_buffer' \in [Reqs -> [Cells -> Reqs \cup {Zero}]] /\ storage' \in [Cells -> Reqs \cup {Zero}]
    <3> DEFINE c == First(left[w])
    <3>1. c \in Cells /\ storage[c] \in Reqs \cup {Zero} /\ m_buffer[running[w]][c] \in Reqs \cup {Zero}
      BY <2>1 DEF TypeOK
    <3>2. \/ m_buffer' = [m_buffer EXCEPT ![running[w]][c] = storage[c]] /\ storage' = storage
          \/ storage' = [storage EXCEPT ![c] = m_buffer[running[w]][c]] /\ m_buffer' = m_buffer
      BY <1>13 DEF Copy
    <3> HIDE DEF c
    <3>3. /\ m_buffer \in [Reqs -> [Cells -> Reqs \cup {Zero}]]
          /\ storage \in [Cells -> Reqs \cup {Zero}]
      BY DEF TypeOK
    <3>4. m_buffer[running[w]] \in [Cells -> Reqs \cup {Zero}]
      BY <2>1, <3>3
    <3>5. CASE m_buffer' = [m_buffer EXCEPT ![running[w]][c] = storage[c]] /\ storage' = storage
      BY <3>1, <3>3, <3>4, <3>5
    <3>6. CASE storage' = [storage EXCEPT ![c] = m_buffer[running[w]][c]] /\ m_buffer' = m_buffer
      BY <3>1, <3>3, <3>6
    <3> QED BY <3>2, <3>5, <3>6
  <2>3. left' \in [Threads \cup {NoReq} -> SUBSET Cells]
    BY <1>13, <2>1 DEF Copy, TypeOK, Threads
  <2>4. doing' \in [Workers -> {"idle", "copy", "lock", "header", "data"}]
    BY <1>13 DEF Copy, TypeOK
  <2> QED BY <1>13, <2>2, <2>3, <2>4 DEF Copy, kernelVars, mainVars, poolVars, TypeOK
<1>14. ASSUME NEW w \in Workers, SendReply(w) PROVE TypeOK'
  BY <1>14 DEF SendReply, LockGuard, kernelVars, mainVars, dataVars, poolVars, TypeOK, Threads
<1>15. ASSUME NEW w \in Workers, WriteHeader(w) PROVE TypeOK'
  <2>1. /\ running[w] \in Reqs /\ Header(running[w]) \in Unit /\ HasRoom(toKernel)
        /\ toKernel' = Append(toKernel, Header(running[w]))
    BY <1>15 DEF WriteHeader, Doing, Busy, TypeOK, Header, Unit
  <2>2. left' \in [Threads \cup {NoReq} -> SUBSET Cells]
    <3>1. Span[running[w]] \subseteq Cells
      BY <2>1, ServerAssumption
    <3>2. left' = left \/ left' = [left EXCEPT ![w] = Span[running[w]]]
      BY <1>15 DEF WriteHeader
    <3> QED BY <3>1, <3>2 DEF TypeOK, Threads
  <2>6. toKernel' \in Seq(Unit) /\ Len(toKernel') <= Capacity
    BY <1>15, <2>1, ServerAssumption DEF HasRoom, TypeOK
  <2>7. /\ doing' \in [Workers -> {"idle", "copy", "lock", "header", "data"}]
        /\ m_mutex' \in Threads \cup {NoReq} /\ running' \in [Workers -> Reqs \cup {NoReq}]
        /\ pending' \subseteq Reqs /\ finished' \subseteq Reqs
    BY <1>15, <2>1 DEF WriteHeader, EndReply, Pool!Finish, poolVars, TypeOK
  <2> QED BY <1>15, <2>2, <2>6, <2>7 DEF WriteHeader, kernelVars, mainVars, dataVars, TypeOK
<1>16. ASSUME NEW w \in Workers, WriteData(w) PROVE TypeOK'
  <2>1. /\ running[w] \in Reqs /\ Data(running[w], m_buffer[running[w]][First(left[w])]) \in Unit /\ HasRoom(toKernel)
        /\ toKernel' = Append(toKernel, Data(running[w], m_buffer[running[w]][First(left[w])]))
    BY <1>16, WriteDataUnit DEF WriteData
  <2>2. left' \in [Threads \cup {NoReq} -> SUBSET Cells]
    BY <1>16 DEF WriteData, TypeOK, Threads
  <2>6. toKernel' \in Seq(Unit) /\ Len(toKernel') <= Capacity
    BY <1>16, <2>1, ServerAssumption DEF HasRoom, TypeOK
  <2>7. /\ doing' \in [Workers -> {"idle", "copy", "lock", "header", "data"}]
        /\ m_mutex' \in Threads \cup {NoReq} /\ running' \in [Workers -> Reqs \cup {NoReq}]
        /\ pending' \subseteq Reqs /\ finished' \subseteq Reqs
    BY <1>16, <2>1 DEF WriteData, EndReply, Pool!Finish, poolVars, TypeOK
  <2> QED BY <1>16, <2>2, <2>6, <2>7 DEF WriteData, kernelVars, mainVars, dataVars, TypeOK
<1>17. ASSUME NEW w \in Workers, WriteFails(w) PROVE TypeOK'
  BY <1>17 DEF WriteFails, kernelVars, mainVars, dataVars, poolVars, TypeOK
<1> QED BY <1>1, <1>2, <1>3, <1>4, <1>5, <1>6, <1>7, <1>8, <1>9, <1>10, <1>11, <1>12, <1>13,
           <1>14, <1>15, <1>16, <1>17 DEF Next, Kernel, Main, Worker

\* The stream of replies stays a sequence of whole replies, with data not too old.
LEMMA RepliesDueKept ==
    TypeOK /\ Mutex /\ Busy /\ Placed /\ RepliesPlaced /\ CopiedCurrent /\ RepliesDue /\ [Next]_vars
      => RepliesDue'
<1> SUFFICES ASSUME TypeOK, Mutex, Busy, Placed, RepliesPlaced, CopiedCurrent, RepliesDue, [Next]_vars PROVE RepliesDue'
    OBVIOUS
<1>0. Grown
  BY Grows
<1>1. CASE UNCHANGED vars
  <2>1. UNCHANGED <<toKernel, replying>> /\ left'[NoReq] = left[NoReq]
    BY <1>1 DEF vars, kernelVars
  <2>2. \A v \in Workers :
          /\ Writing(v)' <=> Writing(v)
          /\ Writing(v) => left'[v] = left[v] /\ running'[v] = running[v]
    BY <1>1 DEF vars, threadVars, poolVars, Writing
  <2> QED BY <2>1, <2>2, <1>0, DueStays
<1>2. ASSUME NEW h \in Reqs, Issue(h) PROVE RepliesDue'
  <2>1. UNCHANGED <<toKernel, replying>> /\ left'[NoReq] = left[NoReq]
    BY <1>2 DEF Issue
  <2>2. \A v \in Workers :
          /\ Writing(v)' <=> Writing(v)
          /\ Writing(v) => left'[v] = left[v] /\ running'[v] = running[v]
    BY <1>2 DEF Issue, threadVars, poolVars, Writing
  <2> QED BY <2>1, <2>2, <1>0, DueStays
<1>3. CASE HangUp \/ MainFails
  <2>1. UNCHANGED <<toKernel, replying>> /\ left'[NoReq] = left[NoReq]
    BY <1>3 DEF HangUp, MainFails, kernelVars
  <2>2. \A v \in Workers :
          /\ Writing(v)' <=> Writing(v)
          /\ Writing(v) => left'[v] = left[v] /\ running'[v] = running[v]
    BY <1>3 DEF HangUp, MainFails, kernelVars, threadVars, poolVars, Writing
  <2> QED BY <2>1, <2>2, <1>0, DueStays
<1>4. CASE Transmit
  <2>1. UNCHANGED <<toKernel, replying>> /\ left'[NoReq] = left[NoReq]
    BY <1>4 DEF Transmit
  <2>2. \A v \in Workers :
          /\ Writing(v)' <=> Writing(v)
          /\ Writing(v) => left'[v] = left[v] /\ running'[v] = running[v]
    BY <1>4 DEF Transmit, threadVars, poolVars, Writing
  <2> QED BY <2>1, <2>2, <1>0, DueStays
<1>5. CASE ReceiveHeader
  <2> DEFINE h == Head(toKernel).req
  <2>1. /\ replying = NoReq /\ toKernel # <<>> /\ toKernel' = Tail(toKernel)
        /\ UNCHANGED <<before, issued, m_mutex, doing, running>>
        /\ IF Kind[h] = "READ" THEN replying' = h /\ left' = [left EXCEPT ![NoReq] = Span[h]]
                              ELSE left' = left
    BY <1>5 DEF ReceiveHeader, threadVars, poolVars
  <2>2. Len(toKernel) \in Nat /\ Len(toKernel) # 0 /\ toKernel[1].req = h /\ toKernel[1].part = "header"
    BY <2>1, ReplyRead, NextReply
  <2>3. PICK due \in [1 .. Len(toKernel) + 1 -> SUBSET Cells] : Due(due)
    BY DEF RepliesDue
  <2> HIDE DEF h
  <2>4. left[NoReq] = {}
    BY <2>1 DEF Busy
  <2>5. due[2] = DataCells(h)
    <3>1. 1 \in 1 .. Len(toKernel) /\ 1 + 1 = 2
      BY <2>2
    <3> QED BY <2>2, <2>3, <3>1 DEF Due
  <2>6. left'[NoReq] = due[2] /\ \A v \in Workers : left'[v] = left[v]
    BY <2>1, <2>4, <2>5, ServerAssumption DEF DataCells, TypeOK, Threads
  <2>7. due[2] # {} => replying' = toKernel[1].req
    BY <2>1, <2>2, <2>5 DEF DataCells
  <2> QED BY <2>1, <2>3, <2>6, <2>7, DueRead
<1>6. CASE ReceiveData
  <2>1. /\ replying # NoReq /\ toKernel # <<>> /\ toKernel' = Tail(toKernel)
        /\ UNCHANGED <<before, issued, m_mutex, doing, running>>
        /\ left' = [left EXCEPT ![NoReq] = left[NoReq] \ {First(left[NoReq])}]
        /\ left'[NoReq] # {} => replying' = replying
    BY <1>6 DEF ReceiveData, threadVars, poolVars
  <2>2. Len(toKernel) \in Nat /\ Len(toKernel) # 0 /\ toKernel[1].req = replying /\ toKernel[1].part = "data"
    BY <2>1, ReplyRead, NextReply
  <2>3. PICK due \in [1 .. Len(toKernel) + 1 -> SUBSET Cells] : Due(due)
    BY DEF RepliesDue
  <2>4. due[2] = left[NoReq] \ {First(left[NoReq])}
    <3>1. 1 \in 1 .. Len(toKernel) /\ 1 + 1 = 2
      BY <2>2
    <3> QED BY <2>2, <2>3, <3>1 DEF Due
  <2>5. left'[NoReq] = due[2] /\ \A v \in Workers : left'[v] = left[v]
    BY <2>1, <2>4, ServerAssumption DEF TypeOK, Threads
  <2>6. due[2] # {} => replying' = toKernel[1].req
    BY <2>1, <2>2, <2>5
  <2> QED BY <2>1, <2>3, <2>5, <2>6, DueRead
<1>7. CASE Select
  <2>1. UNCHANGED <<toKernel, replying>> /\ left'[NoReq] = left[NoReq]
    BY <1>7 DEF Select, kernelVars
  <2>2. \A v \in Workers :
          /\ Writing(v)' <=> Writing(v)
          /\ Writing(v) => left'[v] = left[v] /\ running'[v] = running[v]
    BY <1>7 DEF Select, poolVars, Writing
  <2> QED BY <2>1, <2>2, <1>0, DueStays
<1>8. CASE RecvRequest
  <2>1. UNCHANGED <<toKernel, replying>> /\ left'[NoReq] = left[NoReq]
    BY <1>8 DEF RecvRequest, kernelVars
  <2>2. \A v \in Workers :
          /\ Writing(v)' <=> Writing(v)
          /\ Writing(v) => left'[v] = left[v] /\ running'[v] = running[v]
    BY <1>8, ServerAssumption DEF RecvRequest, LockGuard, Writing
  <2> QED BY <2>1, <2>2, <1>0, DueStays
<1>9. CASE ReadHeader
  <2>1. UNCHANGED <<toKernel, replying>> /\ left'[NoReq] = left[NoReq]
    BY <1>9, ServerAssumption DEF ReadHeader, kernelVars
  <2>2. \A v \in Workers :
          /\ Writing(v)' <=> Writing(v)
          /\ Writing(v) => left'[v] = left[v] /\ running'[v] = running[v]
    BY <1>9, ServerAssumption DEF ReadHeader, MainAt, Writing, Mutex
  <2> QED BY <2>1, <2>2, <1>0, DueStays
<1>10. CASE ReadPayload
  <2>1. UNCHANGED <<toKernel, replying>> /\ left'[NoReq] = left[NoReq]
    BY <1>10, ServerAssumption DEF ReadPayload, kernelVars
  <2>2. \A v \in Workers :
          /\ Writing(v)' <=> Writing(v)
          /\ Writing(v) => left'[v] = left[v] /\ running'[v] = running[v]
    BY <1>10, ServerAssumption DEF ReadPayload, MainAt, Writing, Mutex
  <2> QED BY <2>1, <2>2, <1>0, DueStays
<1>11. CASE Submit
  <2>1. UNCHANGED <<toKernel, replying>> /\ left'[NoReq] = left[NoReq]
    BY <1>11 DEF Submit, kernelVars
  <2>2. \A v \in Workers :
          /\ Writing(v)' <=> Writing(v)
          /\ Writing(v) => left'[v] = left[v] /\ running'[v] = running[v]
    BY <1>11 DEF Submit, Pool!Submit, Writing
  <2> QED BY <2>1, <2>2, <1>0, DueStays
<1>12. ASSUME NEW w \in Workers, Start(w) PROVE RepliesDue'
  <2>1. UNCHANGED <<toKernel, replying>> /\ left'[NoReq] = left[NoReq]
    BY <1>12, ServerAssumption DEF Start, kernelVars
  <2>2. \A v \in Workers :
          /\ Writing(v)' <=> Writing(v)
          /\ Writing(v) => left'[v] = left[v] /\ running'[v] = running[v]
    BY <1>12 DEF Start, Pool!Start, Writing, Mutex, Busy
  <2> QED BY <2>1, <2>2, <1>0, DueStays
<1>13. ASSUME NEW w \in Workers, Copy(w) PROVE RepliesDue'
  <2>1. UNCHANGED <<toKernel, replying>> /\ left'[NoReq] = left[NoReq]
    BY <1>13, ServerAssumption DEF Copy, kernelVars
  <2>2. \A v \in Workers :
          /\ Writing(v)' <=> Writing(v)
          /\ Writing(v) => left'[v] = left[v] /\ running'[v] = running[v]
    BY <1>13 DEF Copy, Doing, poolVars, Writing
  <2> QED BY <2>1, <2>2, <1>0, DueStays
<1>14. ASSUME NEW w \in Workers, SendReply(w) PROVE RepliesDue'
  <2>1. UNCHANGED <<toKernel, replying>> /\ left'[NoReq] = left[NoReq]
    BY <1>14 DEF SendReply, kernelVars
  <2>2. \A v \in Workers :
          /\ Writing(v)' <=> Writing(v)
          /\ Writing(v) => left'[v] = left[v] /\ running'[v] = running[v]
    BY <1>14, ServerAssumption DEF SendReply, LockGuard, Writing, Mutex
  <2> QED BY <2>1, <2>2, <1>0, DueStays
<1>15. ASSUME NEW w \in Workers, WriteHeader(w) PROVE RepliesDue'
  <2>1. /\ doing[w] = "header" /\ running[w] \in Reqs /\ m_mutex = w
        /\ UNCHANGED <<before, issued, replying>>
        /\ toKernel' = Append(toKernel, Header(running[w]))
        /\ IF Kind[running[w]] = "READ"
             THEN /\ doing' = [doing EXCEPT ![w] = "data"] /\ UNCHANGED <<m_mutex, running>>
                  /\ left' = [left EXCEPT ![w] = Span[running[w]]]
             ELSE m_mutex' = NoReq /\ left' = left
    BY <1>15 DEF WriteHeader, Doing, EndReply, kernelVars, poolVars, Busy, Mutex, TypeOK
  <2>2. PICK u \in Unit : u = Header(running[w])
    BY <2>1 DEF Header, Unit
  <2>3. u.part = "header" /\ u.req = running[w]
    BY <2>2 DEF Header
  <2>4. PICK rest \in SUBSET Cells : rest = DataCells(u.req)
    BY <2>1, <2>3, ServerAssumption DEF DataCells
  <2>5. PICK due \in [1 .. Len(toKernel) + 1 -> SUBSET Cells] : Due(due)
    BY DEF RepliesDue
  <2>6. \A v \in Workers : ~Writing(v)
    BY <2>1 DEF Writing
  <2>7. due[Len(toKernel) + 1] = {}
    BY <2>5, <2>6 DEF Due
  <2>8. /\ \A v \in Workers : Writing(v)' => left'[v] = rest /\ running'[v] = u.req
        /\ (\A v \in Workers : ~Writing(v)') => rest = {}
    BY <1>15, <2>1, <2>3, <2>4, ServerAssumption DEF Writing, DataCells, TypeOK
  <2>9. left'[NoReq] = left[NoReq]
    BY <1>15, <2>1, ServerAssumption DEF TypeOK, Threads
  <2> QED BY <2>1, <2>2, <2>3, <2>4, <2>5, <2>7, <2>8, <2>9, DueWritten
<1>16. ASSUME NEW w \in Workers, WriteData(w) PROVE RepliesDue'
  <2> DEFINE h == running[w]
           c == First(left[w])
  <2>1. /\ doing[w] = "data" /\ m_mutex = w /\ left[w] # {}
        /\ UNCHANGED <<before, issued, replying>>
        /\ left' = [left EXCEPT ![w] = left[w] \ {c}]
        /\ IF left'[w] = {} THEN m_mutex' = NoReq ELSE UNCHANGED <<m_mutex, doing, running>>
    BY <1>16 DEF WriteData, Doing, EndReply, kernelVars, poolVars, Busy, Mutex
  <2>2. /\ h \in Reqs /\ c \in left[w] /\ left[w] \subseteq Cells
        /\ Data(h, m_buffer[h][c]) \in Unit /\ toKernel' = Append(toKernel, Data(h, m_buffer[h][c]))
    BY <1>16, WriteDataUnit
  <2>3. PICK u \in Unit : u = Data(h, m_buffer[h][c])
    BY <2>2
  <2>4. u.part = "data" /\ u.req = h /\ u.value = m_buffer[h][c]
    BY <2>3 DEF Data
  <2>5. PICK due \in [1 .. Len(toKernel) + 1 -> SUBSET Cells] : Due(due)
    BY DEF RepliesDue
  <2>6. Writing(w)
    BY <2>1 DEF Writing
  <2>7. due[Len(toKernel) + 1] = left[w] /\ h = ReplyAfter(Len(toKernel))
    BY <1>16, <2>5, <2>6 DEF Due
  <2>8. Kind[h] = "READ" /\ c \in Span[h] /\ Past(h, c)
    BY <1>16, <2>1, <2>2 DEF Busy, Past
  <2>9. Current(m_buffer[h][c], c, before[h])
    BY <2>2, <2>8 DEF CopiedCurrent
  <2>10. h \in issued
    BY <1>16, <2>2, ServerAssumption DEF Placed, InPool, Pool!Running
  <2>11. PICK rest \in SUBSET Cells : rest = left[w] \ {c}
    BY <2>2
  <2>12. left'[w] = rest /\ left'[NoReq] = left[NoReq]
    BY <1>16, <2>1, <2>11, ServerAssumption DEF TypeOK, Threads
  <2> HIDE DEF h
  <2>13. /\ \A v \in Workers : Writing(v)' => left'[v] = rest /\ running'[v] = u.req
         /\ (\A v \in Workers : ~Writing(v)') => rest = {}
    <3>1. CASE rest = {}
      <4>1. \A v \in Workers : ~Writing(v)'
        BY <2>1, <2>12, <3>1, ServerAssumption DEF Writing
      <4> QED BY <3>1, <4>1
    <3>2. CASE rest # {}
      <4>1. UNCHANGED <<m_mutex, doing, running>>
        BY <2>1, <2>12, <3>2
      <4>2. Writing(w)' /\ \A v \in Workers : Writing(v)' => v = w
        BY <2>1, <2>6, <4>1 DEF Writing
      <4> QED BY <1>16, <2>4, <2>12, <4>1, <4>2 DEF h
    <3> QED BY <3>1, <3>2
  <2>14. due[Len(toKernel) + 1] # {} /\ rest = due[Len(toKernel) + 1] \ {First(due[Len(toKernel) + 1])}
    BY <2>1, <2>7, <2>11
  <2>15. u.part # "header"
    BY <2>4
  <2>16. /\ u.req = ReplyAfter(Len(toKernel)) /\ u.req \in issued
         /\ Current(u.value, First(due[Len(toKernel) + 1]), before[u.req])
    BY <2>4, <2>7, <2>9, <2>10
  <2>17. toKernel' = Append(toKernel, u)
    BY <2>2, <2>3
  <2> HIDE DEF c
  <2> QED BY <2>1, <2>5, <2>12, <2>13, <2>14, <2>15, <2>16, <2>17, DueWritten
<1>17. ASSUME NEW w \in Workers, WriteFails(w) PROVE RepliesDue'
  <2>1. UNCHANGED <<toKernel, replying>> /\ left'[NoReq] = left[NoReq]
    BY <1>17 DEF WriteFails, kernelVars
  <2>2. \A v \in Workers :
          /\ Writing(v)' <=> Writing(v)
          /\ Writing(v) => left'[v] = left[v] /\ running'[v] = running[v]
    BY <1>17 DEF WriteFails, poolVars, Writing
  <2> QED BY <2>1, <2>2, <1>0, DueStays
<1> QED BY <1>1, <1>2, <1>3, <1>4, <1>5, <1>6, <1>7, <1>8, <1>9, <1>10, <1>11, <1>12, <1>13,
           <1>14, <1>15, <1>16, <1>17 DEF Next, Kernel, Main, Worker

\* The buffer of a WRITE is whole before a worker can see it, and nobody else writes to it.
LEMMA LoadedKept == TypeOK /\ Busy /\ RequestsFramed /\ Placed /\ Loaded /\ [Next]_vars => Loaded'
<1> SUFFICES ASSUME TypeOK, Busy, RequestsFramed, Placed, Loaded, [Next]_vars PROVE Loaded'
    OBVIOUS
<1>1. CASE UNCHANGED <<m_buffer, current, reactor, left, pending, running, finished>>
  BY <1>1 DEF Loaded, InPool, Pool!Running
<1>2. CASE ReceiveHeader
  <2>1. UNCHANGED <<m_buffer, current, reactor, pending, running, finished>> /\ left'[Reactor] = left[Reactor]
    BY <1>2, ServerAssumption DEF ReceiveHeader, threadVars, mainVars, dataVars, poolVars,
       TypeOK, Threads
  <2> QED BY <2>1 DEF Loaded, InPool, Pool!Running
<1>3. CASE ReceiveData
  <2>1. UNCHANGED <<m_buffer, current, reactor, pending, running, finished>> /\ left'[Reactor] = left[Reactor]
    BY <1>3, ServerAssumption DEF ReceiveData, threadVars, mainVars, dataVars, poolVars
  <2> QED BY <2>1 DEF Loaded, InPool, Pool!Running
<1>4. CASE Select
  <2>1. UNCHANGED <<m_buffer, current, left, pending, running, finished>> /\ reactor # "payload"
    BY <1>4 DEF Select, MainAt, dataVars, poolVars
  <2>2. current = NoReq
    BY <1>4 DEF Select, MainAt, Busy
  <2>3. InPool' = InPool
    BY <2>1 DEF InPool, Pool!Running
  <2>4. \A h \in Reqs : h # current
    BY <2>2, ServerAssumption
  <2> QED BY <2>1, <2>3, <2>4 DEF Loaded
<1>5. CASE RecvRequest
  <2>1. UNCHANGED <<m_buffer, current, left, pending, running, finished>> /\ reactor # "payload"
    BY <1>5 DEF RecvRequest, MainAt, dataVars, poolVars
  <2>2. current = NoReq
    BY <1>5 DEF RecvRequest, MainAt, Busy
  <2>3. InPool' = InPool
    BY <2>1 DEF InPool, Pool!Running
  <2>4. \A h \in Reqs : h # current
    BY <2>2, ServerAssumption
  <2> QED BY <2>1, <2>3, <2>4 DEF Loaded
<1>6. CASE ReadHeader
  <2>1. /\ reactor = "header" /\ m_buffer' = m_buffer /\ current' = Head(toApp).req
        /\ left' = [left EXCEPT ![Reactor] = IF Kind[current'] = "WRITE" THEN Span[current'] ELSE {}]
        /\ Kind[current'] = "WRITE" => reactor' = "payload"
    BY <1>6 DEF ReadHeader, MainAt, dataVars
  <2>2. InPool' = InPool
    BY <1>6 DEF ReadHeader, poolVars, InPool, Pool!Running
  <2>3. \A c \in Cells : Covers(current', c) => reactor' = "payload" /\ c \in left'[Reactor]
    BY <2>1 DEF Covers, TypeOK, Threads
  <2> QED BY <2>1, <2>2, <2>3 DEF Loaded
<1>7. CASE ReadPayload
  <2> DEFINE first == First(left[Reactor])
  <2>1. /\ reactor = "payload" /\ current' = current /\ toApp # <<>> /\ toApp' = Tail(toApp) /\ outbox' = outbox
        /\ left' = [left EXCEPT ![Reactor] = left[Reactor] \ {first}]
        /\ m_buffer' = [m_buffer EXCEPT ![current][first] = Head(toApp).req]
        /\ reactor' = "payload" \/ left'[Reactor] = {}
    BY <1>7 DEF ReadPayload, MainAt, kernelVars
  <2>2. Head(toApp).req = current
    BY <2>1, InRead, NextRequest
  <2>3. /\ current \in Reqs /\ first \in Cells /\ current \notin InPool /\ current # NoReq
    BY <2>1, FirstIsOne DEF Busy, Placed, TypeOK, Threads
  <2>4. InPool' = InPool
    BY <1>7 DEF ReadPayload, poolVars, InPool, Pool!Running
  <2> HIDE DEF first
  <2>5. \A h \in Reqs, c \in Cells :
          m_buffer'[h][c] = IF h = current /\ c = first THEN current ELSE m_buffer[h][c]
    <3> TAKE h \in Reqs, c \in Cells
    <3>1. m_buffer[h] \in [Cells -> Reqs \cup {Zero}]
      BY DEF TypeOK
    <3> QED BY <2>1, <2>2, <2>3, <3>1 DEF TypeOK
  <2>6. left'[Reactor] = left[Reactor] \ {first}
    BY <2>1 DEF TypeOK, Threads
  <2>7. ASSUME NEW h \in Reqs, NEW c \in Cells, Covers(h, c),
               h \in InPool \/ (h = current /\ ~(reactor' = "payload" /\ c \in left'[Reactor]))
        PROVE  m_buffer'[h][c] = h
    <3>1. CASE h = current /\ c = first
      BY <2>5, <3>1
    <3>2. CASE ~(h = current /\ c = first)
      <4>1. m_buffer'[h][c] = m_buffer[h][c]
        BY <2>5, <3>2
      <4>2. h \in InPool \/ c \notin left[Reactor]
        BY <2>1, <2>6, <2>7, <3>2
      <4> QED BY <2>7, <4>1, <4>2 DEF Loaded
    <3> QED BY <3>1, <3>2
  <2> QED BY <2>1, <2>4, <2>7 DEF Loaded
<1>8. CASE Submit
  <2>1. /\ reactor = "submit" /\ Pool!Submit(current) /\ current' = NoReq /\ m_buffer' = m_buffer
    BY <1>8 DEF Submit, MainAt, dataVars
  <2>2. current \in Reqs /\ current # NoReq
    BY <2>1 DEF Busy, TypeOK
  <2>3. InPool' = InPool \cup {current}
    BY <2>1, <2>2, PoolSubmits DEF Placed
  <2> QED BY <2>1, <2>2, <2>3, ServerAssumption DEF Loaded
<1>9. ASSUME NEW w \in Workers, Start(w) PROVE Loaded'
  <2>1. \E h \in Reqs : Pool!Start(w, h)
    BY <1>9 DEF Start
  <2>2. InPool' = InPool
    BY <2>1, PoolStarts DEF Placed
  <2>3. UNCHANGED <<current, reactor, m_buffer>> /\ left'[Reactor] = left[Reactor]
    BY <1>9, ServerAssumption DEF Start, mainVars, dataVars
  <2> QED BY <2>2, <2>3 DEF Loaded
<1>10. ASSUME NEW w \in Workers, Copy(w) PROVE Loaded'
  <2>1. UNCHANGED <<current, reactor, pending, running, finished>> /\ left'[Reactor] = left[Reactor]
    BY <1>10, ServerAssumption DEF Copy, mainVars, poolVars
  <2>2. InPool' = InPool
    BY <2>1 DEF InPool, Pool!Running
  <2>3. ASSUME NEW h \in Reqs, NEW c \in Cells, Kind[h] = "WRITE" PROVE m_buffer'[h][c] = m_buffer[h][c]
    <3>1. m_buffer' = m_buffer \/ (Kind[running[w]] = "READ"
             /\ m_buffer' = [m_buffer EXCEPT ![running[w]] = [@ EXCEPT ![First(left[w])] = storage[First(left[w])]]])
      BY <1>10 DEF Copy
    <3> QED BY <2>3, <3>1 DEF TypeOK
  <2> QED BY <2>1, <2>2, <2>3 DEF Loaded, Covers
<1>11. ASSUME NEW w \in Workers, WriteHeader(w) PROVE Loaded'
  <2>1. UNCHANGED poolVars \/ Pool!Finish(w)
    BY <1>11 DEF WriteHeader, EndReply
  <2>2. InPool' = InPool
    BY <2>1, PoolFinishes DEF Placed, InPool, Pool!Running, poolVars
  <2>3. UNCHANGED <<current, reactor, m_buffer>> /\ left'[Reactor] = left[Reactor]
    BY <1>11, ServerAssumption DEF WriteHeader, mainVars, dataVars, TypeOK, Threads
  <2> QED BY <2>2, <2>3 DEF Loaded
<1>12. ASSUME NEW w \in Workers, WriteData(w) PROVE Loaded'
  <2>1. UNCHANGED poolVars \/ Pool!Finish(w)
    BY <1>12 DEF WriteData, EndReply
  <2>2. InPool' = InPool
    BY <2>1, PoolFinishes DEF Placed, InPool, Pool!Running, poolVars
  <2>3. UNCHANGED <<current, reactor, m_buffer>> /\ left'[Reactor] = left[Reactor]
    BY <1>12, ServerAssumption DEF WriteData, mainVars, dataVars
  <2> QED BY <2>2, <2>3 DEF Loaded
<1> QED BY <1>1, <1>2, <1>3, <1>4, <1>5, <1>6, <1>7, <1>8, <1>9, <1>10, <1>11, <1>12
        DEF Next, Kernel, Main, Worker, vars, threadVars, mainVars, dataVars, poolVars, Issue,
            HangUp, MainFails, Transmit, SendReply, WriteFails

\* What a worker copies is not too old for the request it copies for.
LEMMA CopyOf ==
    ASSUME TypeOK, Busy, Placed, RepliesPlaced, Loaded, NEW w \in Workers, Copy(w)
    PROVE  LET h == running[w]
               c == First(left[w]) IN
           /\ h \in issued /\ h \in Reqs /\ h \notin answered /\ c \in Cells /\ c \in Span[h] /\ ~Past(h, c)
           /\ IF Kind[h] = "READ"
                THEN m_buffer' = [m_buffer EXCEPT ![h][c] = storage[c]] /\ storage' = storage
                ELSE /\ storage' = [storage EXCEPT ![c] = h] /\ m_buffer' = m_buffer
                     /\ Covers(h, c)
<1> DEFINE h == running[w]
           c == First(left[w])
<1>1. doing[w] = "copy" /\ h \in Reqs /\ h # NoReq /\ left[w] # {} /\ left[w] \subseteq Span[h] /\ left[w] \subseteq Cells
  BY DEF Copy, Doing, Busy, TypeOK, Threads
<1>2. c \in left[w]
  BY <1>1, FirstIsOne
<1>3. h \in InPool
  BY <1>1 DEF InPool, Pool!Running
<1>4. h \in issued
  BY <1>3 DEF Placed
<1>5. h \notin finished /\ \A v \in Workers : running[v] = h => v = w
  BY <1>1 DEF Placed, Pool!OnePlace, Pool!Running
<1>6. ~Past(h, c)
  BY <1>1, <1>2, <1>5 DEF Past
<1>7. h \notin answered
  BY <1>1, <1>2, <1>6, AnsweredIsPast
<1>8. Kind[h] # "READ" => Covers(h, c)
  BY <1>1, <1>2, ServerAssumption DEF Covers
<1>9. IF Kind[h] = "READ"
        THEN m_buffer' = [m_buffer EXCEPT ![h][c] = storage[c]] /\ storage' = storage
        ELSE storage' = [storage EXCEPT ![c] = m_buffer[h][c]] /\ m_buffer' = m_buffer
  BY DEF Copy
<1>10. Kind[h] # "READ" => m_buffer[h][c] = h
  BY <1>1, <1>2, <1>3, <1>8 DEF Loaded
<1> HIDE DEF h, c
<1>11. c \in Cells /\ c \in Span[h]
  BY <1>1, <1>2
<1> QED BY <1>1, <1>4, <1>6, <1>7, <1>8, <1>9, <1>10, <1>11 DEF h, c

\* The cells stay as current as the copies into them.
LEMMA StoredCurrentKept ==
    TypeOK /\ Busy /\ Placed /\ RepliesPlaced /\ Loaded /\ StoredCurrent /\ [Next]_vars => StoredCurrent'
<1> SUFFICES ASSUME TypeOK, Busy, Placed, RepliesPlaced, Loaded, StoredCurrent, [Next]_vars, NEW c \in Cells
             PROVE  Current(storage[c], c, {x \in Reqs : Past(x, c)})'
    BY DEF StoredCurrent
<1>1. Grown /\ CopiesOnly
  BY Grows, PastByCopies
<1>2. /\ storage[c] = Zero \/ (storage[c] \in issued /\ Covers(storage[c], c))
      /\ \A x \in Reqs : Past(x, c) /\ Covers(x, c) => storage[c] # Zero /\ (storage[c] \in before[x] => storage[c] = x)
  BY DEF StoredCurrent, Current
<1>3. \A x \in Reqs : Past(x, c) => x \in issued /\ before'[x] = before[x]
  BY <1>1, PastInPool DEF Placed, Grown
<1>4. \A h \in Reqs : before[h] \subseteq answered
  BY DEF RepliesPlaced
<1>5. CASE \E w \in Workers : Copy(w) /\ Kind[running[w]] # "READ" /\ c = First(left[w])
  <2>1. PICK w \in Workers : Copy(w) /\ Kind[running[w]] # "READ" /\ c = First(left[w])
    BY <1>5
  <2>2. PICK h \in Reqs : h = running[w]
    BY <2>1, CopyOf
  <2>3. h \in issued /\ h \notin answered /\ Covers(h, c) /\ storage' = [storage EXCEPT ![c] = h]
    BY <2>1, <2>2, CopyOf
  <2>4. storage'[c] = h
    BY <2>3 DEF TypeOK
  <2>5. UNCHANGED <<issued, before>>
    BY <2>1 DEF Copy, kernelVars
  <2>6. h # Zero /\ \A x \in Reqs : h \notin before'[x]
    BY <1>4, <2>3, <2>5, ServerAssumption
  <2> QED BY <2>3, <2>4, <2>5, <2>6 DEF Current
<1>6. CASE ~\E w \in Workers : Copy(w) /\ Kind[running[w]] # "READ" /\ c = First(left[w])
  <2>1. storage'[c] = storage[c]
    <3>1. CASE storage' = storage
      BY <3>1
    <3>2. CASE storage' # storage
      <4>1. PICK w \in Workers : Copy(w)
        BY <3>2
        DEF Next, vars, kernelVars, dataVars, threadVars, Issue, HangUp, MainFails, Kernel, Transmit,
            ReceiveHeader, ReceiveData,
            Main, Select, RecvRequest, ReadHeader, ReadPayload, Submit, Worker, Start,
            SendReply, WriteHeader,
            WriteData, WriteFails
      <4>2. Kind[running[w]] # "READ" /\ storage' = [storage EXCEPT ![First(left[w])] = running[w]]
        BY <3>2, <4>1, CopyOf
      <4> QED BY <1>6, <4>1, <4>2 DEF TypeOK
    <3> QED BY <3>1, <3>2
  <2>2. ASSUME NEW x \in Reqs, Past(x, c)', Covers(x, c) PROVE Past(x, c)
    BY <1>1, <1>6, <2>2 DEF CopiesOnly, Covers
  <2>3. storage'[c] = Zero \/ (storage'[c] \in issued' /\ Covers(storage'[c], c))
    BY <1>1, <1>2, <2>1 DEF Grown
  <2>4. ASSUME NEW x \in Reqs, Past(x, c)', Covers(x, c)
        PROVE  storage'[c] # Zero /\ (storage'[c] \in before'[x] => storage'[c] = x)
    BY <1>2, <1>3, <2>1, <2>2, <2>4
  <2> QED BY <2>3, <2>4 DEF Current
<1> QED BY <1>5, <1>6

\* What a READ has in its buffer stays current, and what it copies is.
LEMMA CopiedCurrentKept ==
    TypeOK /\ Busy /\ Placed /\ RepliesPlaced /\ Loaded /\ StoredCurrent /\ CopiedCurrent /\ [Next]_vars => CopiedCurrent'
<1> SUFFICES ASSUME TypeOK, Busy, Placed, RepliesPlaced, Loaded, StoredCurrent, CopiedCurrent, [Next]_vars,
                    NEW h \in Reqs, NEW c \in Cells, Kind[h] = "READ", c \in Span[h], Past(h, c)'
             PROVE  Current(m_buffer[h][c], c, before[h])'
    BY DEF CopiedCurrent
<1>1. Grown /\ CopiesOnly
  BY Grows, PastByCopies
<1>2. answered \subseteq issued /\ issued \subseteq Reqs
  BY DEF TypeOK
<1>3. CASE Past(h, c)
  <2>1. h \in issued /\ h \in InPool
    BY <1>3, PastInPool DEF Placed
  <2>2. Current(m_buffer[h][c], c, before[h])
    BY <1>3 DEF CopiedCurrent
  <2>3. /\ m_buffer[h][c] = Zero \/ (m_buffer[h][c] \in issued' /\ Covers(m_buffer[h][c], c))
        /\ \A x \in before'[h] : Covers(x, c) => m_buffer[h][c] # Zero /\ (m_buffer[h][c] \in before'[x] => m_buffer[h][c] = x)
    BY <1>1, <1>2, <2>1, <2>2, StaysCurrent
  <2>4. m_buffer'[h][c] = m_buffer[h][c]
    <3>1. CASE UNCHANGED m_buffer
      BY <3>1
    <3>2. CASE ReadPayload
      <4>1. current # h
        BY <2>1, <3>2 DEF ReadPayload, MainAt, Busy
      <4>2. m_buffer' = [m_buffer EXCEPT ![current] = [@ EXCEPT ![First(left[Reactor])] = Head(toApp).req]]
        BY <3>2 DEF ReadPayload
      <4> QED BY <4>1, <4>2 DEF TypeOK
    <3>3. ASSUME NEW w \in Workers, Copy(w) PROVE m_buffer'[h][c] = m_buffer[h][c]
      <4>1. \/ m_buffer' = m_buffer
            \/ m_buffer' = [m_buffer EXCEPT ![running[w]] = [@ EXCEPT ![First(left[w])] = storage[First(left[w])]]]
        BY <3>3 DEF Copy
      <4>2. running[w] # h \/ c # First(left[w])
        BY <1>3, <3>3, CopyOf
      <4>3. m_buffer[h] \in [Cells -> Reqs \cup {Zero}]
        BY DEF TypeOK
      <4> QED BY <4>1, <4>2, <4>3 DEF TypeOK
    <3> QED
      BY <3>1, <3>2, <3>3
      DEF Next, vars, kernelVars, dataVars, threadVars, Issue, HangUp, MainFails, Kernel, Transmit,
          ReceiveHeader, ReceiveData,
          Main, Select, RecvRequest, ReadHeader, Submit, Worker, Start, SendReply, WriteHeader,
          WriteData, WriteFails
  <2> QED BY <2>3, <2>4 DEF Current
<1>4. CASE ~Past(h, c)
  <2>1. PICK w \in Workers : Copy(w) /\ running[w] = h /\ c = First(left[w])
    BY <1>1, <1>4 DEF CopiesOnly
  <2>2. m_buffer' = [m_buffer EXCEPT ![h] = [@ EXCEPT ![c] = storage[c]]]
    BY <2>1, CopyOf
  <2>3. m_buffer'[h][c] = storage[c]
    <3>1. m_buffer[h] \in [Cells -> Reqs \cup {Zero}]
      BY DEF TypeOK
    <3> QED BY <2>2, <3>1 DEF TypeOK
  <2>4. UNCHANGED <<issued, before>>
    BY <2>1 DEF Copy, kernelVars
  <2>5. \A x \in before[h] : x \in Reqs /\ Past(x, c)
    BY <1>2, AnsweredIsPast DEF RepliesPlaced
  <2>6. /\ storage[c] = Zero \/ (storage[c] \in issued /\ Covers(storage[c], c))
        /\ \A x \in before[h] : Covers(x, c) => storage[c] # Zero /\ (storage[c] \in before[x] => storage[c] = x)
    BY <2>5 DEF StoredCurrent, Current
  <2> QED BY <2>3, <2>4, <2>6 DEF Current
<1> QED BY <1>3, <1>4

\* So does what the kernel has received.
LEMMA ArrivedCurrentKept ==
    TypeOK /\ Busy /\ Placed /\ RepliesPlaced /\ RepliesDue /\ ArrivedCurrent /\ [Next]_vars => ArrivedCurrent'
<1> SUFFICES ASSUME TypeOK, Busy, Placed, RepliesPlaced, RepliesDue, ArrivedCurrent, [Next]_vars,
                    NEW h \in Reqs, NEW c \in Cells, Kind[h] = "READ", c \in Span[h],
                    h \in answered' \/ (h = replying' /\ c \notin left'[NoReq])
             PROVE  Current(received[h][c], c, before[h])'
    BY DEF ArrivedCurrent
<1>1. Grown
  BY Grows
<1>2. answered \subseteq issued /\ issued \subseteq Reqs
  BY DEF TypeOK
<1>3. CASE (h \in answered \/ (h = replying /\ c \notin left[NoReq])) /\ received'[h][c] = received[h][c]
  <2>1. Replied \subseteq InPool
    BY DEF Replied, InPool, Pool!Running, Busy
  <2>2. h \in issued
    BY <1>2, <1>3, <2>1, ServerAssumption DEF RepliesPlaced, Placed
  <2>3. Current(received[h][c], c, before[h])
    BY <1>3 DEF ArrivedCurrent
  <2>4. /\ received[h][c] = Zero \/ (received[h][c] \in issued' /\ Covers(received[h][c], c))
        /\ \A x \in before'[h] : Covers(x, c) => received[h][c] # Zero /\ (received[h][c] \in before'[x] => received[h][c] = x)
    BY <1>1, <1>2, <2>2, <2>3, StaysCurrent
  <2> QED BY <1>3, <2>4 DEF Current
<1>4. CASE ReceiveHeader
  <2>1. received' = received
    BY <1>4 DEF ReceiveHeader
  <2>2. h \in answered
    <3> DEFINE g == Head(toKernel).req
    <3>1. /\ replying = NoReq
          /\ IF Kind[g] = "READ" THEN replying' = g /\ left' = [left EXCEPT ![NoReq] = Span[g]] /\ answered' = answered
                                 ELSE answered' = answered \cup {g} /\ replying' = replying
      BY <1>4 DEF ReceiveHeader
    <3>2. h # NoReq
      BY ServerAssumption
    <3>3. Kind[g] = "READ" => left'[NoReq] = Span[g]
      BY <3>1 DEF TypeOK
    <3> HIDE DEF g
    <3> QED BY <3>1, <3>2, <3>3
  <2> QED BY <1>3, <2>1, <2>2
<1>5. CASE ReceiveData
  <2> DEFINE first == First(left[NoReq])
  <2>1. /\ replying # NoReq /\ toKernel # <<>> /\ toKernel' = Tail(toKernel) /\ UNCHANGED <<issued, before>>
        /\ received' = [received EXCEPT ![replying] = [@ EXCEPT ![first] =
                           IF Head(toKernel).part = "data" THEN Head(toKernel).value ELSE Zero]]
        /\ left' = [left EXCEPT ![NoReq] = left[NoReq] \ {first}]
        /\ IF left'[NoReq] = {} THEN answered' = answered \cup {replying} /\ replying' = NoReq
             ELSE UNCHANGED <<answered, replying>>
    BY <1>5 DEF ReceiveData
  <2>2. /\ Head(toKernel).part = "data" /\ Current(Head(toKernel).value, first, before[replying])
    BY <2>1, ReplyRead, NextReply
  <2>3. left[NoReq] \subseteq Cells /\ left[NoReq] # {} /\ replying \in Reqs
    BY <2>1 DEF Busy, TypeOK
  <2>4. first \in left[NoReq] /\ first \in Cells
    BY <2>3, FirstIsOne
  <2> HIDE DEF first
  <2>5. left'[NoReq] = left[NoReq] \ {first}
    BY <2>1 DEF TypeOK
  <2>6. received[h] \in [Cells -> Reqs \cup {Zero}] /\ received[replying] \in [Cells -> Reqs \cup {Zero}]
    BY <2>3 DEF TypeOK
  <2>7. CASE h = replying /\ c = first
    <3>1. received'[h][c] = Head(toKernel).value
      BY <2>1, <2>2, <2>4, <2>6, <2>7 DEF TypeOK
    <3> QED BY <2>1, <2>2, <2>7, <3>1 DEF Current
  <2>8. CASE ~(h = replying /\ c = first)
    <3>1. received'[h][c] = received[h][c]
      BY <2>1, <2>3, <2>6, <2>8 DEF TypeOK
    <3>2. h \in answered \/ (h = replying /\ c \notin left[NoReq])
      BY <2>1, <2>5, <2>8, ServerAssumption
    <3> QED BY <1>3, <3>1, <3>2
  <2> QED BY <2>7, <2>8
<1>6. CASE UNCHANGED <<received, answered, replying, left[NoReq]>>
  BY <1>3, <1>6
<1>7. ReceiveHeader \/ ReceiveData \/ UNCHANGED <<received, answered, replying>>
  BY DEF Next, vars, kernelVars, Issue, HangUp, MainFails, Kernel, Transmit,
         Main, Select, RecvRequest, ReadHeader, ReadPayload, Submit, Worker, Start, Copy,
         SendReply, WriteHeader,
         WriteData, WriteFails
<1>8. ReceiveHeader \/ ReceiveData \/ left'[NoReq] = left[NoReq]
  BY ServerAssumption
     DEF Next, vars, kernelVars, threadVars, Issue, HangUp, MainFails, Kernel, Transmit, TypeOK, Threads,
         Main, Select, RecvRequest, ReadHeader, ReadPayload, Submit, Worker, Start, Copy,
         SendReply, WriteHeader,
         WriteData, WriteFails
<1> QED BY <1>4, <1>5, <1>6, <1>7, <1>8

\* An answered request is one that was made.
LEMMA AnsweredWasMade == Busy /\ Placed /\ RepliesPlaced => answered \subseteq issued
<1> SUFFICES ASSUME Busy, Placed, RepliesPlaced PROVE answered \subseteq issued
    OBVIOUS
<1>1. \A w \in Workers : doing[w] = "data" => running[w] \in Pool!Running
  BY DEF Busy, Pool!Running
<1>2. Replied \subseteq InPool
  BY <1>1 DEF Replied, InPool
<1> QED BY <1>2 DEF RepliesPlaced, Placed

\* The invariant holds before the first request.
LEMMA InitHolds == Init => IInv
<1> SUFFICES ASSUME Init PROVE IInv
    OBVIOUS
<1> USE ServerAssumption
<1>1. In = <<>> /\ Len(In) = 0 /\ Len(toKernel) = 0
  BY DEF Init, In
<1>2. TypeOK
  <2>1. <<>> \in Seq(Unit) /\ Len(<<>>) <= Capacity
    BY SMT
  <2>2. /\ outbox \in Seq(Unit) /\ toApp \in Seq(Unit) /\ toKernel \in Seq(Unit)
        /\ Len(toApp) <= Capacity /\ Len(toKernel) <= Capacity
    BY <2>1 DEF Init
  <2>3. /\ m_buffer \in [Reqs -> [Cells -> Reqs \cup {Zero}]] /\ received \in [Reqs -> [Cells -> Reqs \cup {Zero}]]
        /\ storage \in [Cells -> Reqs \cup {Zero}] /\ left \in [Threads \cup {NoReq} -> SUBSET Cells]
    BY DEF Init
  <2>4. /\ doing \in [Workers -> {"idle", "copy", "lock", "header", "data"}]
        /\ running \in [Workers -> Reqs \cup {NoReq}] /\ before \in [Reqs -> SUBSET Reqs]
    BY DEF Init
  <2> QED BY <2>2, <2>3, <2>4 DEF Init, TypeOK
<1>3. Mutex
  BY DEF Init, Mutex
<1>4. Busy
  BY DEF Init, Busy, Threads
<1>5. RequestsFramed
  BY <1>1 DEF Init, RequestsFramed, Run
<1>6. Pool!Running = {} /\ InPool = {} /\ Replied = {}
  BY DEF Init, Pool!Running, InPool, Replied
<1>7. Placed
  BY <1>1, <1>6 DEF Init, Placed, Pool!OnePlace
<1>8. RepliesPlaced
  BY <1>1, <1>6 DEF Init, RepliesPlaced
<1>9. RepliesDue
  <2> DEFINE due == [j \in 1 .. 1 |-> {}]
  <2>1. due \in [1 .. Len(toKernel) + 1 -> SUBSET Cells] /\ due[1] = {}
    BY <1>1
  <2> HIDE DEF due
  <2>2. left[NoReq] = {} /\ \A w \in Workers : ~Writing(w)
    BY DEF Init, Writing
  <2>3. Due(due)
    BY <1>1, <2>1, <2>2 DEF Due
  <2> QED BY <2>1, <2>3 DEF RepliesDue
<1>10. \A h \in Reqs, c \in Cells : ~Past(h, c)
  BY DEF Init, Past
<1>11. Loaded
  BY <1>6 DEF Init, Loaded
<1>12. StoredCurrent
  BY <1>10 DEF Init, StoredCurrent, Current
<1>13. CopiedCurrent
  BY <1>10 DEF CopiedCurrent
<1>14. ArrivedCurrent
  BY DEF Init, ArrivedCurrent
<1> QED BY <1>2, <1>3, <1>4, <1>5, <1>7, <1>8, <1>9, <1>11, <1>12, <1>13, <1>14 DEF IInv

\* A step keeps the invariant.
LEMMA StepHolds == IInv /\ [Next]_vars => IInv'
<1> SUFFICES ASSUME IInv, [Next]_vars PROVE IInv'
    OBVIOUS
<1>1. /\ TypeOK /\ Mutex /\ Busy /\ RequestsFramed /\ Placed /\ RepliesPlaced /\ RepliesDue
      /\ Loaded /\ StoredCurrent /\ CopiedCurrent /\ ArrivedCurrent
  BY DEF IInv
<1>2. Mutex' /\ Busy' /\ RequestsFramed' /\ Placed' /\ RepliesPlaced'
  BY <1>1, MutexKept, BusyKept, RequestsFramedKept, PlacedKept, RepliesPlacedKept
<1>3. (answered \subseteq issued)'
  BY <1>2, AnsweredWasMade, PTL
<1>4. TypeOK'
  BY <1>1, <1>3, TypesKept
<1>5. RepliesDue' /\ Loaded' /\ StoredCurrent' /\ CopiedCurrent' /\ ArrivedCurrent'
  BY <1>1, RepliesDueKept, LoadedKept, StoredCurrentKept, CopiedCurrentKept, ArrivedCurrentKept
<1> QED BY <1>2, <1>4, <1>5 DEF IInv

\* The invariant holds in every state.
LEMMA InvariantHolds == Spec => []IInv
  BY InitHolds, StepHolds, PTL DEF Spec

\* The state has the types it is given; in particular an answer is to a request
\* that was made, and no socket buffer overflows.
THEOREM TypesHold == Spec => []TypeOK
<1>1. IInv => TypeOK
  BY DEF IInv
<1> QED BY <1>1, InvariantHolds, PTL

\* However many workers write their replies to the one socket, unit by unit and
\* blocked at any of them, the kernel never takes a header for data or the data of
\* one READ for those of another.
THEOREM RepliesAreFramed == Spec => []RepliesFramed
<1>1. IInv => RepliesFramed
  <2> SUFFICES ASSUME IInv, toKernel # <<>>
               PROVE  IF replying = NoReq
                        THEN Head(toKernel).part = "header"
                        ELSE Head(toKernel).part = "data" /\ Head(toKernel).req = replying
      BY DEF RepliesFramed
  <2>1. Head(toKernel) = toKernel[1]
    BY DEF IInv, TypeOK
  <2> QED BY <2>1, NextReply DEF IInv
<1> QED BY <1>1, InvariantHolds, PTL

\* The other way, RecvRequest reads a header where it expects one, and as payload
\* the data of the request whose header it read.
RequestsTakenWhole ==
    toApp # <<>> =>
        /\ reactor = "header" => Head(toApp).part = "header"
        /\ reactor = "payload" => Head(toApp).part = "data" /\ Head(toApp).req = current

\* RecvRequest never loses its place in the kernel's stream.
THEOREM RequestsAreTakenWhole == Spec => []RequestsTakenWhole
<1>1. IInv => RequestsTakenWhole
  <2> SUFFICES ASSUME IInv, toApp # <<>>
               PROVE  /\ reactor = "header" => Head(toApp).part = "header"
                      /\ reactor = "payload" => Head(toApp).part = "data" /\ Head(toApp).req = current
      BY DEF RequestsTakenWhole
  <2>1. toApp \in Seq(Unit) /\ outbox \in Seq(Unit)
    BY DEF IInv, TypeOK
  <2>2. In[1] = Head(toApp) /\ Len(In) # 0
    BY <2>1 DEF In
  <2> QED BY <2>2, NextRequest DEF IInv
<1> QED BY <1>1, InvariantHolds, PTL

\* The pool accepts every request the main thread submits: none was submitted
\* before, and none is in the pool twice.
SubmittedOnce ==
    /\ Pool!OnePlace
    /\ reactor = "submit" => current \in issued \ (pending \cup Pool!Running \cup finished)

\* A request enters the pool once and is one task, whatever the kernel sends.
THEOREM SubmitsOnce == Spec => []SubmittedOnce
<1>1. IInv => SubmittedOnce
  BY DEF IInv, SubmittedOnce, Placed, InPool, Busy
<1> QED BY <1>1, InvariantHolds, PTL

\* No request is answered twice.
THEOREM RepliesAreSentOnce == Spec => []AnsweredOnce
<1>1. IInv => AnsweredOnce
  <2> SUFFICES ASSUME IInv, NEW i \in DOMAIN toKernel, toKernel[i].part = "header"
               PROVE  /\ toKernel[i].req \in issued \ (answered \cup {replying})
                      /\ \A j \in DOMAIN toKernel : toKernel[j] = toKernel[i] => j = i
      BY DEF AnsweredOnce
  <2>1. DOMAIN toKernel = 1 .. Len(toKernel)
    BY DEF IInv, TypeOK
  <2>2. \A w \in Workers : doing[w] = "data" => running[w] \in Pool!Running
    BY DEF IInv, Busy, Pool!Running
  <2>3. Replied \subseteq issued
    BY <2>2 DEF IInv, Replied, Placed, InPool
  <2> QED BY <2>1, <2>3 DEF IInv, RepliesPlaced
<1> QED BY <1>1, InvariantHolds, PTL

\* An answered WRITE is in the storage until a write that was not answered before
\* it replaces it, however the copies of the workers interleave.
THEOREM AnsweredIsStored == Spec => []AnsweredWritesStored
<1>1. IInv => AnsweredWritesStored
  <2> SUFFICES ASSUME IInv, NEW c \in Cells PROVE Current(storage[c], c, answered)
      BY DEF AnsweredWritesStored
  <2>1. answered \subseteq {x \in Reqs : Past(x, c)}
    BY AnsweredIsPast DEF IInv, TypeOK
  <2>2. Current(storage[c], c, {x \in Reqs : Past(x, c)})
    BY DEF IInv, StoredCurrent
  <2> QED BY <2>1, <2>2 DEF Current
<1> QED BY <1>1, InvariantHolds, PTL

\* A READ answers, for each cell, with a write under way during it or with the last
\* one answered before it.
THEOREM ReadsAreCurrent == Spec => []ReadsCurrent
<1>1. IInv => ReadsCurrent
  BY ServerAssumption DEF IInv, ReadsCurrent, ArrivedCurrent, TypeOK
<1> QED BY <1>1, InvariantHolds, PTL

=============================================================================
