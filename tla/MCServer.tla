------------------------------- MODULE MCServer -------------------------------
(* Small instances of the server for TLC. *)
EXTENDS ServerProperties, TLC

CONSTANTS wr1, wr2, rd, fl, w1, w2

\* Two writes that overlap in cell 2 and a read of both cells; a flush has no data.
RequestKind ==
    [h \in Reqs |-> CASE h \in {wr1, wr2} -> "WRITE" [] h = rd -> "READ" [] h = fl -> "FLUSH"]

RequestSpan ==
    [h \in Reqs |-> CASE h = wr1 -> {1, 2} [] h = wr2 -> {2} [] h = rd -> {1, 2} [] h = fl -> {}]

\* What DriverProofs proves of all requests, on the words of a few bytes that keep
\* within TLC's integers.
Wire == INSTANCE WireFormat

Bytes == {0, 1, 2, 100}

ASSUME TypesDecoded ==
    /\ \A w \in [1 .. 4 -> Bytes] : Wire!HostValue(Wire!Ntohl(w)) = Wire!NetValue(w)
    /\ \A a \in [1 .. 8 -> {0, 1, 2}] :
          Wire!Ntohll(a) = [i \in 1 .. 8 |-> a[9 - i]] /\ Wire!Ntohll(Wire!Ntohll(a)) = a

\* A length of 256 * k bytes, k below 256, and the word after the last of them.
ASSUME BuffersHold ==
    \A type \in [1 .. 4 -> {0, 1, 5}], k \in 0 .. 256 :
        LET len == [i \in 1 .. 4 |-> CASE i = 3 -> k % 256 [] i = 2 -> k \div 256 [] OTHER -> 0]
            from == [i \in 1 .. 8 |-> 0] IN
        /\ Wire!NetValue(len) = 256 * k
        /\ \A data \in Wire!Received([type |-> type, from |-> from, len |-> len]) :
              Wire!Holds(data) <=> k < 256

==============================================================================
