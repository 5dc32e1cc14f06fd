----------------------------- MODULE WireFormat -----------------------------
(*
  From the 28 bytes of a struct nbd_request to the DriverData that RecvRequest
  makes of them (src/nasky.cpp), on a host whose integers have their least
  significant byte first. A field is the function from its places in memory to
  its bytes: no integer here is wider than a field.
*)
EXTENDS Integers

Byte == 0 .. 255

Word == [1 .. 4 -> Byte]

Long == [1 .. 8 -> Byte]

\* What the host takes the bytes of a uint32_t for, and what their sender meant.
HostValue(w) == w[1] + 256 * w[2] + 65536 * w[3] + 16777216 * w[4]

NetValue(w) == w[4] + 256 * w[3] + 65536 * w[2] + 16777216 * w[1]

Ntohl(w) == [i \in 1 .. 4 |-> w[5 - i]]

\* The two halves are turned round, then exchanged.
Ntohll(a) ==
    LET lo == Ntohl([i \in 1 .. 4 |-> a[i]])
        hi == Ntohl([i \in 1 .. 4 |-> a[i + 4]]) IN
    [i \in 1 .. 8 |-> IF i <= 4 THEN hi[i] ELSE lo[i - 4]]

\* NBD_CMD_READ to NBD_CMD_TRIM are 0 to 4.
ActionType == {"READ", "WRITE", "DISC", "FLUSH", "TRIM"}

\* What m_type may be: for a type it does not know the constructor leaves it as
\* the memory was, and its reader finds any value.
Decoded(type) ==
    CASE type = 0 -> {"READ"} [] type = 1 -> {"WRITE"} [] type = 2 -> {"DISC"}
      [] type = 3 -> {"FLUSH"} [] type = 4 -> {"TRIM"} [] OTHER -> ActionType

\* What RecvRequest may make of a request: the vector is sized by the length as
\* it came, the payload read into it is as long as the length that was meant.
Received(request) ==
    {[m_type |-> action, m_offset |-> Ntohll(request.from),
      m_length |-> NetValue(request.len), m_buffer |-> HostValue(request.len)] :
        action \in Decoded(NetValue(request.type))}

Holds(data) == data.m_length <= data.m_buffer

=============================================================================
