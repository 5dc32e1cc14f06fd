-------------------------- MODULE DriverProperties --------------------------
(* What a driver owes the process it lives in. *)
EXTENDS NbdDriver

Owners == {"free", "device", "app", "kernelEnd", "other"}

\* The types of the state.
TypeOK ==
    /\ life \in {"none", "device", "sockets", "live", "joining", "closeApp", "closeDevice",
                 "dtorEnds", "destroyed", "failed"}
    /\ text \in {"nasky", "almog"}
    /\ table \in [Numbers -> Owners]
    /\ {m_fd, m_app, m_device} \subseteq Numbers \cup {0}
    /\ thread \in {"none", "setsock", "setflags", "doit", "ended", "failed"}
    /\ {alive, inDtor, explicit, unguarded, foreign} \subseteq BOOLEAN
    /\ unguarded => life = "failed"

\* Disconnect() keeps no record of what it closed, so a client that calls it makes
\* the destructor close two numbers that may be another file's by then. As long
\* as no client does, the driver closes nothing that is not its own.
ClosesItsOwn == foreign => explicit

\* Whatever fails, in the constructor or in Disconnect, the driver leaves none of
\* its descriptors open, unless the constructor throws after the socket pair is
\* made (no thread, or in "almog" no NBD_CLEAR_SOCK): the sockets have no guard.
NothingLeft ==
    life \in {"failed", "destroyed"} /\ ~unguarded =>
        \A n \in Numbers : table[n] \in {"free", "other"}

\* The thread hands its own end of the socket pair to the kernel, and both ends
\* are open as long as the kernel serves the device, unless a client disconnected.
ServedSocketsOpen ==
    alive /\ thread \in {"setsock", "setflags", "doit"} /\ ~explicit =>
        table[m_app] = "app" /\ table[m_device] = "kernelEnd"

\* Nobody waits for a device that is not served. A thread that failed takes the
\* process with it, whatever the client or the destructor does meanwhile: the
\* process never goes on with a dead device, nor does a join take the failure for
\* the end of the service. And the destructor ends, by itself or with the
\* process, unless the kernel goes on serving.
UnservedEnds ==
    /\ thread = "failed" ~> ~alive
    /\ life = "joining" ~> life = "destroyed" \/ ~alive \/ thread = "doit"

=============================================================================
