---------------------------- MODULE PnpProperties ----------------------------
(* What the plug-and-play component promises when nothing was corrupted. *)
EXTENDS PlugAndPlay

Lives == {"none", "subscribed", "live", "closing", "dead"}

\* The types of the state; the subscribers are the loaders alive, each once.
PnpTypeOK ==
    /\ monitor \in {"live", "stopping", "dead"} /\ (isMonitoring <=> monitor = "live")
    /\ thread \in {"start", "test", "read", "copy", "notify", "exit"}
    /\ dirPathOk \in BOOLEAN /\ corrupted \in BOOLEAN
    /\ events \in Seq(Files) /\ arrived \in Seq(Files) /\ event \in Files \cup {NoFile}
    /\ m_subscribers \in Seq(Loaders) /\ copy \in Seq(Loaders)
    /\ loader \in [Loaders -> Lives]
    /\ {m_symbolHandlers, opened, closed} \subseteq [Loaders -> Seq(Files)]
    /\ monitor # "dead" =>
         /\ \A i, j \in DOMAIN m_subscribers : m_subscribers[i] = m_subscribers[j] => i = j
         /\ {m_subscribers[i] : i \in DOMAIN m_subscribers}
              = {l \in Loaders : loader[l] \notin {"none", "dead"}}

\* NotifyAll reaches every subscriber that stays subscribed while it runs, even
\* when others come and go between two of its calls: that is what the copy is for.
StayersAreTold ==
    [][thread = "notify" /\ thread' = "test" => due \subseteq told]_pnpVars

\* A loader opens each file once at most and in the order the files appeared,
\* though several events may come in one read and some are dropped.
OpenedInOrder ==
    \A l \in Loaders :
        LET place(i) == CHOOSE j \in DOMAIN arrived : arrived[j] = opened[l][i] IN
        \A i, j \in DOMAIN opened[l] : i < j => place(i) < place(j)

\* A destroyed loader has closed what it opened, each handle once, unless it was
\* notified while it was being constructed or destroyed.
HandlesClosed ==
    \A l \in Loaders \ raced : loader[l] = "dead" => closed[l] = opened[l]

\* The destructor of DirMonitor ends if a file still appears after it began: the
\* event that wakes the thread up is its last.
MonitorStops ==
    monitor = "stopping" /\ events # <<>> ~> monitor = "dead" \/ corrupted

=============================================================================
