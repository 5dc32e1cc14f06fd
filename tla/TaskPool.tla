------------------------------ MODULE TaskPool ------------------------------
(*
  What a thread pool promises its client, without a word of how: a task is
  pending from AddTask until some worker starts it, runs on one worker at a
  time, ends once and never comes back; a worker that starts a task takes
  one that no pending task precedes.
*)
EXTENDS Naturals

CONSTANTS Workers, Tasks, Rank, NoTask

VARIABLES pending, running, finished

poolVars == <<pending, running, finished>>

Running == {running[w] : w \in Workers} \ {NoTask}

Init ==
    /\ pending = {}
    /\ running = [w \in Workers |-> NoTask]
    /\ finished = {}

Submit(t) ==
    /\ t \notin pending \cup Running \cup finished
    /\ pending' = pending \cup {t}
    /\ UNCHANGED <<running, finished>>

Start(w, t) ==
    /\ running[w] = NoTask
    /\ t \in pending
    /\ \A u \in pending : Rank[t] <= Rank[u]
    /\ pending' = pending \ {t}
    /\ running' = [running EXCEPT ![w] = t]
    /\ UNCHANGED finished

Finish(w) ==
    /\ running[w] # NoTask
    /\ finished' = finished \cup {running[w]}
    /\ running' = [running EXCEPT ![w] = NoTask]
    /\ UNCHANGED pending

Next ==
    \/ \E t \in Tasks : Submit(t)
    \/ \E w \in Workers, t \in Tasks : Start(w, t)
    \/ \E w \in Workers : Finish(w)

Spec == Init /\ [][Next]_poolVars

\* A task is in one place at a time: it is never pending again once started,
\* never runs twice and never runs on two workers (the promise AddTask makes).
OnePlace ==
    /\ pending \cap finished = {}
    /\ pending \cap Running = {}
    /\ finished \cap Running = {}
    /\ \A v, w \in Workers : running[v] = running[w] => v = w \/ running[v] = NoTask

=============================================================================
