------------------------------ MODULE CondVar ------------------------------
(*
  std::condition_variable as the framework uses it: always under the mutex
  of the object that owns it. A thread in a wait is either blocked or, once
  signalled, woken: it then competes for the mutex to test its condition
  again. A wait also ends spuriously, which is a step of its own (Spurious
  actions of the modules that use this one).
*)

\* The sets of threads one notify_one() may wake: any single blocked thread,
\* and nobody when nobody is blocked (a notification is never remembered).
NotifyOne(blocked) ==
    IF blocked = {} THEN {{}} ELSE {{t} : t \in blocked}

=============================================================================
