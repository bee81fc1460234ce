---------------------------- MODULE MCScheduler ----------------------------
(* Workloads for the scheduler: what the closures handed to spawn() do.    *)
EXTENDS Scheduler

\* Every call of the API, in every task.
AnyBody == [i \in 1..MaxTasks |-> Calls]

\* phase4_demo's shape: a clock task that only yields and never finishes here,
\* a manager that joins and a worker that sleeps.
ClockBody ==
  [i \in 1..MaxTasks |-> CASE i = 1 -> {"yield"}
                           [] i = 2 -> {"join", "sleep", "exit"}
                           [] OTHER -> {"sleep", "exit"}]

\* Two sleepers and nobody else.
SleeperBody == [i \in 1..MaxTasks |-> {"sleep", "exit"}]
=============================================================================
