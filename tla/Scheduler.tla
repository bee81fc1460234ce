----------------------------- MODULE Scheduler -----------------------------
(***************************************************************************)
(* The kernel's round-robin task scheduler (kernel/src/process) together   *)
(* with the timer interrupt that preempts it (kernel/src/interrupts.rs).   *)
(*                                                                         *)
(* There is one core, so the actors are the boot context, the tasks and    *)
(* the timer.  Code that runs with interrupts disabled (schedule(),        *)
(* exit_current(), the timer handler, the landing of a context switch) is  *)
(* one step.  Code that runs with interrupts enabled is split where the    *)
(* timer can fall: before and after taking the SCHEDULER lock, inside the  *)
(* critical section, and between unlocking and calling schedule().  With   *)
(* that granularity the interrupt flag is set in every state outside boot. *)
(*                                                                         *)
(* Time is kept relative: a deadline `wake_at` is represented by           *)
(* wake_at - TICKS, never below 0, so that a tick lowers every deadline by *)
(* one and `now >= wake_at` reads "the deadline is 0".                     *)
(*                                                                         *)
(* An operator named X_Variant is a deliberately wrong variant of X, there *)
(* to show that the properties below notice it.                            *)
(***************************************************************************)
EXTENDS Integers, FiniteSets

CONSTANTS
  MaxTasks,       \* bound: how many TaskIds are ever handed out
  BootTasks,      \* bound: how many tasks boot spawns before start()
  DEFAULT_SLICE,  \* ticks of a fresh time slice
  SleepTicks,     \* arguments of sleep()
  Body            \* Body[i]: the calls the closure of task i may make

Calls == {"yield", "sleep", "join", "spawn", "snapshot", "exit"}

ASSUME SchedulerAssumption ==
  /\ MaxTasks \in Nat \ {0}
  /\ BootTasks \in 0..MaxTasks
  /\ DEFAULT_SLICE \in Nat
  /\ SleepTicks \subseteq Nat
  /\ Body \in [1..MaxTasks -> SUBSET Calls]

TaskId  == 1..MaxTasks
Slot    == 0..(MaxTasks - 1)
NO_TASK == -1               \* usize::MAX in the code
NoId    == 0                \* an empty slot; next_id starts at 1

\* Zombie never outlives exit_current's critical section; "None" is a task
\* that is in no slot.
TaskState   == {"None", "Ready", "Running", "Blocked"}
Stage       == {"new", "body", "lock", "cs", "lock2", "cs2", "sched", "ret", "gone"}
BlockReason == [kind : {"None", "Sleep", "Join"}, arg : Nat]
NotBlocked  == [kind |-> "None", arg |-> 0]

VARIABLES
  slots,       \* slots[s]: id of the task stored in slot s, or NoId (None)
  len,         \* slots.len()
  current,     \* slot of the executing task, or NO_TASK
  next_id,
  cursor,      \* where next_ready starts its scan
  state,       \* TaskState of each task; "None" when it is in no slot
  block,       \* BlockReason of each task
  slice,       \* remaining ticks of each task's time slice
  lock,        \* holder of the SCHEDULER lock, or NoId
  cpu,         \* whose code the core executes: boot, a task, or idle()
  pc,          \* where each task stands in its own code
  op,          \* the scheduler call each task is in
  loc,         \* that call's local: `wake` of sleep (relative), `id` of join
  in_service,  \* IRQ0 is in service: no EOI yet, so no further IRQ0
  isr,         \* tasks switched away from inside the timer handler
  hung         \* the timer handler spins on the SCHEDULER lock

table   == <<slots, len, next_id>>
choice  == <<current, cursor>>
control == <<pc, op, loc>>
irq     == <<in_service, isr, hung>>
vars    == <<table, choice, state, block, slice, lock, cpu, control, irq>>

\* The task whose code the core executes, with the timer able to interrupt it.
Executes(i) == cpu = "task" /\ ~hung /\ slots[current] = i

Lowest(S) == {s \in S : \A t \in S : s <= t}
-----------------------------------------------------------------------------
(* Scheduler's methods.  An Option is a set with at most one element.      *)

holes_NotReady == {s \in 0..(len - 1) : slots[s] = NoId \/ state[slots[s]] # "Ready"}
holes == {s \in 0..(len - 1) : slots[s] = NoId}

add ==
  /\ next_id <= MaxTasks
  /\ \E s \in IF holes = {} THEN {len} ELSE Lowest(holes) :
       slots' = [slots EXCEPT ![s] = next_id]
  /\ len' = IF holes = {} THEN len + 1 ELSE len
  /\ next_id' = next_id + 1
  /\ state' = [state EXCEPT ![next_id] = "Ready"]
  /\ block' = [block EXCEPT ![next_id] = NotBlocked]
  /\ slice' = [slice EXCEPT ![next_id] = DEFAULT_SLICE]

find_slot(id) == {s \in 0..(len - 1) : slots[s] = id}

ready(st) == {s \in 0..(len - 1) : slots[s] # NoId /\ st[slots[s]] = "Ready"}

next_ready_NoCursor(st) == Lowest(ready(st))
next_ready(st) ==
  LET dist(s) == (s + len - cursor) % len
  IN  {s \in ready(st) : \A t \in ready(st) : dist(s) <= dist(t)}

\* prep_switch(idx), __switch, and what the incoming task does before it runs
\* with interrupts enabled again: a fresh task takes its body, a task that was
\* switched away inside the timer handler returns there and sends the EOI.
\* `suspended` and `busy` are isr and in_service as the switch finds them.
Land(st, idx, suspended, busy) ==
  /\ state' = [st EXCEPT ![slots[idx]] = "Running"]
  /\ current' = idx
  /\ cpu' = "task"
  /\ isr' = suspended \ {slots[idx]}
  /\ in_service' = busy

prep_switch_Skip(st, idx, suspended, busy) ==
  /\ Land(st, idx, suspended, busy /\ slots[idx] \notin suspended)
  /\ cursor' = idx + 2
prep_switch_NoEoi(st, idx, suspended, busy) ==
  /\ Land(st, idx, suspended, busy)
  /\ cursor' = idx + 1
prep_switch(st, idx, suspended, busy) ==
  /\ Land(st, idx, suspended, busy /\ slots[idx] \notin suspended)
  /\ cursor' = idx + 1

current_task_body(idx, where) ==
  IF where[slots[idx]] = "new" THEN [where EXCEPT ![slots[idx]] = "body"] ELSE where

\* A Running task that reaches schedule() is demoted.
Demote_None(st, i) == st
Demote(st, i) == IF st[i] = "Running" THEN [st EXCEPT ![i] = "Ready"] ELSE st

\* schedule() with the task states st, from the handler (irq0) or from a task.
\* `where` is pc as the caller leaves it; a failed next_ready just returns.
schedule(st, where, irq0) ==
  LET i  == slots[current]
      s1 == Demote(st, i)
      ok == next_ready(s1)
  IN  \/ /\ ok = {}
         /\ state' = s1
         /\ in_service' = (in_service /\ ~irq0)
         /\ pc' = where
         /\ UNCHANGED <<choice, cpu, isr>>
      \/ \E idx \in ok :
           /\ prep_switch(s1, idx, IF irq0 THEN isr \cup {i} ELSE isr, in_service \/ irq0)
           /\ pc' = current_task_body(idx, where)
-----------------------------------------------------------------------------
(* Boot: phase4_demo spawns tasks, then start() never comes back.  Boot    *)
(* gets here from run_user with interrupts off.                            *)

BootSpawn ==
  /\ cpu = "boot"
  /\ next_id <= BootTasks
  /\ add
  /\ UNCHANGED <<choice, lock, cpu, control, irq>>

start ==
  /\ cpu = "boot"
  /\ \/ /\ next_ready(state) = {}
        /\ cpu' = "idle"
        /\ UNCHANGED <<choice, state, pc, irq>>
     \/ \E idx \in next_ready(state) :
          /\ prep_switch(state, idx, isr, in_service)
          /\ pc' = current_task_body(idx, pc)
          /\ UNCHANGED hung
  /\ UNCHANGED <<table, block, slice, lock, op, loc>>
-----------------------------------------------------------------------------
(* The calls of a task.                                                    *)

\* Keeps the bound MaxTasks out of spawn()'s critical section.
Spawning == {j \in TaskId : op[j] = "spawn"}

\* The body makes a call: yield_now() goes straight to schedule(), sleep()
\* reads the clock, join() is given an id that spawn() returned to someone.
Call(i) ==
  /\ Executes(i) /\ pc[i] = "body"
  /\ \E o \in Body[i] \ {"exit"} :
       /\ o = "spawn" => next_id + Cardinality(Spawning) <= MaxTasks
       /\ op' = [op EXCEPT ![i] = o]
       /\ pc' = [pc EXCEPT ![i] = IF o = "yield" THEN "sched" ELSE "lock"]
       /\ \E v \in CASE o = "sleep" -> SleepTicks
                     [] o = "join"  -> 1..(next_id - 1) \ {i}
                     [] OTHER       -> {0} :
            loc' = [loc EXCEPT ![i] = v]
  /\ UNCHANGED <<table, choice, state, block, slice, lock, cpu, irq>>

\* SCHEDULER.lock() with interrupts enabled.
Acquire(i) ==
  /\ Executes(i) /\ pc[i] \in {"lock", "lock2"}
  /\ lock = NoId
  /\ lock' = i
  /\ pc' = [pc EXCEPT ![i] = IF pc[i] = "lock" THEN "cs" ELSE "cs2"]
  /\ UNCHANGED <<table, choice, state, block, slice, cpu, op, loc, irq>>

\* A critical section ends: the guard is dropped and i goes on at p.
Release(i, o, stage, p) ==
  /\ Executes(i) /\ op[i] = o /\ pc[i] = stage
  /\ lock' = NoId
  /\ pc' = [pc EXCEPT ![i] = p]
  /\ UNCHANGED <<choice, cpu, op, loc, irq>>

spawn(i) ==
  /\ Release(i, "spawn", "cs", "ret")
  /\ add

snapshot(i) ==
  /\ Release(i, "snapshot", "cs", "ret")
  /\ UNCHANGED <<table, state, block, slice>>

MarkBlocked(i, kind) ==
  /\ state' = [state EXCEPT ![i] = "Blocked"]
  /\ block' = [block EXCEPT ![i] = [kind |-> kind, arg |-> loc[i]]]
  /\ UNCHANGED <<table, slice>>

sleep(i) == Release(i, "sleep", "cs", "sched") /\ MarkBlocked(i, "Sleep")

\* join's first critical section: is the task gone?  The lock is dropped
\* before the caller is marked Blocked.
JoinDone(id) == \A s \in find_slot(id) : state[slots[s]] = "Zombie"

join_check(i) ==
  /\ Release(i, "join", "cs", IF JoinDone(loc[i]) THEN "ret" ELSE "lock2")
  /\ UNCHANGED <<table, state, block, slice>>

join_block(i) == Release(i, "join", "cs2", "sched") /\ MarkBlocked(i, "Join")

\* The tail of yield_now, sleep and join.
Schedule(i) ==
  /\ Executes(i) /\ pc[i] = "sched" /\ lock = NoId
  /\ schedule(state, [pc EXCEPT ![i] = "ret"], FALSE)
  /\ UNCHANGED <<table, block, slice, lock, op, loc, hung>>

Return(i) ==
  /\ Executes(i) /\ pc[i] = "ret"
  /\ pc' = [pc EXCEPT ![i] = "body"]
  /\ op' = [op EXCEPT ![i] = "none"]
  /\ loc' = [loc EXCEPT ![i] = 0]
  /\ UNCHANGED <<table, choice, state, block, slice, lock, cpu, irq>>

\* The tasks that the exit of i wakes, and the states it leaves: i is a Zombie
\* for next_ready and then reaped.
Joiners_Any(i) == {j \in TaskId \ {i} : state[j] = "Blocked" /\ block[j].kind = "Join"}
Joiners(i) ==
  {j \in TaskId \ {i} : state[j] = "Blocked" /\ block[j] = [kind |-> "Join", arg |-> i]}

Reaped_NotZombie(i) == [j \in TaskId |-> IF j \in Joiners(i) THEN "Ready" ELSE state[j]]
Reaped(i) ==
  [j \in TaskId |-> IF j = i THEN "None" ELSE IF j \in Joiners(i) THEN "Ready" ELSE state[j]]

\* The body returns: wake the joiners, choose a successor, reap our own slot.
exit_current(i) ==
  LET st   == Reaped(i)
      ok   == next_ready(st)
      gone == [pc EXCEPT ![i] = "gone"]
  IN  /\ Executes(i) /\ pc[i] = "body" /\ "exit" \in Body[i] /\ lock = NoId
      /\ block' = [j \in TaskId |-> IF j \in Joiners(i) THEN NotBlocked ELSE block[j]]
      /\ slots' = [slots EXCEPT ![current] = NoId]
      /\ \/ /\ ok = {}
            /\ state' = st
            /\ current' = NO_TASK
            /\ cpu' = "idle"
            /\ pc' = gone
            /\ UNCHANGED <<cursor, isr, in_service>>
         \/ \E idx \in ok :
              /\ prep_switch(st, idx, isr, in_service)
              /\ pc' = current_task_body(idx, gone)
      /\ UNCHANGED <<len, next_id, slice, lock, op, loc, hung>>
-----------------------------------------------------------------------------
(* The timer interrupt.                                                    *)

Minus1(n) == IF n = 0 THEN 0 ELSE n - 1

\* timer::tick(): TICKS + 1, seen from the deadlines.
Elapsed(b) == IF b.kind = "Sleep" THEN [b EXCEPT !.arg = Minus1(@)] ELSE b
LocElapsed == [i \in TaskId |-> IF op[i] = "sleep" THEN Minus1(loc[i]) ELSE loc[i]]

\* A sleeper's deadline has come: now >= wake_at.
Due_Early(b) == b.kind = "Sleep" /\ b.arg <= 1
Due(b) == b.kind = "Sleep" /\ b.arg = 0

\* process::tick() once it has the lock, then the EOI unless it switched.
tick ==
  LET aged  == [i \in TaskId |-> Elapsed(block[i])]
      woken == {i \in TaskId : state[i] = "Blocked" /\ Due(aged[i])}
      st    == [i \in TaskId |-> IF i \in woken THEN "Ready" ELSE state[i]]
      me    == slots[current]
  IN  /\ block' = [i \in TaskId |-> IF i \in woken THEN NotBlocked ELSE aged[i]]
      /\ \/ /\ current = NO_TASK
            /\ state' = st
            /\ UNCHANGED <<choice, slice, cpu, pc, in_service, isr>>
         \/ /\ current # NO_TASK /\ slice[me] # 0
            /\ slice' = [slice EXCEPT ![me] = @ - 1]
            /\ state' = st
            /\ UNCHANGED <<choice, cpu, pc, in_service, isr>>
         \/ /\ current # NO_TASK /\ slice[me] = 0
            /\ slice' = [slice EXCEPT ![me] = DEFAULT_SLICE]
            /\ schedule(st, pc, TRUE)

timer_interrupt_handler_NoLock ==
  /\ cpu # "boot" /\ ~in_service /\ ~hung
  /\ loc' = LocElapsed
  /\ tick
  /\ UNCHANGED <<table, lock, op, hung>>
timer_interrupt_handler ==
  /\ cpu # "boot" /\ ~in_service /\ ~hung
  /\ loc' = LocElapsed
  /\ \/ /\ lock = NoId
        /\ tick
        /\ UNCHANGED hung
     \/ /\ lock # NoId
        /\ hung' = TRUE
        /\ in_service' = TRUE
        /\ block' = [i \in TaskId |-> Elapsed(block[i])]
        /\ UNCHANGED <<choice, state, slice, cpu, pc, isr>>
  /\ UNCHANGED <<table, lock, op>>
-----------------------------------------------------------------------------
Init ==
  /\ slots = [s \in Slot |-> NoId]
  /\ len = 0
  /\ current = NO_TASK
  /\ next_id = 1
  /\ cursor = 0
  /\ state = [i \in TaskId |-> "None"]
  /\ block = [i \in TaskId |-> NotBlocked]
  /\ slice = [i \in TaskId |-> 0]
  /\ lock = NoId
  /\ cpu = "boot"
  /\ pc = [i \in TaskId |-> "new"]
  /\ op = [i \in TaskId |-> "none"]
  /\ loc = [i \in TaskId |-> 0]
  /\ in_service = FALSE
  /\ isr = {}
  /\ hung = FALSE

TaskStep(i) ==
  \/ Call(i) \/ Acquire(i) \/ spawn(i) \/ snapshot(i) \/ sleep(i)
  \/ join_check(i) \/ join_block(i) \/ Schedule(i) \/ Return(i) \/ exit_current(i)

Next ==
  \/ BootSpawn
  \/ start
  \/ \E i \in TaskId : TaskStep(i)
  \/ timer_interrupt_handler

Spec == Init /\ [][Next]_vars

\* The core executes the code it stands in; every body returns after finitely
\* many calls; the PIT keeps raising IRQ0.
Fairness ==
  /\ WF_vars(start)
  /\ \A i \in TaskId : WF_vars(TaskStep(i)) /\ SF_vars(exit_current(i))
  /\ WF_vars(timer_interrupt_handler)

FairSpec == Spec /\ Fairness
-----------------------------------------------------------------------------
TypeOK ==
  /\ slots \in [Slot -> TaskId \cup {NoId}]
  /\ len \in 0..MaxTasks
  /\ current \in Slot \cup {NO_TASK}
  /\ next_id \in 1..(MaxTasks + 1)
  /\ cursor \in 0..MaxTasks
  /\ state \in [TaskId -> TaskState]
  /\ block \in [TaskId -> BlockReason]
  /\ slice \in [TaskId -> 0..DEFAULT_SLICE]
  /\ lock \in TaskId \cup {NoId}
  /\ cpu \in {"boot", "task", "idle"}
  /\ pc \in [TaskId -> Stage]
  /\ op \in [TaskId -> Calls \cup {"none"}]
  /\ loc \in [TaskId -> Nat]
  /\ in_service \in BOOLEAN
  /\ isr \subseteq TaskId
  /\ hung \in BOOLEAN

\* ctx_ptr reads slots[current] with unwrap_unchecked, and exit_current and
\* current_task_body unwrap it: the current slot always holds a task, and it
\* is current exactly while the core is in task code.
CurrentIsLive ==
  /\ cpu = "task" <=> current # NO_TASK
  /\ current # NO_TASK => current < len /\ slots[current] # NoId

\* Slots are stable and ids unique: a task that exists has exactly one slot,
\* a reaped or unborn one has none, so find_slot identifies the task.
OneSlotPerTask ==
  /\ \A i \in TaskId : state[i] # "None" <=> \E s \in Slot : s < len /\ slots[s] = i
  /\ \A s, t \in Slot : slots[s] = slots[t] /\ slots[s] # NoId => s = t

\* Running means executing: only the current task is ever marked Running.
RunningIsCurrent ==
  \A i \in TaskId : state[i] = "Running" => cpu = "task" /\ slots[current] = i

\* "The scheduler Mutex is never held across __switch": whoever holds it is
\* the task the core executes.
LockNotHeldAcrossSwitch ==
  lock # NoId => cpu = "task" /\ slots[current] = lock

\* IRQ0 stays in service exactly while one task is parked inside the timer
\* handler without its EOI (or the handler spins), never two, and that task
\* is not the one executing.
OneUnfinishedTimerInterrupt ==
  /\ in_service <=> (isr # {} \/ hung)
  /\ \A i, j \in isr : i = j
  /\ \A i \in isr : state[i] # "None" /\ (cpu = "task" => slots[current] # i)

\* What the five invariants above need besides themselves to be inductive:
\* slots and ids are handed out together, the cursor stays inside the vector,
\* and the handler spins only while somebody holds the lock.
Bookkeeping ==
  /\ len < next_id /\ cursor <= len
  /\ \A s \in Slot : s >= len => slots[s] = NoId
  /\ \A i \in TaskId : i >= next_id => state[i] = "None"
  /\ hung => lock # NoId

\* "Block the current task for at least `ticks` timer ticks": when sleep()
\* returns, its deadline has passed.
SleepLastsLongEnough ==
  \A i \in TaskId : Executes(i) /\ pc[i] = "ret" /\ op[i] = "sleep" => loc[i] = 0

\* "Block until task `id` finishes": when join() returns, the task is gone.
JoinWaitsForExit ==
  \A i \in TaskId : Executes(i) /\ pc[i] = "ret" /\ op[i] = "join" => pc[loc[i]] = "gone"

\* Round robin: unless the handler hangs, every Ready task gets the core.
NoStarvation ==
  [](~hung) => \A i \in TaskId : (state[i] = "Ready") ~> Executes(i)

\* "sleep wakes when due": a sleeper is eventually made runnable again.
SleepersWake ==
  [](~hung) => \A i \in TaskId :
    (state[i] = "Blocked" /\ block[i].kind = "Sleep") ~> state[i] # "Blocked"

\* A joiner is made runnable again once its target has exited.
JoinersWake ==
  [](~hung) => \A i \in TaskId :
    (state[i] = "Blocked" /\ block[i].kind = "Join" /\ pc[block[i].arg] = "gone")
      ~> state[i] # "Blocked"
=============================================================================
