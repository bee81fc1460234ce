-------------------------- MODULE SchedulerProofs --------------------------
(***************************************************************************)
(* The scheduler's safety invariants hold for every number of tasks, every *)
(* slice length and every workload.                                        *)
(***************************************************************************)
EXTENDS Scheduler, WellFoundedInduction, TLAPS

\* The inductive invariant.
IInv ==
  /\ TypeOK
  /\ Bookkeeping
  /\ CurrentIsLive
  /\ OneSlotPerTask
  /\ RunningIsCurrent
  /\ LockNotHeldAcrossSwitch
  /\ OneUnfinishedTimerInterrupt

\* The part of IInv about which task is where: what a context switch changes.
Placed ==
  /\ CurrentIsLive
  /\ OneSlotPerTask
  /\ RunningIsCurrent
  /\ OneUnfinishedTimerInterrupt

\* next_ready only returns the slot of a Ready task.
LEMMA NextReadySlot ==
  ASSUME TypeOK, NEW st \in [TaskId -> TaskState], NEW idx \in next_ready(st)
  PROVE  /\ idx \in Slot /\ idx < len
         /\ slots[idx] \in TaskId
         /\ st[slots[idx]] = "Ready"
  BY SchedulerAssumption DEF SchedulerAssumption, next_ready, ready, TypeOK, Slot, TaskId, NoId

\* The initial state satisfies the invariant.
LEMMA InitIInv == Init => IInv
  <1> SUFFICES ASSUME Init PROVE IInv
    OBVIOUS
  <1> USE SchedulerAssumption DEF Init, SchedulerAssumption
  <1>1. TypeOK
    <2>1. /\ slots \in [Slot -> TaskId \cup {NoId}]
          /\ len \in 0..MaxTasks
          /\ current \in Slot \cup {NO_TASK}
          /\ next_id \in 1..(MaxTasks + 1)
          /\ cursor \in 0..MaxTasks
          /\ lock \in TaskId \cup {NoId}
      OBVIOUS
    <2>2. /\ state \in [TaskId -> TaskState]
          /\ slice \in [TaskId -> 0..DEFAULT_SLICE]
          /\ pc \in [TaskId -> Stage]
          /\ op \in [TaskId -> Calls \cup {"none"}]
          /\ loc \in [TaskId -> Nat]
      BY DEF TaskState, Stage
    <2>3. block \in [TaskId -> BlockReason]
      BY DEF BlockReason, NotBlocked
    <2>4. in_service \in BOOLEAN /\ isr \subseteq TaskId /\ hung \in BOOLEAN
      BY Zenon
    <2> QED
      BY <2>1, <2>2, <2>3, <2>4 DEF TypeOK
  <1>2. Bookkeeping /\ CurrentIsLive /\ OneSlotPerTask /\ RunningIsCurrent
    BY DEF Bookkeeping, CurrentIsLive, OneSlotPerTask, RunningIsCurrent, Slot, TaskId, NoId
  <1>3. LockNotHeldAcrossSwitch /\ OneUnfinishedTimerInterrupt
    BY DEF LockNotHeldAcrossSwitch, OneUnfinishedTimerInterrupt
  <1> QED
    BY <1>1, <1>2, <1>3 DEF IInv
-----------------------------------------------------------------------------
\* A context switch to a Ready slot re-establishes Placed, whatever the states
\* st were on the way, as long as nobody is marked Running in them, they agree
\* with the slots, and at most one task is suspended in the timer handler.
LEMMA SwitchPlaced ==
  ASSUME TypeOK, NEW st \in [TaskId -> TaskState], NEW idx \in next_ready(st),
         NEW suspended \in SUBSET TaskId,
         \A i \in TaskId : st[i] # "Running",
         \A i \in TaskId : st[i] # "None" <=> \E s \in Slot : s < len' /\ slots'[s] = i,
         \A s, t \in Slot : slots'[s] = slots'[t] /\ slots'[s] # NoId => s = t,
         slots'[idx] = slots[idx], len' = len, hung' = FALSE,
         \A i, j \in suspended : i = j,
         \A i \in suspended : st[i] # "None",
         state' = [st EXCEPT ![slots[idx]] = "Running"],
         current' = idx, cursor' = idx + 1, cpu' = "task",
         isr' = suspended \ {slots[idx]},
         in_service' \in BOOLEAN,
         in_service' <=> suspended # {} /\ slots[idx] \notin suspended
  PROVE  /\ Placed'
         /\ state' \in [TaskId -> TaskState]
         /\ current' \in Slot /\ cursor' \in 0..len
         /\ cpu' = "task"
         /\ in_service' \in BOOLEAN /\ isr' \subseteq TaskId
         /\ \A i \in TaskId : st[i] = "None" => state'[i] = "None"
  <1> USE SchedulerAssumption DEF SchedulerAssumption
  <1> DEFINE me == slots[idx]
  <1>1. /\ idx \in Slot /\ idx < len /\ me \in TaskId /\ st[me] = "Ready"
    BY NextReadySlot
  <1>3. /\ state' \in [TaskId -> TaskState]
        /\ state'[me] = "Running"
        /\ \A i \in TaskId : i # me => state'[i] = st[i]
    BY <1>1 DEF TaskState
  <1>4. cursor' \in 0..len
    BY <1>1 DEF TypeOK, Slot
  <1>5. CurrentIsLive'
    BY <1>1 DEF CurrentIsLive, Slot, NO_TASK, NoId, TaskId
  <1>6. OneSlotPerTask'
    BY <1>1, <1>3 DEF OneSlotPerTask
  <1>7. RunningIsCurrent'
    BY <1>1, <1>3 DEF RunningIsCurrent
  <1>8. in_service' <=> isr' # {}
    <2>1. CASE me \in suspended
      <3>1. isr' = {}
        BY <2>1
      <3> QED BY <2>1, <3>1
    <2>2. CASE me \notin suspended
      <3>1. isr' = suspended
        BY <2>2
      <3> QED BY <2>2, <3>1
    <2> QED BY <2>1, <2>2
  <1>9. OneUnfinishedTimerInterrupt'
    BY <1>1, <1>3, <1>8 DEF OneUnfinishedTimerInterrupt
  <1> QED
    BY <1>1, <1>3, <1>4, <1>5, <1>6, <1>7, <1>9 DEF Placed

\* A fresh task enters its body; every other pc is kept.
LEMMA BodyType ==
  ASSUME TypeOK, NEW st \in [TaskId -> TaskState], NEW idx \in next_ready(st),
         NEW where \in [TaskId -> Stage]
  PROVE  current_task_body(idx, where) \in [TaskId -> Stage]
  BY NextReadySlot DEF current_task_body, Stage

\* schedule(), from a task or from the timer handler, preserves Placed.
LEMMA SchedulePlaced ==
  ASSUME IInv, cpu = "task", ~hung,
         NEW st \in [TaskId -> TaskState], NEW where \in [TaskId -> Stage],
         NEW irq0 \in BOOLEAN,
         \A i \in TaskId : st[i] = "None" <=> state[i] = "None",
         \A i \in TaskId : st[i] = "Running" => state[i] = "Running",
         irq0 => ~in_service,
         schedule(st, where, irq0), UNCHANGED <<slots, len, hung>>
  PROVE  /\ Placed'
         /\ state' \in [TaskId -> TaskState]
         /\ current' \in Slot /\ cursor' \in 0..len
         /\ cpu' = "task"
         /\ in_service' \in BOOLEAN /\ isr' \subseteq TaskId
         /\ pc' \in [TaskId -> Stage]
         /\ \A i \in TaskId : state[i] = "None" => state'[i] = "None"
  <1> USE SchedulerAssumption DEF SchedulerAssumption
  <1> DEFINE me == slots[current]
             s1 == Demote(st, me)
  <1>1. /\ current \in Slot /\ current < len /\ me \in TaskId
        /\ state[me] # "None" /\ cursor \in 0..len
    BY DEF IInv, CurrentIsLive, OneSlotPerTask, Bookkeeping, TypeOK, NO_TASK, NoId, Slot, TaskId
  <1>2. /\ s1 \in [TaskId -> TaskState]
        /\ \A i \in TaskId : s1[i] = "None" <=> state[i] = "None"
        /\ \A i \in TaskId : s1[i] # "Running"
    <2>1. s1 \in [TaskId -> TaskState] /\ \A i \in TaskId : i # me => s1[i] = st[i]
      BY <1>1 DEF Demote, TaskState
    <2>2. s1[me] # "Running" /\ s1[me] # "None"
      BY <1>1 DEF Demote, TaskState
    <2>3. \A i \in TaskId : i # me => st[i] # "Running"
      BY DEF IInv, RunningIsCurrent
    <2> QED BY <2>1, <2>2, <2>3, <1>1
  <1>3. /\ \A i \in TaskId : state[i] # "None" <=> \E s \in Slot : s < len /\ slots[s] = i
        /\ \A s, t \in Slot : slots[s] = slots[t] /\ slots[s] # NoId => s = t
    BY DEF IInv, OneSlotPerTask
  <1>4. /\ in_service <=> isr # {}
        /\ in_service \in BOOLEAN /\ isr \subseteq TaskId
        /\ \A i, j \in isr : i = j
        /\ \A i \in isr : state[i] # "None" /\ i # me
    BY DEF IInv, OneUnfinishedTimerInterrupt, TypeOK
  <1>5. CASE /\ next_ready(s1) = {}
             /\ state' = s1
             /\ in_service' = (in_service /\ ~irq0)
             /\ pc' = where
             /\ UNCHANGED <<choice, cpu, isr>>
    <2>1. CurrentIsLive' /\ OneSlotPerTask' /\ RunningIsCurrent'
      BY <1>1, <1>2, <1>3, <1>5 DEF IInv, CurrentIsLive, OneSlotPerTask, RunningIsCurrent, choice
    <2>2. in_service' = in_service
      BY <1>5, <1>4
    <2>3. OneUnfinishedTimerInterrupt'
      BY <1>2, <1>4, <1>5, <2>2 DEF IInv, OneUnfinishedTimerInterrupt, choice
    <2> QED
      BY <1>1, <1>2, <1>4, <1>5, <2>1, <2>2, <2>3 DEF Placed, choice
  <1>6. ASSUME NEW idx \in next_ready(s1),
               prep_switch(s1, idx, IF irq0 THEN isr \cup {me} ELSE isr, in_service \/ irq0),
               pc' = current_task_body(idx, where)
        PROVE  /\ Placed'
               /\ state' \in [TaskId -> TaskState]
               /\ current' \in Slot /\ cursor' \in 0..len
               /\ cpu' = "task"
               /\ in_service' \in BOOLEAN /\ isr' \subseteq TaskId
               /\ pc' \in [TaskId -> Stage]
               /\ \A i \in TaskId : state[i] = "None" => state'[i] = "None"
    <2> DEFINE susp == IF irq0 THEN isr \cup {me} ELSE isr
    <2>1. /\ susp \in SUBSET TaskId
          /\ \A i, j \in susp : i = j
          /\ \A i \in susp : s1[i] # "None"
      BY <1>1, <1>2, <1>4
    <2>2. /\ state' = [s1 EXCEPT ![slots[idx]] = "Running"]
          /\ current' = idx /\ cursor' = idx + 1 /\ cpu' = "task"
          /\ isr' = susp \ {slots[idx]}
      BY <1>6 DEF prep_switch, Land
    <2>10. /\ in_service' \in BOOLEAN
           /\ in_service' <=> susp # {} /\ slots[idx] \notin susp
      BY <1>4, <1>6 DEF prep_switch, Land
    <2>3. TypeOK BY DEF IInv
    <2>4. pc' \in [TaskId -> Stage]
      BY <1>2, <1>6, <2>3, BodyType
    <2>5. /\ \A i \in TaskId : s1[i] # "None" <=> \E s \in Slot : s < len' /\ slots'[s] = i
          /\ \A s, t \in Slot : slots'[s] = slots'[t] /\ slots'[s] # NoId => s = t
          /\ slots'[idx] = slots[idx] /\ len' = len /\ hung' = FALSE
      BY <1>2, <1>3 DEF IInv, TypeOK
    <2> HIDE DEF s1, susp
    <2>7. idx \in next_ready(s1)
      BY <1>6 DEF s1
    <2>8. /\ s1 \in [TaskId -> TaskState]
          /\ \A i \in TaskId : s1[i] # "Running"
          /\ \A i \in TaskId : state[i] = "None" => s1[i] = "None"
      BY <1>2 DEF s1
    <2>9. /\ Placed'
          /\ state' \in [TaskId -> TaskState]
          /\ current' \in Slot /\ cursor' \in 0..len
          /\ cpu' = "task"
          /\ in_service' \in BOOLEAN /\ isr' \subseteq TaskId
          /\ \A i \in TaskId : s1[i] = "None" => state'[i] = "None"
      BY <2>1, <2>2, <2>3, <2>5, <2>7, <2>8, <2>10, SwitchPlaced, ZenonT(60)
    <2> QED
      BY <2>4, <2>8, <2>9
  <1> QED
    BY <1>5, <1>6, Zenon DEF schedule
-----------------------------------------------------------------------------
\* The executing task and its slot.
LEMMA ExecutesSlot ==
  ASSUME IInv, NEW i \in TaskId, Executes(i)
  PROVE  /\ cpu = "task" /\ ~hung
         /\ current \in Slot /\ current < len /\ slots[current] = i
         /\ state[i] # "None"
  BY SchedulerAssumption
  DEF SchedulerAssumption, IInv, TypeOK, CurrentIsLive, OneSlotPerTask, Executes, Slot, TaskId,
      NO_TASK, NoId

\* Steps that only move a task through its own code.
LEMMA LocalStep ==
  ASSUME IInv,
         UNCHANGED <<table, choice, state, slice, cpu, irq>>,
         block' \in [TaskId -> BlockReason],
         pc' \in [TaskId -> Stage],
         op' \in [TaskId -> Calls \cup {"none"}],
         loc' \in [TaskId -> Nat],
         lock' \in TaskId \cup {NoId},
         lock' # NoId => cpu = "task" /\ slots[current] = lock',
         hung => lock' # NoId
  PROVE  IInv'
  <1> USE DEF IInv, table, choice, irq
  <1>1. TypeOK'
    BY DEF TypeOK
  <1>2. Bookkeeping'
    BY DEF Bookkeeping
  <1>3. CurrentIsLive' /\ OneSlotPerTask' /\ RunningIsCurrent'
    BY DEF CurrentIsLive, OneSlotPerTask, RunningIsCurrent
  <1>4. LockNotHeldAcrossSwitch' /\ OneUnfinishedTimerInterrupt'
    BY DEF LockNotHeldAcrossSwitch, OneUnfinishedTimerInterrupt
  <1> QED
    BY <1>1, <1>2, <1>3, <1>4

\* add() puts the new task into a free slot under a fresh id.
LEMMA AddStep ==
  ASSUME IInv, add, ~hung,
         UNCHANGED <<choice, cpu, op, loc, irq>>,
         pc' \in [TaskId -> Stage],
         lock' = NoId
  PROVE  IInv'
  <1> USE SchedulerAssumption DEF SchedulerAssumption, choice, irq
  <1>1. PICK s \in IF holes = {} THEN {len} ELSE Lowest(holes) :
               slots' = [slots EXCEPT ![s] = next_id]
    BY Zenon DEF add
  <1>2. /\ next_id \in TaskId /\ next_id' = next_id + 1
        /\ state' = [state EXCEPT ![next_id] = "Ready"]
        /\ block' = [block EXCEPT ![next_id] = NotBlocked]
        /\ slice' = [slice EXCEPT ![next_id] = DEFAULT_SLICE]
        /\ len' = IF holes = {} THEN len + 1 ELSE len
    BY DEF add, IInv, TypeOK, TaskId
  <1>3. /\ s \in Slot /\ s < len' /\ slots[s] = NoId
        /\ len' \in 0..MaxTasks /\ len <= len' /\ len' < next_id'
    <2>1. CASE holes = {}
      BY <1>1, <1>2, <2>1 DEF IInv, TypeOK, Bookkeeping, Slot, TaskId
    <2>2. CASE holes # {}
      <3>1. s \in holes
        BY <1>1, <2>2 DEF Lowest
      <3>2. len' = len /\ next_id' = next_id + 1
        BY <1>2, <2>2
      <3>3. s \in 0..(len - 1) /\ slots[s] = NoId
        BY <3>1 DEF holes
      <3> QED
        BY <3>2, <3>3 DEF IInv, TypeOK, Bookkeeping, Slot
    <2> QED BY <2>1, <2>2
  <1>4. state[next_id] = "None" /\ \A t \in Slot : slots[t] # next_id
    BY <1>2 DEF IInv, TypeOK, Bookkeeping, OneSlotPerTask, Slot, TaskId, NoId
  <1>5. TypeOK'
    <2>1. /\ slots' \in [Slot -> TaskId \cup {NoId}]
          /\ next_id' \in 1..(MaxTasks + 1)
      BY <1>1, <1>2, <1>3 DEF IInv, TypeOK, TaskId
    <2>2. state' \in [TaskId -> TaskState]
      BY <1>2 DEF IInv, TypeOK, TaskState
    <2>3. block' \in [TaskId -> BlockReason] /\ slice' \in [TaskId -> 0..DEFAULT_SLICE]
      BY <1>2 DEF IInv, TypeOK, BlockReason, NotBlocked
    <2> QED
      BY <1>3, <2>1, <2>2, <2>3, Zenon DEF IInv, TypeOK
  <1>6. Bookkeeping'
    BY <1>1, <1>2, <1>3 DEF IInv, TypeOK, Bookkeeping, Slot, TaskId
  <1>7. CurrentIsLive'
    BY <1>1, <1>2, <1>3 DEF IInv, TypeOK, CurrentIsLive, Slot, TaskId, NoId, NO_TASK
  <1>8. OneSlotPerTask'
    <2>1. /\ slots'[s] = next_id
          /\ \A t \in Slot : t # s => slots'[t] = slots[t]
          /\ \A i \in TaskId : i # next_id => state'[i] = state[i]
          /\ state'[next_id] = "Ready"
      BY <1>1, <1>2, <1>3 DEF IInv, TypeOK
    <2>2. \A t \in Slot : t < len' /\ t # s => t < len
      BY <1>1, <1>2, <1>3 DEF IInv, TypeOK, Slot, holes
    <2>3. \A i \in TaskId : state'[i] # "None" <=> \E t \in Slot : t < len' /\ slots'[t] = i
      <3> SUFFICES ASSUME NEW i \in TaskId
                   PROVE  state'[i] # "None" <=> \E t \in Slot : t < len' /\ slots'[t] = i
        OBVIOUS
      <3>1. CASE i = next_id
        BY <1>3, <2>1, <3>1
      <3>2. CASE i # next_id
        <4>1. slots[s] # i
          BY <1>3 DEF TaskId, NoId
        <4>2. state[i] # "None" <=> \E t \in Slot : t < len /\ slots[t] = i
          BY DEF IInv, OneSlotPerTask
        <4>3. \A t \in Slot : t < len => t < len'
          BY <1>3 DEF IInv, TypeOK, Slot
        <4> QED
          BY <2>1, <2>2, <3>2, <4>1, <4>2, <4>3
      <3> QED BY <3>1, <3>2
    <2>4. \A t, u \in Slot : slots'[t] = slots'[u] /\ slots'[t] # NoId => t = u
      BY <1>4, <2>1 DEF IInv, OneSlotPerTask
    <2> QED BY <2>3, <2>4 DEF OneSlotPerTask
  <1>9. RunningIsCurrent'
    BY <1>1, <1>2, <1>3, <1>4 DEF IInv, TypeOK, RunningIsCurrent, CurrentIsLive, Slot, TaskId, NoId, NO_TASK
  <1>10. OneUnfinishedTimerInterrupt'
    BY <1>1, <1>2, <1>3, <1>4, Zenon
    DEF IInv, TypeOK, OneUnfinishedTimerInterrupt, CurrentIsLive, Slot, TaskId, NoId, NO_TASK
  <1> QED
    BY <1>5, <1>6, <1>7, <1>8, <1>9, <1>10 DEF IInv, LockNotHeldAcrossSwitch

LEMMA BootSpawnStep == IInv /\ BootSpawn => IInv'
  <1> SUFFICES ASSUME IInv, BootSpawn PROVE IInv'
    OBVIOUS
  <1>1. lock = NoId /\ ~hung
    BY DEF IInv, Bookkeeping, LockNotHeldAcrossSwitch, BootSpawn
  <1>2. pc' \in [TaskId -> Stage]
    BY DEF IInv, TypeOK, BootSpawn, control
  <1> QED
    BY <1>1, <1>2, AddStep DEF BootSpawn, control

LEMMA SpawnStep == ASSUME NEW i \in TaskId PROVE IInv /\ spawn(i) => IInv'
  <1> SUFFICES ASSUME IInv, spawn(i) PROVE IInv'
    OBVIOUS
  <1>1. ~hung
    BY DEF spawn, Release, Executes
  <1>2. pc' \in [TaskId -> Stage]
    BY DEF IInv, TypeOK, spawn, Release, Stage
  <1> QED
    BY <1>1, <1>2, AddStep DEF spawn, Release

LEMMA CallStep == ASSUME NEW i \in TaskId PROVE IInv /\ Call(i) => IInv'
  <1> USE SchedulerAssumption DEF SchedulerAssumption
  <1> SUFFICES ASSUME IInv, Call(i) PROVE IInv'
    OBVIOUS
  <1>1. PICK o \in Body[i] \ {"exit"} :
          /\ op' = [op EXCEPT ![i] = o]
          /\ pc' = [pc EXCEPT ![i] = IF o = "yield" THEN "sched" ELSE "lock"]
          /\ \E v \in CASE o = "sleep" -> SleepTicks
                        [] o = "join"  -> 1..(next_id - 1) \ {i}
                        [] OTHER       -> {0} :
               loc' = [loc EXCEPT ![i] = v]
    BY Zenon DEF Call
  <1>2. PICK v \in CASE o = "sleep" -> SleepTicks
                     [] o = "join"  -> 1..(next_id - 1) \ {i}
                     [] OTHER       -> {0} : loc' = [loc EXCEPT ![i] = v]
    BY <1>1, Zenon
  <1>3. v \in Nat
    <2>1. CASE o = "sleep" BY <1>2, <2>1
    <2>2. CASE o = "join" BY <1>2, <2>2 DEF IInv, TypeOK
    <2>3. CASE o # "sleep" /\ o # "join" BY <1>2, <2>3
    <2> QED BY <2>1, <2>2, <2>3
  <1>4. o \in Calls
    BY DEF TaskId
  <1>5. /\ op' \in [TaskId -> Calls \cup {"none"}]
        /\ loc' \in [TaskId -> Nat]
        /\ pc' \in [TaskId -> Stage]
    BY <1>1, <1>2, <1>3, <1>4, Zenon DEF IInv, TypeOK, Stage
  <1> QED
    BY <1>5, LocalStep, Zenon
    DEF Call, IInv, TypeOK, LockNotHeldAcrossSwitch, Bookkeeping, table, choice, irq

LEMMA AcquireStep == ASSUME NEW i \in TaskId PROVE IInv /\ Acquire(i) => IInv'
  <1> SUFFICES ASSUME IInv, Acquire(i) PROVE IInv'
    OBVIOUS
  <1>1. pc' \in [TaskId -> Stage]
    BY DEF Acquire, IInv, TypeOK, Stage
  <1> QED
    BY <1>1, LocalStep DEF Acquire, Executes, IInv, TypeOK, table, choice, irq

\* snapshot() and join()'s first critical section change nothing shared.
LEMMA ReadOnlyStep ==
  ASSUME NEW i \in TaskId PROVE IInv /\ (snapshot(i) \/ join_check(i)) => IInv'
  <1> SUFFICES ASSUME IInv, snapshot(i) \/ join_check(i) PROVE IInv'
    OBVIOUS
  <1>1. pc' \in [TaskId -> Stage]
    BY DEF snapshot, join_check, Release, IInv, TypeOK, Stage
  <1>2. /\ UNCHANGED <<table, choice, state, block, slice, cpu, op, loc, irq>>
        /\ lock' = NoId /\ ~hung
    BY DEF snapshot, join_check, Release, Executes
  <1> QED
    BY <1>1, <1>2, LocalStep DEF IInv, TypeOK

LEMMA ReturnStep == ASSUME NEW i \in TaskId PROVE IInv /\ Return(i) => IInv'
  <1> SUFFICES ASSUME IInv, Return(i) PROVE IInv'
    OBVIOUS
  <1>1. /\ pc' \in [TaskId -> Stage]
        /\ op' \in [TaskId -> Calls \cup {"none"}]
        /\ loc' \in [TaskId -> Nat]
    BY DEF Return, IInv, TypeOK, Stage
  <1> QED
    BY <1>1, LocalStep
    DEF Return, IInv, TypeOK, LockNotHeldAcrossSwitch, Bookkeeping, table, choice, irq

\* sleep() and join() mark the executing task Blocked, under the lock.
LEMMA MarkBlockedStep ==
  ASSUME NEW i \in TaskId PROVE IInv /\ (sleep(i) \/ join_block(i)) => IInv'
  <1> SUFFICES ASSUME IInv, sleep(i) \/ join_block(i) PROVE IInv'
    OBVIOUS
  <1>1. PICK kind \in {"Sleep", "Join"} : MarkBlocked(i, kind)
    BY DEF sleep, join_block
  <1>2. /\ Executes(i) /\ lock' = NoId /\ pc' = [pc EXCEPT ![i] = "sched"]
        /\ UNCHANGED <<choice, cpu, op, loc, irq>>
    BY DEF sleep, join_block, Release
  <1>3. /\ cpu = "task" /\ ~hung /\ slots[current] = i /\ state[i] # "None"
    BY <1>2, ExecutesSlot
  <1>4. /\ state' = [state EXCEPT ![i] = "Blocked"]
        /\ UNCHANGED <<slots, len, next_id, slice>>
    BY <1>1 DEF MarkBlocked, table
  <1>5. block' \in [TaskId -> BlockReason]
    <2>1. [kind |-> kind, arg |-> loc[i]] \in BlockReason
      BY DEF IInv, TypeOK, BlockReason
    <2> QED BY <1>1, <2>1 DEF MarkBlocked, IInv, TypeOK
  <1>6. TypeOK'
    <2>1. state' \in [TaskId -> TaskState] /\ pc' \in [TaskId -> Stage]
      BY <1>2, <1>4 DEF IInv, TypeOK, TaskState, Stage
    <2> QED BY <1>2, <1>4, <1>5, <2>1 DEF IInv, TypeOK, choice, irq
  <1>7. Bookkeeping' /\ CurrentIsLive'
    BY <1>2, <1>3, <1>4 DEF IInv, TypeOK, Bookkeeping, CurrentIsLive, choice, irq
  <1>8. OneSlotPerTask' /\ RunningIsCurrent'
    BY <1>2, <1>3, <1>4 DEF IInv, TypeOK, OneSlotPerTask, RunningIsCurrent, choice
  <1>9. LockNotHeldAcrossSwitch' /\ OneUnfinishedTimerInterrupt'
    BY <1>2, <1>3, <1>4
    DEF IInv, TypeOK, LockNotHeldAcrossSwitch, OneUnfinishedTimerInterrupt, choice, irq
  <1> QED
    BY <1>6, <1>7, <1>8, <1>9 DEF IInv

\* What Placed and the types of the variables it constrains leave of IInv.
LEMMA Assemble ==
  ASSUME IInv, Placed',
         state' \in [TaskId -> TaskState],
         current' \in Slot \cup {NO_TASK}, cursor' \in 0..len,
         cpu' \in {"boot", "task", "idle"},
         in_service' \in BOOLEAN, isr' \subseteq TaskId,
         pc' \in [TaskId -> Stage],
         \A i \in TaskId : state[i] = "None" => state'[i] = "None",
         slots' \in [Slot -> TaskId \cup {NoId}],
         \A s \in Slot : slots[s] = NoId => slots'[s] = NoId,
         block' \in [TaskId -> BlockReason],
         slice' \in [TaskId -> 0..DEFAULT_SLICE],
         loc' \in [TaskId -> Nat],
         lock = NoId, UNCHANGED <<len, next_id, lock, op, hung>>
  PROVE  IInv'
  <1> USE SchedulerAssumption DEF SchedulerAssumption
  <1>1. TypeOK'
    BY DEF IInv, TypeOK
  <1>2. Bookkeeping'
    BY DEF IInv, TypeOK, Bookkeeping
  <1>3. LockNotHeldAcrossSwitch'
    BY DEF LockNotHeldAcrossSwitch
  <1> QED
    BY <1>1, <1>2, <1>3 DEF Placed, IInv

LEMMA ScheduleStep == ASSUME NEW i \in TaskId PROVE IInv /\ Schedule(i) => IInv'
  <1> SUFFICES ASSUME IInv, Schedule(i) PROVE IInv'
    OBVIOUS
  <1> DEFINE where == [pc EXCEPT ![i] = "ret"]
  <1>1. /\ cpu = "task" /\ ~hung /\ lock = NoId
        /\ UNCHANGED <<slots, len, next_id, block, slice, lock, op, loc, hung>>
        /\ schedule(state, where, FALSE)
    BY Zenon DEF Schedule, Executes, table
  <1>2. state \in [TaskId -> TaskState] /\ where \in [TaskId -> Stage]
    BY DEF IInv, TypeOK, Stage
  <1> HIDE DEF where
  <1>3. /\ Placed'
        /\ state' \in [TaskId -> TaskState]
        /\ current' \in Slot /\ cursor' \in 0..len
        /\ cpu' = "task"
        /\ in_service' \in BOOLEAN /\ isr' \subseteq TaskId
        /\ pc' \in [TaskId -> Stage]
        /\ \A j \in TaskId : state[j] = "None" => state'[j] = "None"
    BY <1>1, <1>2, SchedulePlaced, Zenon
  <1> QED
    BY <1>1, <1>3, Assemble, Zenon DEF IInv, TypeOK

LEMMA StartStep == IInv /\ start => IInv'
  <1> SUFFICES ASSUME IInv, start PROVE IInv'
    OBVIOUS
  <1>1. /\ cpu = "boot" /\ lock = NoId /\ ~hung
        /\ UNCHANGED <<slots, len, next_id, block, slice, lock, op, loc, hung>>
    BY DEF start, table, irq, IInv, LockNotHeldAcrossSwitch, Bookkeeping
  <1>2. /\ TypeOK /\ current = NO_TASK
        /\ \A i \in TaskId : state[i] # "Running"
        /\ \A i \in TaskId : state[i] # "None" <=> \E s \in Slot : s < len /\ slots[s] = i
        /\ \A s, t \in Slot : slots[s] = slots[t] /\ slots[s] # NoId => s = t
    BY <1>1 DEF IInv, CurrentIsLive, RunningIsCurrent, OneSlotPerTask
  <1>3. /\ in_service <=> isr # {}
        /\ in_service \in BOOLEAN /\ isr \in SUBSET TaskId
        /\ \A i, j \in isr : i = j
        /\ \A i \in isr : state[i] # "None"
    BY <1>1 DEF IInv, OneUnfinishedTimerInterrupt, TypeOK
  <1>4. CASE /\ cpu' = "idle"
             /\ UNCHANGED <<choice, state, pc, irq>>
    <2>1. Placed'
      <3>1. /\ cpu' = "idle" /\ current' = NO_TASK
            /\ state' = state /\ in_service' = in_service /\ isr' = isr /\ hung' = hung
        BY <1>2, <1>4 DEF choice, irq
      <3>2. CurrentIsLive'
        BY <3>1 DEF CurrentIsLive
      <3>3. OneSlotPerTask'
        BY <1>1, <1>2, <3>1 DEF OneSlotPerTask
      <3>4. RunningIsCurrent'
        BY <1>2, <3>1 DEF RunningIsCurrent
      <3>5. OneUnfinishedTimerInterrupt'
        BY <1>1, <1>3, <3>1 DEF OneUnfinishedTimerInterrupt
      <3> QED
        BY <3>2, <3>3, <3>4, <3>5 DEF Placed
    <2>2. /\ state' \in [TaskId -> TaskState]
          /\ current' \in Slot \cup {NO_TASK} /\ cursor' \in 0..len
          /\ cpu' \in {"boot", "task", "idle"}
          /\ in_service' \in BOOLEAN /\ isr' \subseteq TaskId
          /\ pc' \in [TaskId -> Stage]
      BY <1>2, <1>4 DEF IInv, TypeOK, Bookkeeping, choice, irq
    <2>3. /\ \A i \in TaskId : state[i] = "None" => state'[i] = "None"
          /\ slots' \in [Slot -> TaskId \cup {NoId}]
          /\ \A s \in Slot : slots[s] = NoId => slots'[s] = NoId
          /\ block' \in [TaskId -> BlockReason] /\ slice' \in [TaskId -> 0..DEFAULT_SLICE]
          /\ loc' \in [TaskId -> Nat]
      BY <1>1, <1>2, <1>4 DEF TypeOK
    <2> QED
      BY <1>1, <2>1, <2>2, <2>3, Assemble
  <1>5. ASSUME NEW idx \in next_ready(state),
               prep_switch(state, idx, isr, in_service),
               pc' = current_task_body(idx, pc)
        PROVE  IInv'
    <2>1. /\ state' = [state EXCEPT ![slots[idx]] = "Running"]
          /\ current' = idx /\ cursor' = idx + 1 /\ cpu' = "task"
          /\ isr' = isr \ {slots[idx]}
      BY <1>5 DEF prep_switch, Land
    <2>2. /\ in_service' \in BOOLEAN
          /\ in_service' <=> isr # {} /\ slots[idx] \notin isr
      BY <1>3, <1>5, Zenon DEF prep_switch, Land
    <2>3. state \in [TaskId -> TaskState] /\ pc \in [TaskId -> Stage] /\ hung' = FALSE
      BY <1>1 DEF IInv, TypeOK
    <2>6. /\ \A i \in TaskId : state[i] # "None" <=> \E s \in Slot : s < len' /\ slots'[s] = i
          /\ \A s, t \in Slot : slots'[s] = slots'[t] /\ slots'[s] # NoId => s = t
          /\ slots'[idx] = slots[idx] /\ len' = len
      BY <1>1, <1>2
    <2>4. /\ Placed'
          /\ state' \in [TaskId -> TaskState]
          /\ current' \in Slot /\ cursor' \in 0..len
          /\ cpu' = "task"
          /\ in_service' \in BOOLEAN /\ isr' \subseteq TaskId
          /\ \A i \in TaskId : state[i] = "None" => state'[i] = "None"
      <3>1. TypeOK /\ \A i \in TaskId : state[i] # "Running"
        BY <1>2
      <3>2. /\ isr \in SUBSET TaskId
            /\ \A i, j \in isr : i = j
            /\ \A i \in isr : state[i] # "None"
        BY <1>3
      <3> QED
        BY <1>5, <2>1, <2>2, <2>3, <2>6, <3>1, <3>2, SwitchPlaced, ZenonT(60)
    <2>5. pc' \in [TaskId -> Stage]
      BY <1>2, <1>5, <2>3, BodyType
    <2>7. /\ slots' \in [Slot -> TaskId \cup {NoId}]
          /\ \A s \in Slot : slots[s] = NoId => slots'[s] = NoId
          /\ block' \in [TaskId -> BlockReason] /\ slice' \in [TaskId -> 0..DEFAULT_SLICE]
          /\ loc' \in [TaskId -> Nat]
      BY <1>1, <1>2 DEF TypeOK
    <2>8. current' \in Slot \cup {NO_TASK} /\ cpu' \in {"boot", "task", "idle"}
      BY <2>4
    <2> QED
      BY <1>1, <2>4, <2>5, <2>7, <2>8, Assemble
  <1> QED
    BY <1>4, <1>5 DEF start

\* The exit of the executing task empties its slot, so the states Reaped
\* leaves agree with the slots again.
LEMMA ExitStep == ASSUME NEW i \in TaskId PROVE IInv /\ exit_current(i) => IInv'
  <1> USE SchedulerAssumption DEF SchedulerAssumption
  <1> SUFFICES ASSUME IInv, exit_current(i) PROVE IInv'
    OBVIOUS
  <1> DEFINE st   == Reaped(i)
             gone == [pc EXCEPT ![i] = "gone"]
  <1>1. /\ Executes(i) /\ lock = NoId
        /\ slots' = [slots EXCEPT ![current] = NoId]
        /\ block' = [j \in TaskId |-> IF j \in Joiners(i) THEN NotBlocked ELSE block[j]]
        /\ UNCHANGED <<len, next_id, slice, lock, op, loc, hung>>
    BY DEF exit_current
  <1>2. /\ cpu = "task" /\ ~hung /\ TypeOK
        /\ current \in Slot /\ current < len /\ slots[current] = i
        /\ state[i] # "None"
    BY <1>1, ExecutesSlot DEF IInv
  <1>3. /\ st \in [TaskId -> TaskState] /\ st[i] = "None"
        /\ \A j \in TaskId : j # i => (st[j] = "None" <=> state[j] = "None")
        /\ \A j \in TaskId : st[j] # "Running"
    <2>1. \A j \in TaskId : st[j] = IF j = i THEN "None" ELSE IF j \in Joiners(i) THEN "Ready" ELSE state[j]
      BY DEF Reaped
    <2>2. \A j \in Joiners(i) : state[j] = "Blocked"
      BY DEF Joiners
    <2>3. \A j \in TaskId : j # i => state[j] # "Running"
      BY <1>2 DEF IInv, RunningIsCurrent
    <2>4. st \in [TaskId -> TaskState]
      BY DEF Reaped, IInv, TypeOK, TaskState
    <2> QED BY <2>1, <2>2, <2>3, <2>4
  <1>4. /\ slots' \in [Slot -> TaskId \cup {NoId}]
        /\ slots'[current] = NoId
        /\ \A s \in Slot : s # current => slots'[s] = slots[s]
    BY <1>1, <1>2 DEF TypeOK
  <1>5. \A s, t \in Slot : slots'[s] = slots'[t] /\ slots'[s] # NoId => s = t
    <2>1. \A s, t \in Slot : slots[s] = slots[t] /\ slots[s] # NoId => s = t
      BY DEF IInv, OneSlotPerTask
    <2> QED BY <2>1, <1>4
  <1>6. \A j \in TaskId : st[j] # "None" <=> \E s \in Slot : s < len' /\ slots'[s] = j
    <2> SUFFICES ASSUME NEW j \in TaskId
                 PROVE  st[j] # "None" <=> \E s \in Slot : s < len' /\ slots'[s] = j
      OBVIOUS
    <2>1. \A s \in Slot : slots[s] = i => s = current
      BY <1>2 DEF IInv, OneSlotPerTask, TaskId, NoId
    <2>2. NoId # j
      BY DEF TaskId, NoId
    <2>3. CASE j = i
      BY <1>3, <1>4, <2>1, <2>2, <2>3
    <2>4. CASE j # i
      <3>1. state[j] # "None" <=> \E s \in Slot : s < len /\ slots[s] = j
        BY DEF IInv, OneSlotPerTask
      <3> QED BY <1>1, <1>2, <1>3, <1>4, <2>2, <2>4, <3>1
    <2> QED BY <2>3, <2>4
  <1>7. /\ in_service <=> isr # {}
        /\ in_service \in BOOLEAN /\ isr \in SUBSET TaskId
        /\ \A j, k \in isr : j = k
        /\ \A j \in isr : j # i /\ state[j] # "None"
    BY <1>2 DEF IInv, OneUnfinishedTimerInterrupt, TypeOK
  <1>8. \A j \in isr : st[j] # "None"
    BY <1>3, <1>7
  <1>9. block' \in [TaskId -> BlockReason] /\ gone \in [TaskId -> Stage]
    BY <1>1 DEF IInv, TypeOK, BlockReason, NotBlocked, Stage
  <1>10. /\ \A j \in TaskId : state[j] = "None" => st[j] = "None"
         /\ \A s \in Slot : slots[s] = NoId => slots'[s] = NoId
    BY <1>3, <1>4
  <1>11. \/ /\ state' = st /\ current' = NO_TASK /\ cpu' = "idle" /\ pc' = gone
            /\ UNCHANGED <<cursor, isr, in_service>>
         \/ \E idx \in next_ready(st) :
              /\ prep_switch(st, idx, isr, in_service)
              /\ pc' = current_task_body(idx, gone)
    BY Zenon DEF exit_current
  <1>17. \A idx \in next_ready(st) : slots'[idx] = slots[idx]
    BY <1>2, <1>3, <1>4, NextReadySlot
  <1> HIDE DEF st, gone
  <1>12. CASE /\ state' = st /\ current' = NO_TASK /\ cpu' = "idle" /\ pc' = gone
              /\ UNCHANGED <<cursor, isr, in_service>>
    <2>1. CurrentIsLive' /\ OneSlotPerTask' /\ RunningIsCurrent'
      BY <1>3, <1>5, <1>6, <1>12 DEF CurrentIsLive, OneSlotPerTask, RunningIsCurrent
    <2>2. OneUnfinishedTimerInterrupt'
      BY <1>1, <1>2, <1>7, <1>8, <1>12 DEF OneUnfinishedTimerInterrupt
    <2>3. cursor' \in 0..len
      BY <1>12 DEF IInv, TypeOK, Bookkeeping
    <2> QED
      BY <1>1, <1>3, <1>4, <1>7, <1>9, <1>10, <1>12, <2>1, <2>2, <2>3, Assemble, Zenon
      DEF Placed, IInv, TypeOK
  <1>13. ASSUME NEW idx \in next_ready(st),
                prep_switch(st, idx, isr, in_service),
                pc' = current_task_body(idx, gone)
         PROVE  IInv'
    <2>1. /\ state' = [st EXCEPT ![slots[idx]] = "Running"]
          /\ current' = idx /\ cursor' = idx + 1 /\ cpu' = "task"
          /\ isr' = isr \ {slots[idx]}
      BY <1>13 DEF prep_switch, Land
    <2>2. /\ in_service' \in BOOLEAN
          /\ in_service' <=> isr # {} /\ slots[idx] \notin isr
      BY <1>7, <1>13, Zenon DEF prep_switch, Land
    <2>3. hung' = FALSE /\ len' = len
      BY <1>1, <1>2 DEF TypeOK
    <2>4. /\ Placed'
          /\ state' \in [TaskId -> TaskState]
          /\ current' \in Slot /\ cursor' \in 0..len
          /\ cpu' = "task"
          /\ in_service' \in BOOLEAN /\ isr' \subseteq TaskId
          /\ \A j \in TaskId : st[j] = "None" => state'[j] = "None"
      BY <1>2, <1>3, <1>5, <1>6, <1>7, <1>8, <1>17, <2>1, <2>2, <2>3, SwitchPlaced, Zenon
    <2>5. pc' \in [TaskId -> Stage]
      BY <1>2, <1>3, <1>9, <1>13, BodyType
    <2> QED
      BY <1>1, <1>4, <1>9, <1>10, <2>4, <2>5, Assemble, Zenon DEF IInv, TypeOK
  <1> QED
    BY <1>11, <1>12, <1>13
-----------------------------------------------------------------------------
\* Ageing keeps the types of the deadlines.
LEMMA ElapsedType ==
  ASSUME TypeOK
  PROVE  /\ LocElapsed \in [TaskId -> Nat]
         /\ \A i \in TaskId : Elapsed(block[i]) \in BlockReason
  <1>1. \A n \in Nat : Minus1(n) \in Nat
    BY DEF Minus1
  <1>2. \A b \in BlockReason : Elapsed(b) \in BlockReason
    BY <1>1 DEF Elapsed, BlockReason
  <1> QED
    BY <1>1, <1>2 DEF LocElapsed, TypeOK

\* The timer handler once it has the lock: sleepers wake, the slice is charged
\* and the current task may be preempted.
LEMMA TickStep ==
  ASSUME IInv, tick, ~in_service, ~hung, lock = NoId,
         loc' \in [TaskId -> Nat],
         UNCHANGED <<slots, len, next_id, lock, op, hung>>
  PROVE  IInv'
  <1> USE SchedulerAssumption DEF SchedulerAssumption
  <1> DEFINE aged  == [i \in TaskId |-> Elapsed(block[i])]
             woken == {i \in TaskId : state[i] = "Blocked" /\ Due(aged[i])}
             st    == [i \in TaskId |-> IF i \in woken THEN "Ready" ELSE state[i]]
  <1>1. TypeOK
    BY DEF IInv
  <1>2. block' \in [TaskId -> BlockReason]
    <2>1. block' = [i \in TaskId |-> IF i \in woken THEN NotBlocked ELSE aged[i]]
      BY DEF tick
    <2>2. NotBlocked \in BlockReason
      BY DEF NotBlocked, BlockReason
    <2>3. \A i \in TaskId : aged[i] \in BlockReason
      BY <1>1, ElapsedType
    <2> QED BY <2>1, <2>2, <2>3
  <1>3. /\ st \in [TaskId -> TaskState]
        /\ \A i \in TaskId : st[i] = "None" <=> state[i] = "None"
        /\ \A i \in TaskId : st[i] = "Running" => state[i] = "Running"
    BY <1>1 DEF TypeOK, TaskState
  <1>4. \/ /\ state' = st
           /\ \/ slice' = slice
              \/ /\ current # NO_TASK /\ slice[slots[current]] # 0
                 /\ slice' = [slice EXCEPT ![slots[current]] = @ - 1]
           /\ UNCHANGED <<choice, cpu, pc, in_service, isr>>
        \/ /\ current # NO_TASK
           /\ slice' = [slice EXCEPT ![slots[current]] = DEFAULT_SLICE]
           /\ schedule(st, pc, TRUE)
    BY Zenon DEF tick
  <1>5. current # NO_TASK => slots[current] \in TaskId /\ cpu = "task"
    BY DEF IInv, TypeOK, CurrentIsLive, TaskId, NoId
  <1> HIDE DEF st
  <1>6. CASE /\ state' = st
             /\ \/ slice' = slice
                \/ /\ current # NO_TASK /\ slice[slots[current]] # 0
                   /\ slice' = [slice EXCEPT ![slots[current]] = @ - 1]
             /\ UNCHANGED <<choice, cpu, pc, in_service, isr>>
    <2>1. slice' \in [TaskId -> 0..DEFAULT_SLICE]
      <3>1. CASE slice' = slice
        BY <1>1, <3>1 DEF TypeOK
      <3>2. CASE /\ current # NO_TASK /\ slice[slots[current]] # 0
                 /\ slice' = [slice EXCEPT ![slots[current]] = @ - 1]
        <4>1. slice[slots[current]] - 1 \in 0..DEFAULT_SLICE
          <5>1. slice[slots[current]] \in 0..DEFAULT_SLICE
            BY <1>1, <1>5, <3>2 DEF TypeOK
          <5> QED BY <5>1, <3>2
        <4> QED BY <1>1, <3>2, <4>1, Zenon DEF TypeOK
      <3> QED BY <1>6, <3>1, <3>2
    <2>2. CurrentIsLive' /\ OneSlotPerTask' /\ RunningIsCurrent'
      BY <1>3, <1>6 DEF IInv, CurrentIsLive, OneSlotPerTask, RunningIsCurrent, choice
    <2>3. OneUnfinishedTimerInterrupt'
      BY <1>1, <1>3, <1>6 DEF IInv, TypeOK, OneUnfinishedTimerInterrupt, choice
    <2>4. /\ state' \in [TaskId -> TaskState]
          /\ current' \in Slot \cup {NO_TASK} /\ cursor' \in 0..len
          /\ cpu' \in {"boot", "task", "idle"}
          /\ in_service' \in BOOLEAN /\ isr' \subseteq TaskId
          /\ pc' \in [TaskId -> Stage]
      <3>1. cursor \in 0..len
        BY <1>1 DEF IInv, TypeOK, Bookkeeping
      <3>2. /\ state' = st /\ current' = current /\ cursor' = cursor
            /\ UNCHANGED <<cpu, pc, in_service, isr>>
        BY <1>6 DEF choice
      <3>3. /\ current \in Slot \cup {NO_TASK} /\ cpu \in {"boot", "task", "idle"}
            /\ in_service \in BOOLEAN /\ isr \subseteq TaskId /\ pc \in [TaskId -> Stage]
        BY <1>1 DEF TypeOK
      <3>4. st \in [TaskId -> TaskState]
        BY <1>3
      <3> QED BY <3>1, <3>2, <3>3, <3>4
    <2>5. /\ \A i \in TaskId : state[i] = "None" => state'[i] = "None"
          /\ slots' \in [Slot -> TaskId \cup {NoId}]
          /\ \A s \in Slot : slots[s] = NoId => slots'[s] = NoId
      BY <1>1, <1>3, <1>6 DEF TypeOK
    <2>6. Placed'
      BY <2>2, <2>3 DEF Placed
    <2> QED
      BY <1>2, <2>1, <2>4, <2>5, <2>6, Assemble
  <1>7. CASE /\ current # NO_TASK
             /\ slice' = [slice EXCEPT ![slots[current]] = DEFAULT_SLICE]
             /\ schedule(st, pc, TRUE)
    <2>1. slice' \in [TaskId -> 0..DEFAULT_SLICE] /\ pc \in [TaskId -> Stage]
      BY <1>1, <1>5, <1>7 DEF TypeOK
    <2>2. /\ Placed'
          /\ state' \in [TaskId -> TaskState]
          /\ current' \in Slot /\ cursor' \in 0..len
          /\ cpu' = "task"
          /\ in_service' \in BOOLEAN /\ isr' \subseteq TaskId
          /\ pc' \in [TaskId -> Stage]
          /\ \A i \in TaskId : state[i] = "None" => state'[i] = "None"
      BY <1>3, <1>5, <1>7, <2>1, SchedulePlaced, Zenon
    <2> QED
      BY <1>2, <2>1, <2>2, Assemble, Zenon DEF IInv, TypeOK
  <1> QED
    BY <1>4, <1>6, <1>7, Zenon

LEMMA TimerStep == IInv /\ timer_interrupt_handler => IInv'
  <1> SUFFICES ASSUME IInv, timer_interrupt_handler PROVE IInv'
    OBVIOUS
  <1>1. /\ loc' = LocElapsed /\ ~in_service /\ ~hung /\ TypeOK
        /\ UNCHANGED <<slots, len, next_id, lock, op>>
    BY DEF timer_interrupt_handler, table, IInv
  <1>2. loc' \in [TaskId -> Nat]
    BY <1>1, ElapsedType
  <1>3. CASE lock = NoId /\ tick /\ UNCHANGED hung
    BY <1>1, <1>2, <1>3, TickStep
  <1>4. CASE /\ lock # NoId
             /\ hung' = TRUE
             /\ in_service' = TRUE
             /\ block' = [i \in TaskId |-> Elapsed(block[i])]
             /\ UNCHANGED <<choice, state, slice, cpu, pc, isr>>
    <2>1. block' \in [TaskId -> BlockReason]
      BY <1>1, <1>4, ElapsedType
    <2>2. TypeOK'
      BY <1>1, <1>2, <1>4, <2>1 DEF TypeOK, choice
    <2>3. Bookkeeping' /\ CurrentIsLive' /\ OneSlotPerTask' /\ RunningIsCurrent'
      BY <1>1, <1>4
      DEF IInv, Bookkeeping, CurrentIsLive, OneSlotPerTask, RunningIsCurrent, choice
    <2>4. LockNotHeldAcrossSwitch' /\ OneUnfinishedTimerInterrupt'
      BY <1>1, <1>4 DEF IInv, LockNotHeldAcrossSwitch, OneUnfinishedTimerInterrupt, choice
    <2> QED
      BY <2>2, <2>3, <2>4 DEF IInv
  <1> QED
    BY <1>3, <1>4, Zenon DEF timer_interrupt_handler
-----------------------------------------------------------------------------
\* Every step of the kernel preserves the invariant.
THEOREM Inductive == IInv /\ [Next]_vars => IInv'
  <1> SUFFICES ASSUME IInv, [Next]_vars PROVE IInv'
    OBVIOUS
  <1>1. CASE BootSpawn
    BY <1>1, BootSpawnStep
  <1>2. CASE start
    BY <1>2, StartStep
  <1>3. ASSUME NEW i \in TaskId, TaskStep(i) PROVE IInv'
    BY <1>3, CallStep, AcquireStep, SpawnStep, ReadOnlyStep, MarkBlockedStep, ScheduleStep,
       ReturnStep, ExitStep
    DEF TaskStep
  <1>4. CASE timer_interrupt_handler
    BY <1>4, TimerStep
  <1>5. CASE UNCHANGED vars
    BY <1>5, LocalStep
    DEF vars, table, choice, control, irq, IInv, TypeOK, LockNotHeldAcrossSwitch, Bookkeeping
  <1> QED
    BY <1>1, <1>2, <1>3, <1>4, <1>5 DEF Next

\* Every variable keeps its type: in particular slot indices stay inside the
\* vector and a time slice is never decremented below zero.
THEOREM TypeCorrect == Spec => []TypeOK
  <1>1. IInv => TypeOK
    BY DEF IInv
  <1> QED
    BY <1>1, InitIInv, Inductive, PTL DEF Spec

\* The unwraps of slots[current] in ctx_ptr, exit_current and
\* current_task_body always find a task.
THEOREM CurrentAlwaysLive == Spec => []CurrentIsLive
  <1>1. IInv => CurrentIsLive
    BY DEF IInv
  <1> QED
    BY <1>1, InitIInv, Inductive, PTL DEF Spec

\* A live task owns exactly one slot and nobody else's, through every reuse of
\* a reaped slot by add.
THEOREM SlotsAreStable == Spec => []OneSlotPerTask
  <1>1. IInv => OneSlotPerTask
    BY DEF IInv
  <1> QED
    BY <1>1, InitIInv, Inductive, PTL DEF Spec

\* Only the executing task is marked Running.
THEOREM OnlyCurrentRuns == Spec => []RunningIsCurrent
  <1>1. IInv => RunningIsCurrent
    BY DEF IInv
  <1> QED
    BY <1>1, InitIInv, Inductive, PTL DEF Spec

\* The SCHEDULER lock is never held across __switch (scheduler.rs:14-16).
THEOREM NoLockAcrossSwitch == Spec => []LockNotHeldAcrossSwitch
  <1>1. IInv => LockNotHeldAcrossSwitch
    BY DEF IInv
  <1> QED
    BY <1>1, InitIInv, Inductive, PTL DEF Spec

\* At most one task is ever parked inside the timer handler, and IRQ0 is in
\* service exactly as long as it is (or the handler spins).
THEOREM TimerInterruptsDoNotNest == Spec => []OneUnfinishedTimerInterrupt
  <1>1. IInv => OneUnfinishedTimerInterrupt
    BY DEF IInv
  <1> QED
    BY <1>1, InitIInv, Inductive, PTL DEF Spec

\* idle() is where the core ends up: tick() wakes the sleepers that are due and
\* makes them Ready, but with no current task it never calls schedule(), so
\* nothing gives them the core (scheduler.rs:311 and 355).
THEOREM IdleIsFinal == Spec => [][cpu = "idle" => cpu' = "idle"]_vars
  <1>1. ASSUME IInv, Next, cpu = "idle" PROVE cpu' = "idle"
    <2>1. current = NO_TASK
      BY <1>1 DEF IInv, CurrentIsLive
    <2>2. ~ \E i \in TaskId : TaskStep(i)
      BY <1>1 DEF TaskStep, Call, Acquire, spawn, snapshot, sleep, join_check, join_block,
                  Schedule, Return, exit_current, Release, Executes
    <2>3. timer_interrupt_handler
      BY <1>1, <2>2 DEF Next, BootSpawn, start
    <2> QED
      BY <1>1, <2>1, <2>3 DEF timer_interrupt_handler, tick
  <1>2. IInv /\ [Next]_vars => [cpu = "idle" => cpu' = "idle"]_vars
    BY <1>1
  <1> QED
    BY <1>2, InitIInv, Inductive, PTL DEF Spec
-----------------------------------------------------------------------------
(* How long sleep() and join() wait.  schedule() returns to its caller when *)
(* nobody else is Ready, even to a caller it has just marked Blocked; what  *)
(* follows holds of the kernels in which that does not happen.              *)

\* A task that blocks leaves somebody Ready to switch to.
Company ==
  \A i \in TaskId : Executes(i) /\ state[i] = "Blocked" => \E j \in TaskId : state[j] = "Ready"

\* A workload with that property: the first task never blocks and never ends.
FirstTaskSteady == Body[1] \cap {"sleep", "join", "exit"} = {}

\* A call that waits is over, or its caller is marked Blocked for what it
\* waits for; a task that has left the table is gone; only a task inside
\* schedule() is Blocked.
WaitsIn(st, bl, where, o, l, n) ==
  \A i \in TaskId :
    /\ o[i] = "sleep" /\ where[i] \in {"sched", "ret"} =>
         l[i] = 0 \/ (st[i] = "Blocked" /\ bl[i].kind = "Sleep" /\ bl[i].arg = l[i])
    /\ o[i] = "join" => l[i] \in TaskId /\ l[i] < n
    /\ o[i] = "join" /\ where[i] \in {"sched", "ret"} =>
         where[l[i]] = "gone" \/ (st[i] = "Blocked" /\ bl[i].kind = "Join" /\ bl[i].arg = l[i])
    /\ i < n /\ st[i] = "None" => where[i] = "gone"
    /\ st[i] = "Blocked" => where[i] \in {"sched", "ret"}

\* The same of the state, and a Blocked task has not returned from schedule().
Waits ==
  /\ WaitsIn(state, block, pc, op, loc, next_id)
  /\ \A i \in TaskId :
       state[i] = "Blocked" /\ cpu = "task" /\ slots[current] = i => pc[i] = "sched"

\* A step that leaves slots, current and cpu alone, seen task by task.
LEMMA WaitsLocal ==
  ASSUME Waits, UNCHANGED <<slots, current, cpu>>, WaitsIn(state', block', pc', op', loc', next_id'),
         \A i \in TaskId : state'[i] = "Blocked" /\ cpu = "task" /\ slots[current] = i => pc'[i] = "sched"
  PROVE  Waits'
  BY DEF Waits, WaitsIn

\* A switch to a Ready task keeps what WaitsIn says of the others.
LEMMA WaitsSwitch ==
  ASSUME TypeOK, NEW st \in [TaskId -> TaskState], NEW where \in [TaskId -> Stage],
         NEW idx \in next_ready(st),
         WaitsIn(st, block', where, op', loc', next_id'),
         state' = [st EXCEPT ![slots[idx]] = "Running"],
         pc' = current_task_body(idx, where),
         current' = idx, slots'[idx] = slots[idx]
  PROVE  Waits'
  <1> DEFINE me == slots[idx]
  <1>1. me \in TaskId /\ st[me] = "Ready"
    BY NextReadySlot
  <1>2. /\ state'[me] = "Running"
        /\ \A i \in TaskId : i # me => state'[i] = st[i]
    BY <1>1
  <1>3. /\ \A i \in TaskId : where[i] # "new" => pc'[i] = where[i]
        /\ \A i \in TaskId : where[i] = "new" => pc'[i] \in {"new", "body"}
    BY <1>1 DEF current_task_body
  <1> HIDE DEF me
  <1>4. WaitsIn(state, block, pc, op, loc, next_id)'
    <2> SUFFICES ASSUME NEW i \in TaskId
                 PROVE  /\ op'[i] = "sleep" /\ pc'[i] \in {"sched", "ret"} =>
                             loc'[i] = 0 \/ (state'[i] = "Blocked" /\ block'[i].kind = "Sleep" /\ block'[i].arg = loc'[i])
                        /\ op'[i] = "join" => loc'[i] \in TaskId /\ loc'[i] < next_id'
                        /\ op'[i] = "join" /\ pc'[i] \in {"sched", "ret"} =>
                             pc'[loc'[i]] = "gone" \/ (state'[i] = "Blocked" /\ block'[i].kind = "Join" /\ block'[i].arg = loc'[i])
                        /\ i < next_id' /\ state'[i] = "None" => pc'[i] = "gone"
                        /\ state'[i] = "Blocked" => pc'[i] \in {"sched", "ret"}
      BY DEF WaitsIn
    <2>1. /\ op'[i] = "sleep" /\ where[i] \in {"sched", "ret"} =>
               loc'[i] = 0 \/ (st[i] = "Blocked" /\ block'[i].kind = "Sleep" /\ block'[i].arg = loc'[i])
          /\ op'[i] = "join" => loc'[i] \in TaskId /\ loc'[i] < next_id'
          /\ op'[i] = "join" /\ where[i] \in {"sched", "ret"} =>
               where[loc'[i]] = "gone" \/ (st[i] = "Blocked" /\ block'[i].kind = "Join" /\ block'[i].arg = loc'[i])
          /\ i < next_id' /\ st[i] = "None" => where[i] = "gone"
          /\ st[i] = "Blocked" => where[i] \in {"sched", "ret"}
      BY DEF WaitsIn
    <2>2. pc'[i] \in {"sched", "ret"} <=> where[i] \in {"sched", "ret"}
      BY <1>3
    <2>3. \A j \in TaskId : where[j] = "gone" => pc'[j] = "gone"
      BY <1>3
    <2>4. /\ state'[i] = "Blocked" <=> st[i] = "Blocked"
          /\ state'[i] = "None" <=> st[i] = "None"
      BY <1>1, <1>2
    <2> QED
      BY <2>1, <2>2, <2>3, <2>4
  <1>5. \A i \in TaskId : slots'[current'] = i => state'[i] # "Blocked"
    BY <1>2 DEF me
  <1> QED
    BY <1>4, <1>5 DEF Waits


\* next_ready finds somebody whenever somebody is Ready.
LEMMA Least ==
  ASSUME NEW S, S \subseteq Nat, S # {}
  PROVE  \E x \in S : \A y \in S : x <= y
  <1>1. PICK x \in S : \A y \in S : ~(<<y, x>> \in OpToRel(<, Nat))
    BY NatLessThanWellFounded, WFMin, Zenon
  <1>2. \A y \in S : ~(y < x)
    BY <1>1, Zenon DEF OpToRel
  <1> QED
    BY <1>2

LEMMA NextReadyFinds ==
  ASSUME IInv, NEW j \in TaskId, state[j] = "Ready"
  PROVE  next_ready(state) # {}
  <1> USE SchedulerAssumption DEF SchedulerAssumption
  <1> DEFINE dist == [s \in ready(state) |-> (s + len - cursor) % len]
             S == {dist[s] : s \in ready(state)}
  <1>1. PICK s0 \in Slot : s0 < len /\ slots[s0] = j
    BY DEF IInv, OneSlotPerTask
  <1>2. s0 \in ready(state)
    BY <1>1 DEF ready, IInv, TypeOK, Slot, TaskId, NoId
  <1>3. len \in Nat /\ len > 0 /\ cursor \in 0..len
    BY <1>1 DEF IInv, TypeOK, Bookkeeping, Slot
  <1>4. \A s \in ready(state) : dist[s] \in Nat
    <2> SUFFICES ASSUME NEW s \in ready(state) PROVE dist[s] \in Nat
      OBVIOUS
    <2>1. s \in Nat
      BY <1>3 DEF ready
    <2>2. s + (len - cursor) \in Nat
      BY <1>3, <2>1
    <2> QED BY <1>3, <2>2
  <1> HIDE DEF dist
  <1>5. S \subseteq Nat /\ S # {}
    BY <1>2, <1>4
  <1>6. PICK x \in S : \A y \in S : x <= y
    BY <1>5, Least, Zenon
  <1>7. PICK s \in ready(state) : x = dist[s]
    BY <1>6
  <1>8. \A t \in ready(state) : dist[s] <= dist[t]
    BY <1>6, <1>7
  <1>9. \A t \in ready(state) : (s + len - cursor) % len <= (t + len - cursor) % len
    BY <1>7, <1>8 DEF dist
  <1>10. s \in next_ready(state)
    BY <1>7, <1>9 DEF next_ready
  <1> QED BY <1>10

LEMMA InitWaits == Init => Waits
  <1> SUFFICES ASSUME Init PROVE Waits
    OBVIOUS
  <1> QED
    BY SchedulerAssumption DEF SchedulerAssumption, Init, Waits, WaitsIn, TaskId

\* A step of the executing task i that leaves the other tasks alone.
LEMMA WaitsOwn ==
  ASSUME IInv, Waits, NEW i \in TaskId, Executes(i),
         UNCHANGED <<slots, current, cpu, next_id>>,
         \A j \in TaskId \ {i} : /\ state'[j] = state[j] /\ block'[j] = block[j]
                                 /\ pc'[j] = pc[j] /\ op'[j] = op[j] /\ loc'[j] = loc[j],
         pc[i] # "gone", state'[i] # "None",
         op'[i] = "sleep" => pc'[i] \notin {"sched", "ret"} \/ state'[i] = "Blocked",
         op'[i] = "join" => /\ loc'[i] \in TaskId /\ loc'[i] < next_id
                            /\ \/ pc'[i] \notin {"sched", "ret"} \/ state'[i] = "Blocked"
                               \/ pc[loc'[i]] = "gone" /\ loc'[i] # i,
         state'[i] = "Blocked" =>
           /\ pc'[i] = "sched"
           /\ block'[i].kind = (IF op'[i] = "sleep" THEN "Sleep" ELSE "Join")
           /\ block'[i].arg = loc'[i]
  PROVE  Waits'
  <1>1. WaitsIn(state', block', pc', op', loc', next_id')
    <2> SUFFICES ASSUME NEW j \in TaskId
                 PROVE  /\ op'[j] = "sleep" /\ pc'[j] \in {"sched", "ret"} =>
                             loc'[j] = 0 \/ (state'[j] = "Blocked" /\ block'[j].kind = "Sleep" /\ block'[j].arg = loc'[j])
                        /\ op'[j] = "join" => loc'[j] \in TaskId /\ loc'[j] < next_id'
                        /\ op'[j] = "join" /\ pc'[j] \in {"sched", "ret"} =>
                             pc'[loc'[j]] = "gone" \/ (state'[j] = "Blocked" /\ block'[j].kind = "Join" /\ block'[j].arg = loc'[j])
                        /\ j < next_id' /\ state'[j] = "None" => pc'[j] = "gone"
                        /\ state'[j] = "Blocked" => pc'[j] \in {"sched", "ret"}
      BY DEF WaitsIn
    <2>1. CASE j = i
      BY <2>1
    <2>2. CASE j # i
      <3>1. /\ op[j] = "sleep" /\ pc[j] \in {"sched", "ret"} =>
                 loc[j] = 0 \/ (state[j] = "Blocked" /\ block[j].kind = "Sleep" /\ block[j].arg = loc[j])
            /\ op[j] = "join" => loc[j] \in TaskId /\ loc[j] < next_id
            /\ op[j] = "join" /\ pc[j] \in {"sched", "ret"} =>
                 pc[loc[j]] = "gone" \/ (state[j] = "Blocked" /\ block[j].kind = "Join" /\ block[j].arg = loc[j])
            /\ j < next_id /\ state[j] = "None" => pc[j] = "gone"
            /\ state[j] = "Blocked" => pc[j] \in {"sched", "ret"}
        BY DEF Waits, WaitsIn
      <3>2. \A k \in TaskId : pc[k] = "gone" => pc'[k] = "gone"
        OBVIOUS
      <3> QED BY <2>2, <3>1, <3>2
    <2> QED BY <2>1, <2>2
  <1>2. \A j \in TaskId : state'[j] = "Blocked" /\ cpu = "task" /\ slots[current] = j => pc'[j] = "sched"
    BY DEF Executes
  <1> QED
    BY <1>1, <1>2, WaitsLocal

\* The steps of a task that do not switch.
LEMMA OwnStepsWait ==
  ASSUME IInv, Waits, NEW i \in TaskId,
         Call(i) \/ Acquire(i) \/ snapshot(i) \/ sleep(i) \/ join_check(i) \/ join_block(i) \/ Return(i)
  PROVE  Waits'
  <1>1. /\ Executes(i) /\ state[i] # "None" /\ pc[i] \notin {"gone", "sched"} /\ slots[current] = i
        /\ cpu = "task"
    BY ExecutesSlot DEF Call, Acquire, snapshot, sleep, join_check, join_block, Return, Release
  <1>2. state[i] # "Blocked"
    BY <1>1 DEF Waits
  <1>3. /\ state \in [TaskId -> TaskState] /\ block \in [TaskId -> BlockReason]
        /\ pc \in [TaskId -> Stage] /\ op \in [TaskId -> Calls \cup {"none"}]
        /\ loc \in [TaskId -> Nat] /\ next_id \in 1..(MaxTasks + 1)
    BY DEF IInv, TypeOK
  <1>4. op[i] = "join" => loc[i] \in TaskId /\ loc[i] < next_id
    BY DEF Waits, WaitsIn
  <1>5. CASE Call(i)
    <2>1. PICK o \in Body[i] \ {"exit"} :
            /\ op' = [op EXCEPT ![i] = o]
            /\ pc' = [pc EXCEPT ![i] = IF o = "yield" THEN "sched" ELSE "lock"]
            /\ \E v \in CASE o = "sleep" -> SleepTicks
                          [] o = "join"  -> 1..(next_id - 1) \ {i}
                          [] OTHER       -> {0} :
                 loc' = [loc EXCEPT ![i] = v]
      BY <1>5, Zenon DEF Call
    <2>2. UNCHANGED <<slots, next_id, current, state, block, cpu>>
      BY <1>5 DEF Call, table, choice
    <2>3. o = "join" => loc'[i] \in TaskId /\ loc'[i] < next_id
      BY <1>3, <2>1, SchedulerAssumption DEF SchedulerAssumption, TaskId
    <2> HIDE DEF WaitsIn
    <2>4. /\ op'[i] = o /\ pc'[i] = IF o = "yield" THEN "sched" ELSE "lock"
          /\ \A j \in TaskId \ {i} : pc'[j] = pc[j] /\ op'[j] = op[j] /\ loc'[j] = loc[j]
      BY <1>3, <2>1
    <2> QED
      BY <1>1, <1>2, <2>2, <2>3, <2>4, WaitsOwn
  <1>6. CASE Acquire(i)
    <2>1. /\ UNCHANGED <<slots, next_id, current, state, block, cpu, op, loc>>
          /\ pc' = [pc EXCEPT ![i] = IF pc[i] = "lock" THEN "cs" ELSE "cs2"]
      BY <1>6 DEF Acquire, table, choice
    <2> QED
      BY <1>1, <1>2, <1>3, <1>4, <2>1, WaitsOwn
  <1>7. CASE snapshot(i)
    <2>1. /\ UNCHANGED <<slots, next_id, current, state, block, cpu, op, loc>>
          /\ pc' = [pc EXCEPT ![i] = "ret"] /\ op[i] = "snapshot"
      BY <1>7 DEF snapshot, Release, table, choice
    <2> QED
      BY <1>1, <1>2, <1>3, <1>4, <2>1, WaitsOwn
  <1>8. CASE sleep(i) \/ join_block(i)
    <2>1. PICK kind \in {"Sleep", "Join"} :
            /\ MarkBlocked(i, kind)
            /\ op[i] = IF kind = "Sleep" THEN "sleep" ELSE "join"
      BY <1>8 DEF sleep, join_block, Release
    <2>2. /\ UNCHANGED <<slots, next_id, current, cpu, op, loc>>
          /\ pc' = [pc EXCEPT ![i] = "sched"]
      BY <1>8, <2>1 DEF sleep, join_block, Release, MarkBlocked, table, choice
    <2>3. /\ state' = [state EXCEPT ![i] = "Blocked"]
          /\ block' = [block EXCEPT ![i] = [kind |-> kind, arg |-> loc[i]]]
      BY <2>1 DEF MarkBlocked
    <2> QED
      BY <1>1, <1>2, <1>3, <1>4, <2>1, <2>2, <2>3, WaitsOwn, Zenon
  <1>9. CASE join_check(i)
    <2>1. /\ UNCHANGED <<slots, next_id, current, state, block, cpu, op, loc>>
          /\ pc' = [pc EXCEPT ![i] = IF JoinDone(loc[i]) THEN "ret" ELSE "lock2"] /\ op[i] = "join"
      BY <1>9 DEF join_check, Release, table, choice
    <2>2. JoinDone(loc[i]) => state[loc[i]] = "None"
      <3> SUFFICES ASSUME JoinDone(loc[i]), state[loc[i]] # "None" PROVE FALSE
        OBVIOUS
      <3>1. PICK s \in Slot : s < len /\ slots[s] = loc[i]
        BY <1>4, <2>1 DEF IInv, OneSlotPerTask
      <3>2. s \in find_slot(loc[i])
        BY <3>1 DEF find_slot, IInv, TypeOK, Slot
      <3>3. state[loc[i]] = "Zombie"
        BY <3>1, <3>2 DEF JoinDone
      <3> QED BY <1>3, <1>4, <2>1, <3>3 DEF TaskState
    <2>3. JoinDone(loc[i]) => pc[loc[i]] = "gone" /\ loc[i] # i
      BY <1>1, <1>4, <2>1, <2>2 DEF Waits, WaitsIn
    <2> QED
      BY <1>1, <1>2, <1>3, <1>4, <2>1, <2>3, WaitsOwn
  <1>10. CASE Return(i)
    <2>1. /\ UNCHANGED <<slots, next_id, current, state, block, cpu>>
          /\ pc' = [pc EXCEPT ![i] = "body"] /\ op' = [op EXCEPT ![i] = "none"]
          /\ loc' = [loc EXCEPT ![i] = 0]
      BY <1>10 DEF Return, table, choice
    <2> QED
      BY <1>1, <1>2, <1>3, <2>1, WaitsOwn
  <1> QED
    BY <1>5, <1>6, <1>7, <1>8, <1>9, <1>10


\* spawn(), by boot or by a task.
LEMMA SpawnWaits ==
  ASSUME IInv, Waits, add, UNCHANGED <<choice, cpu, op, loc>>,
         NEW i \in TaskId,
         \/ pc' = pc
         \/ pc' = [pc EXCEPT ![i] = "ret"] /\ op[i] = "spawn" /\ pc[i] = "cs"
  PROVE  Waits'
  <1> USE SchedulerAssumption DEF SchedulerAssumption
  <1>1. /\ next_id \in TaskId /\ next_id' = next_id + 1
        /\ state' = [state EXCEPT ![next_id] = "Ready"]
        /\ block' = [block EXCEPT ![next_id] = NotBlocked]
    BY DEF add, IInv, TypeOK, TaskId
  <1>2. state[next_id] = "None"
    BY <1>1 DEF IInv, Bookkeeping, TypeOK
  <1>3. /\ state'[next_id] = "Ready"
        /\ \A j \in TaskId : j # next_id => state'[j] = state[j] /\ block'[j] = block[j]
    BY <1>1 DEF IInv, TypeOK
  <1>4. /\ \A j \in TaskId : pc[j] # "cs" => pc'[j] = pc[j]
        /\ \A j \in TaskId : pc'[j] # pc[j] => op[j] = "spawn"
    BY DEF IInv, TypeOK
  <1>5. ASSUME NEW j \in TaskId
        PROVE  /\ op'[j] = "sleep" /\ pc'[j] \in {"sched", "ret"} =>
                    loc'[j] = 0 \/ (state'[j] = "Blocked" /\ block'[j].kind = "Sleep" /\ block'[j].arg = loc'[j])
               /\ op'[j] = "join" => loc'[j] \in TaskId /\ loc'[j] < next_id'
               /\ op'[j] = "join" /\ pc'[j] \in {"sched", "ret"} =>
                    pc'[loc'[j]] = "gone" \/ (state'[j] = "Blocked" /\ block'[j].kind = "Join" /\ block'[j].arg = loc'[j])
               /\ j < next_id' /\ state'[j] = "None" => pc'[j] = "gone"
               /\ state'[j] = "Blocked" => pc'[j] \in {"sched", "ret"}
    <2>1. /\ op[j] = "sleep" /\ pc[j] \in {"sched", "ret"} =>
               loc[j] = 0 \/ (state[j] = "Blocked" /\ block[j].kind = "Sleep" /\ block[j].arg = loc[j])
          /\ op[j] = "join" => loc[j] \in TaskId /\ loc[j] < next_id
          /\ op[j] = "join" /\ pc[j] \in {"sched", "ret"} =>
               pc[loc[j]] = "gone" \/ (state[j] = "Blocked" /\ block[j].kind = "Join" /\ block[j].arg = loc[j])
          /\ j < next_id /\ state[j] = "None" => pc[j] = "gone"
          /\ state[j] = "Blocked" => pc[j] \in {"sched", "ret"}
      BY DEF Waits, WaitsIn
    <2>2. \A k \in TaskId : pc[k] = "gone" => pc'[k] = "gone"
      BY <1>4
    <2>3. loc[j] < next_id => loc[j] < next_id'
      BY <1>1 DEF IInv, TypeOK, TaskId
    <2>4. j < next_id' /\ j # next_id => j < next_id
      BY <1>1 DEF TaskId
    <2> QED BY <1>2, <1>3, <1>4, <2>1, <2>2, <2>3, <2>4
  <1>6. WaitsIn(state', block', pc', op', loc', next_id')
    BY <1>5 DEF WaitsIn
  <1>7. ASSUME NEW j \in TaskId, state'[j] = "Blocked", cpu' = "task", slots'[current'] = j
        PROVE  pc'[j] = "sched"
    <2>1. j # next_id /\ state[j] = "Blocked"
      BY <1>3, <1>7
    <2>2. current \in Slot /\ slots[current] # NoId /\ current < len /\ cpu = "task"
      BY <1>7 DEF IInv, TypeOK, CurrentIsLive, choice
    <2>3. slots[current] = j
      BY <1>1, <1>7, <2>1, <2>2 DEF add, choice, IInv, TypeOK, holes, Lowest, Slot
    <2>4. pc[j] = "sched"
      BY <2>1, <2>2, <2>3 DEF Waits
    <2> QED BY <1>4, <2>4
  <1> QED
    BY <1>6, <1>7 DEF Waits

LEMMA StartWaits ==
  ASSUME IInv, Waits, start
  PROVE  Waits'
  <1>1. UNCHANGED <<slots, next_id, block, op, loc>>
    BY DEF start, table
  <1>2. CASE cpu' = "idle" /\ UNCHANGED <<choice, state, pc, irq>>
    BY <1>1, <1>2 DEF Waits, WaitsIn
  <1>3. ASSUME NEW idx \in next_ready(state), prep_switch(state, idx, isr, in_service),
               pc' = current_task_body(idx, pc)
        PROVE  Waits'
    <2>1. /\ state' = [state EXCEPT ![slots[idx]] = "Running"] /\ current' = idx
      BY <1>3 DEF prep_switch, Land
    <2>2. /\ TypeOK /\ state \in [TaskId -> TaskState] /\ pc \in [TaskId -> Stage]
      BY DEF IInv, TypeOK
    <2>3. WaitsIn(state, block', pc, op', loc', next_id')
      BY <1>1 DEF Waits
    <2> QED
      BY <1>1, <1>3, <2>1, <2>2, <2>3, WaitsSwitch, Zenon
  <1> QED
    BY <1>2, <1>3 DEF start

\* schedule() with states st and caller's positions where that already satisfy
\* WaitsIn; when it finds nobody, its caller must not be left Blocked.
LEMMA ScheduleWaits ==
  ASSUME IInv, cpu = "task",
         NEW st \in [TaskId -> TaskState], NEW where \in [TaskId -> Stage], NEW irq0 \in BOOLEAN,
         schedule(st, where, irq0), UNCHANGED slots,
         WaitsIn(st, block', where, op', loc', next_id'),
         \/ where[slots[current]] = "sched"
         \/ next_ready(st) # {}
         \/ st[slots[current]] # "Blocked"
  PROVE  Waits'
  <1> DEFINE me == slots[current]
             s1 == Demote(st, me)
  <1>1. me \in TaskId /\ TypeOK
    BY DEF IInv, TypeOK, CurrentIsLive, TaskId, NoId
  <1>2. /\ s1 \in [TaskId -> TaskState]
        /\ \A i \in TaskId : /\ s1[i] = "Blocked" <=> st[i] = "Blocked"
                             /\ s1[i] = "None" <=> st[i] = "None"
    BY <1>1 DEF Demote, TaskState
  <1>3. WaitsIn(s1, block', where, op', loc', next_id')
    BY <1>2 DEF WaitsIn
  <1>4. CASE next_ready(s1) = {} /\ state' = s1 /\ pc' = where /\ UNCHANGED <<choice, cpu>>
    <2>1. where[me] = "sched" \/ st[me] # "Blocked"
      BY <1>4 DEF Demote
    <2>2. \A i \in TaskId : state'[i] = "Blocked" /\ slots'[current'] = i => pc'[i] = "sched"
      BY <1>2, <1>4, <2>1 DEF choice
    <2> QED
      BY <1>3, <1>4, <2>2 DEF Waits
  <1>5. ASSUME NEW idx \in next_ready(s1), pc' = current_task_body(idx, where),
               prep_switch(s1, idx, IF irq0 THEN isr \cup {me} ELSE isr, in_service \/ irq0)
        PROVE  Waits'
    <2>1. state' = [s1 EXCEPT ![slots[idx]] = "Running"] /\ current' = idx
      BY <1>5 DEF prep_switch, Land
    <2> HIDE DEF s1
    <2> QED
      BY <1>1, <1>2, <1>3, <1>5, <2>1, WaitsSwitch, Zenon
  <1> QED
    BY <1>4, <1>5 DEF schedule


\* The tail of sleep() and join(): with company, a Blocked caller is switched
\* away, and comes back only after it was made Ready.
LEMMA TailWaits ==
  ASSUME IInv, Waits, Company, NEW i \in TaskId, Schedule(i)
  PROVE  Waits'
  <1> DEFINE where == [pc EXCEPT ![i] = "ret"]
  <1>1. /\ Executes(i) /\ pc[i] = "sched" /\ schedule(state, where, FALSE)
        /\ UNCHANGED <<slots, next_id, block, op, loc>>
    BY Zenon DEF Schedule, table
  <1>2. cpu = "task" /\ slots[current] = i
    BY <1>1 DEF Executes
  <1>3. state \in [TaskId -> TaskState] /\ where \in [TaskId -> Stage]
    BY DEF IInv, TypeOK, Stage
  <1>4. /\ \A j \in TaskId : where[j] \in {"sched", "ret"} <=> pc[j] \in {"sched", "ret"}
        /\ \A j \in TaskId : where[j] = "gone" <=> pc[j] = "gone"
    BY <1>1 DEF IInv, TypeOK
  <1>5. WaitsIn(state, block', where, op', loc', next_id')
    <2> HIDE DEF where
    <2> QED BY <1>1, <1>4 DEF Waits, WaitsIn
  <1>6. state[i] = "Blocked" => next_ready(state) # {}
    BY <1>1, NextReadyFinds DEF Company
  <1> HIDE DEF where
  <1> QED
    BY <1>1, <1>2, <1>3, <1>5, <1>6, ScheduleWaits, Zenon

LEMMA JoinFields ==
  ASSUME NEW b, NEW i, b = [kind |-> "Join", arg |-> i]
  PROVE  b.kind = "Join" /\ b.arg = i
  OBVIOUS

\* exit_current() ends the waits of the joiners it wakes, and no others.
LEMMA ExitWaits ==
  ASSUME IInv, Waits, NEW i \in TaskId, exit_current(i)
  PROVE  Waits'
  <1> DEFINE st   == Reaped(i)
             gone == [pc EXCEPT ![i] = "gone"]
  <1>1. /\ Executes(i) /\ pc[i] = "body"
        /\ slots' = [slots EXCEPT ![current] = NoId]
        /\ block' = [j \in TaskId |-> IF j \in Joiners(i) THEN NotBlocked ELSE block[j]]
        /\ UNCHANGED <<next_id, op, loc>>
    BY DEF exit_current
  <1>2. /\ TypeOK /\ current \in Slot /\ slots[current] = i
    BY <1>1, ExecutesSlot DEF IInv
  <1>3. /\ st \in [TaskId -> TaskState] /\ st[i] = "None"
        /\ \A j \in TaskId : j # i => st[j] = IF j \in Joiners(i) THEN "Ready" ELSE state[j]
        /\ \A j \in TaskId : block'[j] = IF j \in Joiners(i) THEN NotBlocked ELSE block[j]
    BY <1>1, <1>2 DEF Reaped, TypeOK, TaskState
  <1>4. /\ gone \in [TaskId -> Stage] /\ gone[i] = "gone"
        /\ \A j \in TaskId : j # i => gone[j] = pc[j]
    BY <1>2 DEF TypeOK, Stage
  <1>5. \A idx \in next_ready(st) : slots'[idx] = slots[idx]
    BY <1>1, <1>2, <1>3, NextReadySlot DEF TypeOK
  <1>6. \/ /\ state' = st /\ cpu' = "idle" /\ pc' = gone
        \/ \E idx \in next_ready(st) :
             prep_switch(st, idx, isr, in_service) /\ pc' = current_task_body(idx, gone)
    BY Zenon DEF exit_current
  <1> HIDE DEF st, gone
  <1>7. WaitsIn(st, block', gone, op', loc', next_id')
    <2> SUFFICES ASSUME NEW j \in TaskId
                 PROVE  /\ op[j] = "sleep" /\ gone[j] \in {"sched", "ret"} =>
                             loc[j] = 0 \/ (st[j] = "Blocked" /\ block'[j].kind = "Sleep" /\ block'[j].arg = loc[j])
                        /\ op[j] = "join" => loc[j] \in TaskId /\ loc[j] < next_id
                        /\ op[j] = "join" /\ gone[j] \in {"sched", "ret"} =>
                             gone[loc[j]] = "gone" \/ (st[j] = "Blocked" /\ block'[j].kind = "Join" /\ block'[j].arg = loc[j])
                        /\ j < next_id /\ st[j] = "None" => gone[j] = "gone"
                        /\ st[j] = "Blocked" => gone[j] \in {"sched", "ret"}
      BY <1>1 DEF WaitsIn
    <2>1. /\ op[j] = "sleep" /\ pc[j] \in {"sched", "ret"} =>
               loc[j] = 0 \/ (state[j] = "Blocked" /\ block[j].kind = "Sleep" /\ block[j].arg = loc[j])
          /\ op[j] = "join" => loc[j] \in TaskId /\ loc[j] < next_id
          /\ op[j] = "join" /\ pc[j] \in {"sched", "ret"} =>
               pc[loc[j]] = "gone" \/ (state[j] = "Blocked" /\ block[j].kind = "Join" /\ block[j].arg = loc[j])
          /\ j < next_id /\ state[j] = "None" => pc[j] = "gone"
          /\ state[j] = "Blocked" => pc[j] \in {"sched", "ret"}
      BY DEF Waits, WaitsIn
    <2>2. \A k \in TaskId : pc[k] = "gone" => gone[k] = "gone"
      BY <1>4
    <2>3. CASE j = i
      BY <1>3, <1>4, <2>1, <2>2, <2>3
    <2>4. CASE j # i /\ j \notin Joiners(i)
      BY <1>3, <1>4, <2>1, <2>2, <2>4
    <2>5. CASE j # i /\ j \in Joiners(i)
      <3>0. block[j] = [kind |-> "Join", arg |-> i]
        BY <2>5 DEF Joiners
      <3>1. block[j].kind = "Join" /\ block[j].arg = i
        BY <3>0, JoinFields
      <3>2. op[j] = "sleep" /\ gone[j] \in {"sched", "ret"} => loc[j] = 0
        BY <1>4, <2>1, <2>5, <3>1
      <3>3. op[j] = "join" /\ gone[j] \in {"sched", "ret"} => gone[loc[j]] = "gone"
        BY <1>4, <2>1, <2>2, <2>5, <3>1
      <3>4. st[j] = "Ready"
        BY <1>3, <2>5
      <3> QED BY <2>1, <3>2, <3>3, <3>4
    <2> QED BY <2>3, <2>4, <2>5
  <1>8. CASE state' = st /\ cpu' = "idle" /\ pc' = gone
    BY <1>7, <1>8 DEF Waits
  <1>9. ASSUME NEW idx \in next_ready(st), prep_switch(st, idx, isr, in_service),
               pc' = current_task_body(idx, gone)
        PROVE  Waits'
    <2>1. state' = [st EXCEPT ![slots[idx]] = "Running"] /\ current' = idx
      BY <1>9 DEF prep_switch, Land
    <2> QED
      BY <1>2, <1>3, <1>4, <1>5, <1>7, <1>9, <2>1, WaitsSwitch, Zenon
  <1> QED
    BY <1>6, <1>8, <1>9

\* A tick ages every deadline with the caller's own copy of it, and wakes
\* exactly the sleepers whose deadline has come.
LEMMA TimerWaits ==
  ASSUME IInv, Waits, timer_interrupt_handler
  PROVE  Waits'
  <1> DEFINE aged  == [i \in TaskId |-> Elapsed(block[i])]
             woken == {i \in TaskId : state[i] = "Blocked" /\ Due(aged[i])}
             st    == [i \in TaskId |-> IF i \in woken THEN "Ready" ELSE state[i]]
             bl    == [i \in TaskId |-> IF i \in woken THEN NotBlocked ELSE aged[i]]
  <1>1. /\ loc' = LocElapsed /\ UNCHANGED <<slots, next_id, op>> /\ TypeOK
    BY DEF timer_interrupt_handler, table, IInv
  <1>2. /\ st \in [TaskId -> TaskState] /\ pc \in [TaskId -> Stage]
        /\ \A i \in TaskId : st[i] = "Blocked" => state[i] = "Blocked"
    BY <1>1 DEF TypeOK, TaskState
  <1> DEFINE P(i, s, b) ==
               /\ op[i] = "sleep" /\ pc[i] \in {"sched", "ret"} =>
                    loc'[i] = 0 \/ (s = "Blocked" /\ b.kind = "Sleep" /\ b.arg = loc'[i])
               /\ op[i] = "join" => loc'[i] \in TaskId /\ loc'[i] < next_id
               /\ op[i] = "join" /\ pc[i] \in {"sched", "ret"} =>
                    pc[loc'[i]] = "gone" \/ (s = "Blocked" /\ b.kind = "Join" /\ b.arg = loc'[i])
               /\ i < next_id /\ s = "None" => pc[i] = "gone"
               /\ s = "Blocked" => pc[i] \in {"sched", "ret"}
  <1>3. ASSUME NEW i \in TaskId, NEW s, NEW b,
               \/ s = state[i] /\ b = aged[i]
               \/ s = st[i] /\ b = bl[i]
        PROVE  P(i, s, b)
    <2>1. /\ op[i] = "sleep" /\ pc[i] \in {"sched", "ret"} =>
               loc[i] = 0 \/ (state[i] = "Blocked" /\ block[i].kind = "Sleep" /\ block[i].arg = loc[i])
          /\ op[i] = "join" => loc[i] \in TaskId /\ loc[i] < next_id
          /\ op[i] = "join" /\ pc[i] \in {"sched", "ret"} =>
               pc[loc[i]] = "gone" \/ (state[i] = "Blocked" /\ block[i].kind = "Join" /\ block[i].arg = loc[i])
          /\ i < next_id /\ state[i] = "None" => pc[i] = "gone"
          /\ state[i] = "Blocked" => pc[i] \in {"sched", "ret"}
      BY DEF Waits, WaitsIn
    <2>2. loc'[i] = IF op[i] = "sleep" THEN Minus1(loc[i]) ELSE loc[i]
      BY <1>1 DEF LocElapsed
    <2>3. /\ aged[i] = Elapsed(block[i])
          /\ block[i].kind = "Sleep" => aged[i] = [kind |-> "Sleep", arg |-> Minus1(block[i].arg)]
          /\ block[i].kind # "Sleep" => aged[i] = block[i]
      BY <1>1 DEF Elapsed, TypeOK, BlockReason
    <2>4. CASE i \in woken /\ s = st[i] /\ b = bl[i]
      <3>1. s = "Ready" /\ state[i] = "Blocked" /\ aged[i].kind = "Sleep" /\ aged[i].arg = 0
        BY <2>4 DEF Due
      <3>2. block[i].kind = "Sleep" /\ Minus1(block[i].arg) = 0
        BY <2>3, <3>1
      <3>3. op[i] = "sleep" /\ pc[i] \in {"sched", "ret"} => loc'[i] = 0
        BY <2>1, <2>2, <3>2 DEF Minus1
      <3>4. op[i] = "join" /\ pc[i] \in {"sched", "ret"} => pc[loc[i]] = "gone"
        BY <2>1, <3>2
      <3>5. op[i] = "join" => loc'[i] = loc[i]
        BY <2>2
      <3> HIDE DEF aged, woken, st, bl
      <3> QED BY <2>1, <3>1, <3>3, <3>4, <3>5
    <2>5. CASE s = state[i] /\ b = aged[i]
      <3>1. loc[i] = 0 => Minus1(loc[i]) = 0
        BY DEF Minus1
      <3> HIDE DEF aged, woken, st, bl
      <3>2. op[i] = "sleep" /\ pc[i] \in {"sched", "ret"} =>
              loc'[i] = 0 \/ (s = "Blocked" /\ b.kind = "Sleep" /\ b.arg = loc'[i])
        <4> SUFFICES ASSUME op[i] = "sleep", pc[i] \in {"sched", "ret"}, loc[i] # 0
                     PROVE  s = "Blocked" /\ b.kind = "Sleep" /\ b.arg = loc'[i]
          BY <2>2, <3>1
        <4>1. state[i] = "Blocked" /\ block[i].kind = "Sleep" /\ block[i].arg = loc[i]
          BY <2>1
        <4>2. b.kind = "Sleep" /\ b.arg = Minus1(block[i].arg)
          BY <2>3, <2>5, <4>1
        <4> QED BY <2>2, <2>5, <4>1, <4>2
      <3>3. op[i] = "join" => loc'[i] = loc[i]
        BY <2>2
      <3>4. block[i].kind = "Join" => b = block[i]
        BY <2>3, <2>5
      <3> QED BY <2>1, <2>5, <3>2, <3>3, <3>4
    <2> QED BY <1>3, <2>4, <2>5
  <1>4. \A i \in TaskId : P(i, state[i], aged[i])
    <2> HIDE DEF aged, woken, st, bl
    <2> QED BY <1>3
  <1>5. \A i \in TaskId : P(i, st[i], bl[i])
    <2> HIDE DEF aged, woken, st, bl
    <2> QED BY <1>3
  <1>6. CASE lock = NoId /\ tick
    <2>1. block' = bl
      BY <1>6 DEF tick
    <2>2. WaitsIn(st, block', pc, op', loc', next_id')
      <3> HIDE DEF aged, woken, st, bl
      <3> QED BY <1>1, <1>5, <2>1 DEF WaitsIn
    <2>3. \/ state' = st /\ UNCHANGED <<choice, cpu, pc>>
          \/ current # NO_TASK /\ schedule(st, pc, TRUE)
      BY <1>6, Zenon DEF tick
    <2> HIDE DEF st
    <2>4. CASE state' = st /\ UNCHANGED <<choice, cpu, pc>>
      BY <1>1, <1>2, <2>2, <2>4 DEF Waits, choice
    <2>5. CASE current # NO_TASK /\ schedule(st, pc, TRUE)
      <3>1. cpu = "task" /\ slots[current] \in TaskId
        BY <2>5 DEF IInv, TypeOK, CurrentIsLive, TaskId, NoId
      <3>2. pc[slots[current]] = "sched" \/ st[slots[current]] # "Blocked"
        BY <1>2, <3>1 DEF Waits
      <3> QED
        BY <1>1, <1>2, <2>2, <2>5, <3>1, <3>2, ScheduleWaits, Zenon
    <2> QED BY <2>3, <2>4, <2>5, Zenon
  <1>7. CASE /\ block' = aged /\ UNCHANGED <<choice, state, cpu, pc>>
    <2>1. WaitsIn(state', block', pc', op', loc', next_id')
      <3> HIDE DEF aged, woken, st, bl
      <3> QED BY <1>1, <1>7, <1>4 DEF WaitsIn
    <2> QED
      BY <1>1, <1>7, <2>1 DEF Waits, choice
  <1> QED
    BY <1>6, <1>7 DEF timer_interrupt_handler


LEMMA NextWaits == IInv /\ Company /\ Waits /\ [Next]_vars => Waits'
  <1> SUFFICES ASSUME IInv, Company, Waits, [Next]_vars PROVE Waits'
    OBVIOUS
  <1>1. CASE BootSpawn
    <2>1. 1 \in TaskId
      BY SchedulerAssumption DEF SchedulerAssumption, TaskId
    <2>2. add /\ UNCHANGED <<choice, cpu, op, loc>> /\ pc' = pc
      BY <1>1 DEF BootSpawn, control
    <2> QED BY <2>1, <2>2, SpawnWaits
  <1>2. CASE start
    BY <1>2, StartWaits
  <1>3. ASSUME NEW i \in TaskId, TaskStep(i) PROVE Waits'
    <2>1. CASE spawn(i)
      <3>1. /\ add /\ UNCHANGED <<choice, cpu, op, loc>>
            /\ pc' = [pc EXCEPT ![i] = "ret"] /\ op[i] = "spawn" /\ pc[i] = "cs"
        BY <2>1 DEF spawn, Release
      <3> QED BY <3>1, SpawnWaits, Zenon
    <2> QED
      BY <1>3, <2>1, OwnStepsWait, TailWaits, ExitWaits DEF TaskStep
  <1>4. CASE timer_interrupt_handler
    BY <1>4, TimerWaits
  <1>5. CASE UNCHANGED vars
    BY <1>5 DEF vars, table, choice, control, Waits, WaitsIn
  <1> QED
    BY <1>1, <1>2, <1>3, <1>4, <1>5 DEF Next

\* "Block the current task for at least `ticks` timer ticks" (scheduler.rs:190):
\* with company, whatever the tasks do and however the ticks fall, sleep()
\* returns only after its deadline.
THEOREM SleepIsLongEnough == Spec /\ []Company => []SleepLastsLongEnough
  <1>1. IInv /\ Waits => SleepLastsLongEnough
    <2> SUFFICES ASSUME IInv, Waits, NEW i \in TaskId, Executes(i), pc[i] = "ret", op[i] = "sleep"
                 PROVE  loc[i] = 0
      BY DEF SleepLastsLongEnough
    <2>1. state[i] # "Blocked"
      BY DEF Waits, Executes
    <2> QED BY <2>1 DEF Waits, WaitsIn
  <1> QED
    BY <1>1, InitIInv, Inductive, InitWaits, NextWaits, PTL DEF Spec

\* "Block until task `id` finishes" (scheduler.rs:207): with company, join()
\* returns only when the task has left the table.
THEOREM JoinIsForExit == Spec /\ []Company => []JoinWaitsForExit
  <1>1. IInv /\ Waits => JoinWaitsForExit
    <2> SUFFICES ASSUME IInv, Waits, NEW i \in TaskId, Executes(i), pc[i] = "ret", op[i] = "join"
                 PROVE  pc[loc[i]] = "gone"
      BY DEF JoinWaitsForExit
    <2>1. state[i] # "Blocked"
      BY DEF Waits, Executes
    <2> QED BY <2>1 DEF Waits, WaitsIn
  <1> QED
    BY <1>1, InitIInv, Inductive, InitWaits, NextWaits, PTL DEF Spec
-----------------------------------------------------------------------------
\* While the first task neither blocks nor ends it is always there to run.
FirstRuns ==
  /\ op[1] \notin {"sleep", "join"} /\ state[1] # "Blocked"
  /\ next_id > 1 => state[1] # "None"

\* schedule() leaves a task that is neither Blocked nor None in such a state.
LEMMA ScheduleKeeps ==
  ASSUME IInv, cpu = "task", NEW st \in [TaskId -> TaskState], NEW where, NEW irq0,
         schedule(st, where, irq0), NEW i \in TaskId
  PROVE  /\ st[i] # "Blocked" => state'[i] # "Blocked"
         /\ st[i] # "None" => state'[i] # "None"
  <1> DEFINE me == slots[current]
             s1 == Demote(st, me)
  <1>1. me \in TaskId /\ TypeOK
    BY Zenon DEF IInv, TypeOK, CurrentIsLive, TaskId, NoId
  <1>2. /\ s1 \in [TaskId -> TaskState]
        /\ s1[i] = "Blocked" <=> st[i] = "Blocked"
        /\ s1[i] = "None" <=> st[i] = "None"
    BY <1>1 DEF Demote, TaskState
  <1>3. state' = s1 \/ \E idx \in next_ready(s1) : state' = [s1 EXCEPT ![slots[idx]] = "Running"]
    BY DEF schedule, prep_switch, Land
  <1> HIDE DEF s1
  <1> QED BY <1>2, <1>3

LEMMA NextFirstRuns ==
  ASSUME FirstTaskSteady
  PROVE  IInv /\ FirstRuns /\ [Next]_vars => FirstRuns'
  <1> SUFFICES ASSUME IInv, FirstRuns, [Next]_vars PROVE FirstRuns'
    OBVIOUS
  <1>0. 1 \in TaskId /\ state \in [TaskId -> TaskState] /\ op \in [TaskId -> Calls \cup {"none"}]
    BY SchedulerAssumption DEF SchedulerAssumption, TaskId, IInv, TypeOK
  <1>10. ASSUME add, op' = op PROVE FirstRuns'
    <2>1. /\ next_id \in TaskId /\ state' = [state EXCEPT ![next_id] = "Ready"]
          /\ next_id' = next_id + 1
      BY <1>10 DEF add, IInv, TypeOK, TaskId
    <2>2. next_id = 1 \/ next_id > 1
      BY <2>1 DEF TaskId
    <2> QED BY <1>0, <1>10, <2>1, <2>2 DEF FirstRuns
  <1>1. CASE BootSpawn
    BY <1>1, <1>10 DEF BootSpawn, control
  <1>2. CASE start
    <2>1. op' = op /\ next_id' = next_id
          /\ (state' = state \/ \E idx \in next_ready(state) : state' = [state EXCEPT ![slots[idx]] = "Running"])
      BY <1>2 DEF start, table, prep_switch, Land
    <2> QED BY <1>0, <2>1 DEF FirstRuns
  <1>3. ASSUME NEW i \in TaskId, TaskStep(i) PROVE FirstRuns'
    <2>1. CASE Call(i)
      <3>1. PICK o \in Body[i] \ {"exit"} : op' = [op EXCEPT ![i] = o]
        BY <2>1, Zenon DEF Call
      <3>2. state' = state /\ next_id' = next_id
        BY <2>1 DEF Call, table
      <3> QED BY <1>0, <3>1, <3>2 DEF FirstRuns, FirstTaskSteady
    <2>2. CASE Acquire(i) \/ snapshot(i) \/ join_check(i)
      BY <2>2 DEF FirstRuns, Acquire, snapshot, join_check, Release, table
    <2>3. CASE spawn(i)
      BY <1>10, <2>3 DEF spawn, Release
    <2>4. CASE sleep(i) \/ join_block(i)
      <3>1. /\ op[i] \in {"sleep", "join"} /\ op' = op /\ next_id' = next_id
            /\ state' = [state EXCEPT ![i] = "Blocked"]
        BY <2>4 DEF sleep, join_block, Release, MarkBlocked, table
      <3> QED BY <1>0, <3>1 DEF FirstRuns
    <2>5. CASE Schedule(i)
      <3>1. /\ cpu = "task" /\ schedule(state, [pc EXCEPT ![i] = "ret"], FALSE)
            /\ op' = op /\ next_id' = next_id
        BY <2>5, Zenon DEF Schedule, Executes, table
      <3> QED BY <1>0, <3>1, ScheduleKeeps, Zenon DEF FirstRuns
    <2>6. CASE Return(i)
      BY <1>0, <2>6 DEF FirstRuns, Return, table
    <2>7. CASE exit_current(i)
      <3>1. i # 1 /\ op' = op /\ next_id' = next_id
        BY <2>7 DEF exit_current, FirstTaskSteady
      <3>2. Reaped(i)[1] = IF 1 \in Joiners(i) THEN "Ready" ELSE state[1]
        BY <1>0, <3>1 DEF Reaped
      <3>3. \/ state' = Reaped(i)
            \/ \E idx \in next_ready(Reaped(i)) : state' = [Reaped(i) EXCEPT ![slots[idx]] = "Running"]
        BY <2>7 DEF exit_current, prep_switch, Land
      <3>4. DOMAIN Reaped(i) = TaskId
        BY DEF Reaped
      <3>5. state'[1] \in {Reaped(i)[1], "Running"}
        BY <1>0, <3>3, <3>4
      <3> QED BY <3>1, <3>2, <3>5 DEF FirstRuns
    <2> QED
      BY <1>3, <2>1, <2>2, <2>3, <2>4, <2>5, <2>6, <2>7 DEF TaskStep
  <1>4. CASE timer_interrupt_handler
    <2> DEFINE aged  == [i \in TaskId |-> Elapsed(block[i])]
               woken == {i \in TaskId : state[i] = "Blocked" /\ Due(aged[i])}
               st    == [i \in TaskId |-> IF i \in woken THEN "Ready" ELSE state[i]]
    <2>1. op' = op /\ next_id' = next_id
      BY <1>4 DEF timer_interrupt_handler, table
    <2>2. /\ st \in [TaskId -> TaskState]
          /\ st[1] = state[1]
      BY <1>0 DEF TaskState, FirstRuns
    <2>3. \/ state' = state
          \/ state' = st
          \/ current # NO_TASK /\ schedule(st, pc, TRUE)
      BY <1>4, Zenon DEF timer_interrupt_handler, tick
    <2>4. current # NO_TASK => cpu = "task"
      BY DEF IInv, CurrentIsLive
    <2> HIDE DEF st
    <2> QED BY <1>0, <2>1, <2>2, <2>3, <2>4, ScheduleKeeps, Zenon DEF FirstRuns
  <1>5. CASE UNCHANGED vars
    BY <1>5 DEF vars, table, control, FirstRuns
  <1> QED
    BY <1>1, <1>2, <1>3, <1>4, <1>5 DEF Next

\* A workload whose first task only yields, spawns and takes snapshots gives
\* every other task company.
LEMMA SteadyCompany ==
  ASSUME FirstTaskSteady
  PROVE  Spec => []Company
  <1>0. 1 \in TaskId
    BY SchedulerAssumption DEF SchedulerAssumption, TaskId
  <1>1. Init => FirstRuns
    BY <1>0 DEF Init, FirstRuns
  <1>2. IInv /\ FirstRuns => Company
    <2> SUFFICES ASSUME IInv, FirstRuns, NEW i \in TaskId, Executes(i), state[i] = "Blocked"
                 PROVE  state[1] = "Ready"
      BY <1>0 DEF Company
    <2>1. i < next_id /\ i # 1
      BY DEF IInv, Bookkeeping, FirstRuns, TypeOK, TaskId
    <2>2. state[1] # "None"
      BY <2>1 DEF FirstRuns, IInv, TypeOK, TaskId
    <2>3. state[1] # "Running"
      BY <1>0, <2>1 DEF IInv, RunningIsCurrent, Executes
    <2> QED BY <1>0, <2>2, <2>3 DEF FirstRuns, IInv, TypeOK, TaskState
  <1> QED
    BY <1>1, <1>2, InitIInv, Inductive, NextFirstRuns, PTL DEF Spec

\* So in every such workload, of any size, sleep() and join() keep what their
\* comments promise.
THEOREM SteadyWorkloadsWait ==
  ASSUME FirstTaskSteady
  PROVE  Spec => [](SleepLastsLongEnough /\ JoinWaitsForExit)
  BY SteadyCompany, SleepIsLongEnough, JoinIsForExit, PTL
=============================================================================
