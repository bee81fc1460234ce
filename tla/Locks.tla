------------------------------- MODULE Locks -------------------------------
(***************************************************************************)
(* The kernel's spin locks, the tasks that take them and the two interrupt *)
(* handlers that take them too (kernel/src/interrupts.rs), composed.       *)
(*                                                                         *)
(* A call of the kernel is the sequence of what it does to the locks, to   *)
(* the serial line and to the scheduler; KernelCalls lists them.  A task   *)
(* runs with interrupts enabled and is interruptible between any two of    *)
(* those.  Code that runs with interrupts disabled (schedule(),            *)
(* exit_current() and both handlers) is one step; a lock that it finds     *)
(* taken is a lock that it spins on for good, and `spin` names it.         *)
(*                                                                         *)
(* Which task is Ready is the subject of Scheduler.  Here schedule() may   *)
(* pick any task that has not ended, or none.                              *)
(***************************************************************************)
EXTENDS Naturals, Sequences

CONSTANTS
  Task,    \* the tasks that may ever be spawned
  NoOne,   \* holds a free lock; runs when the kernel idles
  Calls    \* the calls a task may make

ASSUME LocksAssumption == NoOne \notin Task /\ Task # {}

Lock == {"SCHEDULER", "HEAP", "SERIAL1", "KEYBOARD", "NIC", "FD_TABLE",
         "MOUNTS", "CHILDREN", "SOCKETS", "CACHE", "FRAMES"}

\* What a call does, one after the other.  A line is printed piece by piece:
\* "begin" and "end" stand for its first and its last one.
Op == [do : {"take", "drop", "begin", "end", "add", "schedule"}, lock : Lock]
Take(l)  == [do |-> "take", lock |-> l]
Drop(l)  == [do |-> "drop", lock |-> l]
Begin    == [do |-> "begin", lock |-> "SERIAL1"]
End      == [do |-> "end", lock |-> "SERIAL1"]
Add      == [do |-> "add", lock |-> "SCHEDULER"]
Schedule == [do |-> "schedule", lock |-> "SCHEDULER"]

VARIABLES
  holder,      \* who holds each lock, or NoOne
  todo,        \* what is left of the call each task is in
  cur,         \* the task whose code the core executes, or NoOne in idle()
  live,        \* the tasks spawned and not ended
  unborn,      \* the tasks not spawned yet
  in_service,  \* IRQ0 has had no EOI: neither IRQ0 nor IRQ1 is delivered
  isr,         \* tasks switched away from inside the timer handler
  spin,        \* the lock that interrupt-disabled code spins on, if any
  begun        \* the tasks that have printed only a part of a line

irq  == <<in_service, isr, spin>>
vars == <<holder, todo, cur, live, unborn, irq, begun>>

Free(l) == holder[l] = NoOne

Init ==
  /\ holder = [l \in Lock |-> NoOne]
  /\ todo = [t \in Task |-> <<>>]
  /\ cur \in Task
  /\ \E t \in SUBSET Task : cur \in t /\ live = t /\ unborn = Task \ t
  /\ in_service = FALSE
  /\ isr = {}
  /\ spin = {}
  /\ begun = {}
-----------------------------------------------------------------------------
(* A task at its own code, interrupts enabled.                             *)

Executes(t) == cur = t /\ spin = {}

Call(t) ==
  /\ Executes(t)
  /\ todo[t] = <<>>
  /\ \E c \in Calls : todo' = [todo EXCEPT ![t] = c]
  /\ UNCHANGED <<holder, cur, live, unborn, irq, begun>>

\* The next thing the call of t does is o.
Does(t, o) ==
  /\ Executes(t)
  /\ todo[t] # <<>>
  /\ Head(todo[t]) = o
  /\ todo' = [todo EXCEPT ![t] = Tail(@)]

\* A task that finds the lock taken spins: it has no step, interrupts go on.
lock(t, l) ==
  /\ Does(t, Take(l))
  /\ Free(l)
  /\ holder' = [holder EXCEPT ![l] = t]
  /\ UNCHANGED <<cur, live, unborn, irq, begun>>

unlock(t, l) ==
  /\ Does(t, Drop(l))
  /\ holder' = [holder EXCEPT ![l] = NoOne]
  /\ UNCHANGED <<cur, live, unborn, irq, begun>>

print(t) ==
  /\ \/ Does(t, Begin) /\ begun' = begun \cup {t}
     \/ Does(t, End)   /\ begun' = begun \ {t}
  /\ UNCHANGED <<holder, cur, live, unborn, irq>>

add(t) ==
  /\ Does(t, Add)
  /\ \/ \E n \in unborn : live' = live \cup {n} /\ unborn' = unborn \ {n}
     \/ unborn = {} /\ UNCHANGED <<live, unborn>>   \* bound: |Task| tasks in all
  /\ UNCHANGED <<holder, cur, irq, begun>>
-----------------------------------------------------------------------------
(* Interrupts disabled.                                                    *)

\* __switch to t.  A task that was switched away from inside the timer
\* handler resumes there and sends the EOI.
switch_NoEoi(t, suspended, busy) ==
  /\ cur' = t
  /\ isr' = suspended
  /\ in_service' = busy
switch(t, suspended, busy) ==
  /\ cur' = t
  /\ isr' = suspended \ {t}
  /\ in_service' = (busy /\ t \notin suspended)

SpinOn(l) ==
  /\ ~Free(l)
  /\ spin' = {l}

schedule(t) ==
  /\ Does(t, Schedule)
  /\ \/ /\ SpinOn("SCHEDULER")
        /\ UNCHANGED <<cur, in_service, isr>>
     \/ /\ Free("SCHEDULER")
        /\ \/ \E n \in live : switch(n, isr, in_service)
           \/ UNCHANGED <<cur, in_service, isr>>
        /\ UNCHANGED spin
  /\ UNCHANGED <<holder, live, unborn, begun>>

\* The body has returned.  Reaping the slot frees the stack, inside the
\* SCHEDULER lock.
exit_current(t) ==
  /\ Executes(t)
  /\ todo[t] = <<>>
  /\ \/ /\ \/ SpinOn("SCHEDULER")
           \/ Free("SCHEDULER") /\ SpinOn("HEAP")
        /\ UNCHANGED <<cur, live, in_service, isr>>
     \/ /\ Free("SCHEDULER")
        /\ Free("HEAP")
        /\ live' = live \ {t}
        /\ \/ \E n \in live \ {t} : switch(n, isr, in_service)
           \/ cur' = NoOne /\ UNCHANGED <<in_service, isr>>
        /\ UNCHANGED spin
  /\ UNCHANGED <<holder, todo, unborn, begun>>

\* An interrupt reaches the core: the flag is set and no IRQ0 is in service,
\* which holds back IRQ1 as well.
Interruptible == spin = {} /\ ~in_service

\* tick() takes SCHEDULER, and may find the slice used up.  The EOI comes when
\* the handler returns, so a task preempted here owes it.
timer_interrupt_handler_Prints ==
  /\ Interruptible
  /\ \/ /\ SpinOn("SCHEDULER") \/ SpinOn("SERIAL1")
        /\ UNCHANGED <<cur, in_service, isr>>
     \/ /\ Free("SCHEDULER")
        /\ Free("SERIAL1")
        /\ cur # NoOne
        /\ \E n \in live : switch(n, {cur}, TRUE)
        /\ UNCHANGED spin
  /\ UNCHANGED <<holder, todo, live, unborn, begun>>
timer_interrupt_handler ==
  /\ Interruptible
  /\ \/ /\ SpinOn("SCHEDULER")
        /\ UNCHANGED <<cur, in_service, isr>>
     \/ /\ Free("SCHEDULER")
        /\ \/ cur # NoOne /\ \E n \in live : switch(n, {cur}, TRUE)
           \/ UNCHANGED <<cur, in_service, isr>>
        /\ UNCHANGED spin
  /\ UNCHANGED <<holder, todo, live, unborn, begun>>

\* handle_scancode() takes KEYBOARD, and HEAP when the queue has to grow.
keyboard_interrupt_handler ==
  /\ Interruptible
  /\ \/ SpinOn("KEYBOARD")
     \/ Free("KEYBOARD") /\ SpinOn("HEAP")
     \/ Free("KEYBOARD") /\ UNCHANGED spin
  /\ UNCHANGED <<holder, todo, cur, live, unborn, in_service, isr, begun>>
-----------------------------------------------------------------------------
TaskStep(t) ==
  \/ Call(t)
  \/ \E l \in Lock : lock(t, l) \/ unlock(t, l)
  \/ print(t)
  \/ add(t)
  \/ schedule(t)
  \/ exit_current(t)

Next ==
  \/ \E t \in Task : TaskStep(t)
  \/ timer_interrupt_handler
  \/ keyboard_interrupt_handler

Spec == Init /\ [][Next]_vars

\* The core goes on executing the code it stands in.
FairSpec == Spec /\ \A t \in Task : WF_vars(TaskStep(t))
-----------------------------------------------------------------------------
(* The discipline of a call.  From its i-th element on, s releases l: s     *)
(* stands inside a critical section of l there.                            *)

Owes(s, i, l) ==
  \E k \in i..Len(s) : s[k] = Drop(l) /\ \A j \in i..(k - 1) : s[j] # Take(l)

Balanced(s) ==
  \A i \in 1..Len(s) :
    /\ s[i].do = "take" => Owes(s, i + 1, s[i].lock)
    /\ s[i].do = "drop" => ~Owes(s, i + 1, s[i].lock)
    /\ s[i] = Schedule => \A l \in Lock : ~Owes(s, i + 1, l)
    /\ s[i] = Begin => i < Len(s) /\ s[i + 1] = End
    /\ s[i] = End =>
         /\ Owes(s, i + 1, "SERIAL1")
         /\ \A l \in {"SCHEDULER", "KEYBOARD", "HEAP"} : ~Owes(s, i + 1, l)

\* Every call releases each lock it takes, once, before the call ends and
\* before it gives the core away; it takes no lock twice; it prints a line in
\* one critical section of SERIAL1, and none inside a critical section of a
\* lock that a handler takes.
CallsBalanced ==
  \A c \in Calls : c \in Seq(Op) /\ Balanced(c) /\ \A l \in Lock : ~Owes(c, 1, l)
-----------------------------------------------------------------------------
LocksTypeOK ==
  /\ holder \in [Lock -> Task \cup {NoOne}]
  /\ todo \in [Task -> Seq(Op)]
  /\ cur \in live \cup {NoOne}
  /\ live \subseteq Task
  /\ unborn \subseteq Task
  /\ in_service \in BOOLEAN
  /\ isr \subseteq live
  /\ spin \subseteq Lock
  /\ begun \subseteq live

\* Wherever a task stands in a call, it holds exactly the locks that the rest
\* of the call releases, and the rest keeps the discipline above: no guard is
\* leaked, dropped twice, or kept over schedule() or past the call's end.
\* With every call of the kernel in Calls this is CallsBalanced for them.
GuardsFollowCalls ==
  \A t \in Task :
    /\ Balanced(todo[t])
    /\ \A l \in Lock : holder[l] = t <=> Owes(todo[t], 1, l)

\* Nothing but a preemption takes the core from a task that holds a lock: the
\* guards that sleep(), join() and the others take are gone before they call
\* schedule().  So a lock that is not held by the task that runs is held by
\* the one task that the timer handler is parked on.
OffCpuHoldsNothing ==
  \A l \in Lock : Free(l) \/ holder[l] = cur \/ holder[l] \in isr

\* No call takes a lock that it already holds (every Mutex of the kernel is a
\* spin lock, and would wait for itself), and calls nest their locks so that a
\* task only ever waits for the task that the timer handler is parked on.
Wants(t, l) == todo[t] # <<>> /\ Head(todo[t]) = Take(l)
WaitsForPreempted ==
  \A l \in Lock : cur # NoOne /\ Wants(cur, l) /\ ~Free(l) => holder[l] \in isr

\* SERIAL1 keeps the output of tasks from interleaving: there is never more
\* than one line that has begun and not ended, wherever preemption falls.
LinesWhole == \A t, u \in begun : t = u

\* The core waits for a lock.
Stuck == spin # {} \/ \E l \in Lock : cur # NoOne /\ Wants(cur, l) /\ ~Free(l)

\* A task that has begun a line and has the core waits for nothing before the
\* line ends: SERIAL1 is the last lock that any call takes, the handlers do not
\* take it, and no call holds a lock that a handler takes while it prints.  (A
\* tick may still park the task in the middle of its line, with SERIAL1 taken;
\* others then wait for it, which is WaitsForPreempted.)
LinesDoNotWait == cur \in begun => ~Stuck

\* A core that waits takes no further step: while the lock's holder is parked
\* in the timer handler neither a tick nor a key is delivered.
NoWaitEnds == [][~Stuck]_vars

\* Every wait for a lock ends.
WaitsEnd == Stuck ~> ~Stuck
=============================================================================
