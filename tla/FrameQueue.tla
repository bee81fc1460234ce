----------------------------- MODULE FrameQueue -----------------------------
(***************************************************************************)
(* What the receive side of the network card promises: a bounded FIFO of   *)
(* frames.  A frame is refused only when the queue is full, a poll comes   *)
(* back empty-handed only when the queue is empty, and every accepted      *)
(* frame is handed out once, in the order of arrival, whoever polls.       *)
(***************************************************************************)
EXTENDS Naturals, Sequences

CONSTANTS Frame, Capacity

VARIABLES queue, event    \* event is what happened last

QueueInit == queue = <<>> /\ event = <<"none">>

Put(f) == /\ Len(queue) < Capacity
          /\ queue' = Append(queue, f)
          /\ event' = <<"put", f>>

Refuse(f) == /\ Len(queue) = Capacity
             /\ event' = <<"refuse", f>>
             /\ UNCHANGED queue

Get == /\ queue # <<>>
       /\ queue' = Tail(queue)
       /\ event' = <<"get", Head(queue)>>

None == /\ queue = <<>>
        /\ event' = <<"none">>
        /\ UNCHANGED queue

QueueNext == (\E f \in Frame : Put(f) \/ Refuse(f)) \/ Get \/ None

QueueSpec == QueueInit /\ [][QueueNext]_<<queue, event>>
=============================================================================
