------------------------------- MODULE E1000 -------------------------------
(***************************************************************************)
(* The network card and its driver (kernel/src/drivers/e1000.rs): the two  *)
(* descriptor rings, which the driver and the device work on at the same   *)
(* time.  All driver calls hold the NIC lock.                              *)
(*                                                                         *)
(* A receive descriptor and its buffer are one entry of rx_ring: the frame *)
(* the device has stored (DD set, length not 0) or NoFrame.  All transmit  *)
(* descriptors point to one tx_buf, so the transmit ring is its indices.   *)
(* The device is external; it owns the descriptors from its head up to the *)
(* driver's tail and reads tx_buf when it gets to the descriptor.          *)
(*                                                                         *)
(* An operator named X_Variant is a deliberately wrong variant of X, there *)
(* to show that the properties of Network notice it.                       *)
(***************************************************************************)
EXTENDS Naturals, Sequences

CONSTANTS
  NUM_RX, NUM_TX,    \* descriptors of the rings (8 and 8 in the code)
  Frame,             \* the frames the wire can bring
  NoFrame

ASSUME RingAssumption ==
  /\ NUM_RX \in Nat \ {0, 1} /\ NUM_TX \in Nat \ {0, 1}
  /\ NoFrame \notin Frame

VARIABLES
  up,                             \* a card was found and configured
  rx_ring, RDH, RDT, rx_cursor,   \* receive: ring, head, tail, driver's index
  tx_buf, TDH, TDT, tx_cursor,    \* transmit: the buffer and the indices
  event,                          \* what happened last at the receive ring
  due                             \* frames given to send that the device has yet
                                  \* to put on the wire

rx == <<rx_ring, RDH, RDT, rx_cursor, event>>
tx == <<tx_buf, TDH, TDT, tx_cursor, due>>

\* init, configure and build_nic: every receive buffer but one is the device's.
E1000Init ==
  /\ up \in BOOLEAN
  /\ rx_ring = [i \in 0..(NUM_RX - 1) |-> NoFrame]
  /\ RDH = 0 /\ RDT = NUM_RX - 1 /\ rx_cursor = 0
  /\ tx_buf = NoFrame /\ TDH = 0 /\ TDT = 0 /\ tx_cursor = 0
  /\ event = <<"none">> /\ due = <<>>
-----------------------------------------------------------------------------
(* The device.                                                             *)

store(f) ==
  /\ up
  /\ IF RDH # RDT
       THEN /\ rx_ring' = [rx_ring EXCEPT ![RDH] = f]
            /\ RDH' = (RDH + 1) % NUM_RX
            /\ event' = <<"put", f>>
       ELSE event' = <<"refuse", f>> /\ UNCHANGED <<rx_ring, RDH>>
  /\ UNCHANGED <<up, RDT, rx_cursor, tx>>

transmit ==
  /\ up /\ TDH # TDT
  /\ due' = SubSeq(due, 2, Len(due))
  /\ TDH' = (TDH + 1) % NUM_TX
  /\ UNCHANGED <<up, rx, tx_buf, TDT, tx_cursor>>
-----------------------------------------------------------------------------
(* The driver.  Polled is what poll_receive returns.                       *)

idx == rx_cursor % NUM_RX
Polled == IF up THEN rx_ring[idx] ELSE NoFrame

recycle_Next == (idx + 1) % NUM_RX
recycle == idx

poll_receive ==
  /\ IF Polled # NoFrame
       THEN /\ rx_ring' = [rx_ring EXCEPT ![idx] = NoFrame]
            /\ RDT' = recycle
            /\ rx_cursor' = rx_cursor + 1
            /\ event' = <<"get", Polled>>
       ELSE event' = <<"none">> /\ UNCHANGED <<rx_ring, RDT, rx_cursor>>
  /\ UNCHANGED <<up, RDH, tx>>

\* send: the copy into tx_buf and the descriptor, then the doorbell.
send_copy(f) ==
  /\ tx_buf' = f /\ due' = Append(due, f)
  /\ tx_cursor' = tx_cursor + 1
  /\ UNCHANGED <<up, rx, TDH, TDT>>

send_tail_Past ==
  /\ TDT' = (tx_cursor + 1) % NUM_TX
  /\ UNCHANGED <<up, rx, tx_buf, TDH, tx_cursor, due>>
\* When the tail comes round to the head, the device sees an empty ring: all that
\* it had yet to send is lost.
send_tail ==
  /\ TDT' = tx_cursor % NUM_TX
  /\ due' = IF TDT' = TDH THEN <<>> ELSE due
  /\ UNCHANGED <<up, rx, tx_buf, TDH, tx_cursor>>
-----------------------------------------------------------------------------
\* The frames that wait in the ring, oldest first.
Waiting ==
  [i \in 1..((RDH + NUM_RX - idx) % NUM_RX) |-> rx_ring[(idx + i - 1) % NUM_RX]]

Link == INSTANCE FrameQueue WITH Capacity <- NUM_RX - 1, queue <- Waiting
card == <<up, rx, tx>>

E1000Next ==
  \/ \E f \in Frame : store(f)
  \/ transmit
  \/ poll_receive
  \/ \E f : send_copy(f)
  \/ send_tail

E1000Spec == E1000Init /\ [][E1000Next]_card

\* Between them the callers of poll_receive get every frame the card has accepted,
\* once and in order; a frame is refused only when the ring is full, and
\* poll_receive comes back empty only when it is empty.
ImplementsFrameQueue == Link!QueueSpec

\* What the queue rests on: the tail is one behind the driver's index, and
\* exactly the descriptors from the driver's index up to the head hold a frame.
Offset(i) == (i + NUM_RX - idx) % NUM_RX

RingInv ==
  /\ rx_ring \in [0..(NUM_RX - 1) -> Frame \cup {NoFrame}]
  /\ RDH \in 0..(NUM_RX - 1) /\ rx_cursor \in Nat
  /\ RDT = (idx + NUM_RX - 1) % NUM_RX
  /\ \A i \in 0..(NUM_RX - 1) : rx_ring[i] # NoFrame <=> Offset(i) < Offset(RDH)
  /\ up \in BOOLEAN /\ (~up => RDH = idx)
=============================================================================
