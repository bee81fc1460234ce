---------------------------- MODULE NetworkProofs ----------------------------
(***************************************************************************)
(* The receive ring of the card implements the bounded FIFO of FrameQueue, *)
(* for every ring size.  RingInv says which descriptors hold a frame; the  *)
(* remainders by NUM_RX are first turned into comparisons, which is all    *)
(* the steps need.  The tasks of Network use the card only through its     *)
(* driver, so the ring keeps its promise whichever of them polls.          *)
(***************************************************************************)
EXTENDS Network, Integers, TLAPS


\* Arithmetic modulo the size of a ring, in terms of a comparison.
LEMMA Wrap ==
  ASSUME NEW N \in Nat \ {0, 1}, NEW x \in 0..(2 * N - 1)
  PROVE  (x % N) = IF x < N THEN x ELSE x - N
<1>1. CASE x < N
  BY <1>1, SMT
<1>2. CASE x >= N
  BY <1>2, SMT
<1> QED BY <1>1, <1>2

\* Quotient and remainder.
LEMMA Euclid ==
  ASSUME NEW N \in Nat \ {0, 1}, NEW x \in Nat
  PROVE  x \div N \in Nat /\ x % N \in 0..(N - 1) /\ x = N * (x \div N) + (x % N)
OBVIOUS

\* Two representations with remainders below N have the same remainder.
LEMMA Remainder ==
  ASSUME NEW N \in Nat \ {0, 1}, NEW q \in Nat, NEW r \in 0..(N - 1), NEW p \in Nat,
         NEW s \in 0..(N - 1), N * q + r = N * p + s
  PROVE  r = s
<1>1. CASE q = p
  BY <1>1
<1>2. CASE q >= p + 1
  <2>1. PICK d \in Nat : q = p + 1 + d
    <3>1. q - p - 1 \in Nat /\ q = p + 1 + (q - p - 1) BY <1>2
    <3> QED BY <3>1
  <2>2. N * q = N * p + N + N * d /\ N * d >= 0 BY <2>1
  <2> QED BY <2>2
<1>3. CASE p >= q + 1
  <2>1. PICK d \in Nat : p = q + 1 + d
    <3>1. p - q - 1 \in Nat /\ p = q + 1 + (p - q - 1) BY <1>3
    <3> QED BY <3>1
  <2>2. N * p = N * q + N + N * d /\ N * d >= 0 BY <2>1
  <2> QED BY <2>2
<1> QED BY <1>1, <1>2, <1>3

\* The driver's index after one more frame.
LEMMA Successor ==
  ASSUME NEW N \in Nat \ {0, 1}, NEW c \in Nat
  PROVE  /\ c % N \in 0..(N - 1)
         /\ (c + 1) % N = IF (c % N) = N - 1 THEN 0 ELSE (c % N) + 1
<1> DEFINE q == c \div N  r == c % N  p == (c + 1) \div N  s == (c + 1) % N
<1>1. q \in Nat /\ r \in 0..(N - 1) /\ c = N * q + r
  BY Euclid, Zenon
<1>2. p \in Nat /\ s \in 0..(N - 1) /\ c + 1 = N * p + s
  <2>1. c + 1 \in Nat OBVIOUS
  <2> QED BY <2>1, Euclid, Zenon
<1> HIDE DEF q, r, p, s
<1>3. CASE r = N - 1
  <2>1. N * (q + 1) + 0 = N * p + s
    <3>1. N * (q + 1) = N * q + N BY <1>1
    <3> QED BY <3>1, <1>1, <1>2, <1>3
  <2>2. q + 1 \in Nat /\ 0 \in 0..(N - 1) BY <1>1
  <2>3. 0 = s BY <2>1, <2>2, <1>2, Remainder, Zenon
  <2> QED BY <2>3, <1>1, <1>3 DEF r, s
<1>4. CASE r # N - 1
  <2>1. N * q + (r + 1) = N * p + s /\ r + 1 \in 0..(N - 1) BY <1>1, <1>2, <1>4
  <2>2. r + 1 = s BY <2>1, <1>1, <1>2, Remainder
  <2> QED BY <2>2, <1>1, <1>4 DEF r, s
<1> QED BY <1>3, <1>4
-----------------------------------------------------------------------------
\* The driver's index is a descriptor of the ring.
LEMMA IdxType == RingInv => idx \in 0..(NUM_RX - 1)
BY RingAssumption, Successor DEF RingInv, idx

\* The distance of a descriptor from the driver's index.
LEMMA OffsetIs ==
  ASSUME RingInv, NEW i \in 0..(NUM_RX - 1)
  PROVE  /\ Offset(i) = IF i < idx THEN i + NUM_RX - idx ELSE i - idx
         /\ Offset(i) \in 0..(NUM_RX - 1)
<1>1. idx \in 0..(NUM_RX - 1) BY IdxType
<1> HIDE DEF idx
<1> DEFINE x == i + NUM_RX - idx
<1>2. x \in 0..(2 * NUM_RX - 1) BY <1>1, RingAssumption
<1>3. Offset(i) = x % NUM_RX BY DEF Offset
<1>4. (x % NUM_RX) = IF x < NUM_RX THEN x ELSE x - NUM_RX
  <2> HIDE DEF x
  <2> QED BY <1>2, Wrap, RingAssumption, Zenon
<1> QED BY <1>1, <1>3, <1>4, RingAssumption

\* The descriptor of the i-th frame that waits.
LEMMA SlotIs ==
  ASSUME RingInv, NEW i \in 1..NUM_RX
  PROVE  /\ ((idx + i - 1) % NUM_RX) = IF idx + i - 1 < NUM_RX THEN idx + i - 1 ELSE idx + i - 1 - NUM_RX
         /\ ((idx + i - 1) % NUM_RX) \in 0..(NUM_RX - 1)
<1>1. idx \in 0..(NUM_RX - 1) BY IdxType
<1> HIDE DEF idx
<1> DEFINE x == idx + i - 1
<1>2. x \in 0..(2 * NUM_RX - 1) BY <1>1, RingAssumption
<1>3. (x % NUM_RX) = IF x < NUM_RX THEN x ELSE x - NUM_RX
  <2> HIDE DEF x
  <2> QED BY <1>2, Wrap, RingAssumption, Zenon
<1> QED BY <1>1, <1>3, RingAssumption

\* The tail register is one descriptor behind the driver's index.
LEMMA TailIs ==
  ASSUME RingInv
  PROVE  RDT = IF idx = 0 THEN NUM_RX - 1 ELSE idx - 1
<1>1. idx \in 0..(NUM_RX - 1) BY IdxType
<1>2. RDT = (idx + NUM_RX - 1) % NUM_RX BY DEF RingInv
<1> HIDE DEF idx
<1>3. idx + NUM_RX - 1 \in 0..(2 * NUM_RX - 1) BY <1>1, RingAssumption
<1> QED BY <1>1, <1>2, <1>3, Wrap, RingAssumption
-----------------------------------------------------------------------------
\* A sequence that is q with e behind it is Append(q, e).
LEMMA AppendIs ==
  ASSUME NEW S, NEW q \in Seq(S), NEW e \in S, NEW t \in Seq(S),
         Len(t) = Len(q) + 1, \A i \in 1..Len(q) : t[i] = q[i], t[Len(q) + 1] = e
  PROVE  t = Append(q, e)
<1>1. Append(q, e) \in Seq(S) /\ Len(Append(q, e)) = Len(q) + 1 OBVIOUS
<1>2. \A i \in 1..Len(t) : t[i] = Append(q, e)[i]
  <2>1. \A i \in 1..Len(t) : i \in 1..Len(q) \/ i = Len(q) + 1 OBVIOUS
  <2> QED BY <2>1
<1> QED BY <1>1, <1>2

\* The tail of a sequence, as a function.
LEMMA TailOf ==
  ASSUME NEW S, NEW q \in Seq(S), q # <<>>
  PROVE  Tail(q) = [i \in 1..(Len(q) - 1) |-> q[i + 1]]
<1> DEFINE m == Len(q) - 1
           t == [i \in 1..m |-> q[i + 1]]
<1>1. m \in Nat /\ Len(q) \in Nat OBVIOUS
<1>2. \A i \in 1..m : q[i + 1] \in S BY <1>1
<1>3. t \in Seq(S) /\ Len(t) = m
  <2> HIDE DEF m
  <2> QED BY <1>1, <1>2
<1>4. Tail(q) \in Seq(S) /\ Len(Tail(q)) = m /\ \A i \in 1..m : t[i] = Tail(q)[i]
  OBVIOUS
<1>5. Tail(q) = t
  <2> HIDE DEF t, m
  <2> QED BY <1>3, <1>4
<1> QED BY <1>5

\* How many frames wait.
Fill == Offset(RDH)

\* The ring that init builds is the empty queue.
LEMMA InitRing == E1000Init => RingInv /\ Link!QueueInit
<1> SUFFICES ASSUME E1000Init PROVE RingInv /\ Link!QueueInit
  OBVIOUS
<1>1. idx = 0
  BY RingAssumption, Wrap DEF E1000Init, idx
<1>2. \A i \in 0..(NUM_RX - 1) : Offset(i) = i
  <2> SUFFICES ASSUME NEW i \in 0..(NUM_RX - 1) PROVE Offset(i) = i
    OBVIOUS
  <2> DEFINE x == i + NUM_RX
  <2>1. x \in 0..(2 * NUM_RX - 1) /\ x >= NUM_RX BY RingAssumption
  <2>2. Offset(i) = x % NUM_RX BY <1>1, RingAssumption DEF Offset
  <2>3. (x % NUM_RX) = IF x < NUM_RX THEN x ELSE x - NUM_RX
    <3> HIDE DEF x
    <3> QED BY <2>1, Wrap, RingAssumption, Zenon
  <2> QED BY <2>1, <2>2, <2>3, RingAssumption
<1>3. ((0 + NUM_RX - 1) % NUM_RX) = NUM_RX - 1
  <2> DEFINE x == 0 + NUM_RX - 1
  <2>1. x \in 0..(2 * NUM_RX - 1) /\ x < NUM_RX /\ x = NUM_RX - 1 BY RingAssumption
  <2> HIDE DEF x
  <2>2. (x % NUM_RX) = x BY <2>1, Wrap, RingAssumption, Zenon
  <2> QED BY <2>1, <2>2 DEF x
<1>4. RingInv
  BY <1>1, <1>2, <1>3, RingAssumption DEF E1000Init, RingInv
<1>5. Offset(RDH) = 0
  BY <1>2, RingAssumption DEF E1000Init
<1>6. Waiting = <<>>
  BY <1>5 DEF Waiting, Offset
<1> QED BY <1>4, <1>6 DEF E1000Init, Link!QueueInit

\* Waiting is a sequence of as many frames as the ring holds.
LEMMA WaitingIs ==
  ASSUME RingInv
  PROVE  /\ Fill \in 0..(NUM_RX - 1)
         /\ Waiting = [i \in 1..Fill |-> rx_ring[(idx + i - 1) % NUM_RX]]
         /\ Waiting \in Seq(Frame) /\ Len(Waiting) = Fill
<1>1. Fill \in 0..(NUM_RX - 1) BY OffsetIs DEF Fill, RingInv
<1>2. Waiting = [i \in 1..Fill |-> rx_ring[(idx + i - 1) % NUM_RX]]
  BY DEF Waiting, Fill, Offset
<1>3. \A i \in 1..Fill : rx_ring[(idx + i - 1) % NUM_RX] \in Frame
  <2> SUFFICES ASSUME NEW i \in 1..Fill PROVE rx_ring[(idx + i - 1) % NUM_RX] \in Frame
    OBVIOUS
  <2> DEFINE slot == (idx + i - 1) % NUM_RX
  <2>1. i \in 1..NUM_RX BY <1>1, RingAssumption
  <2>2. /\ slot = IF idx + i - 1 < NUM_RX THEN idx + i - 1 ELSE idx + i - 1 - NUM_RX
        /\ slot \in 0..(NUM_RX - 1)
    BY <2>1, SlotIs
  <2>3. idx \in 0..(NUM_RX - 1) BY IdxType
  <2> HIDE DEF slot
  <2>4. Offset(slot) = IF slot < idx THEN slot + NUM_RX - idx ELSE slot - idx
    BY <2>2, OffsetIs
  <2> HIDE DEF idx
  <2>5. Offset(slot) = i - 1 BY <2>1, <2>2, <2>3, <2>4, RingAssumption
  <2>6. Offset(slot) < Offset(RDH) BY <2>5, <1>1 DEF Fill
  <2>7. rx_ring[slot] \in Frame BY <2>2, <2>6 DEF RingInv
  <2> QED BY <2>7 DEF slot
<1> QED BY <1>1, <1>2, <1>3
-----------------------------------------------------------------------------
\* The device stores a frame behind the last one that waits, or refuses it when
\* the ring is full.
LEMMA StoreStep ==
  ASSUME RingInv, NEW f \in Frame, store(f)
  PROVE  RingInv' /\ (Link!Put(f) \/ Link!Refuse(f))
<1>1. /\ idx \in 0..(NUM_RX - 1) /\ idx' = idx /\ up
      /\ RDH \in 0..(NUM_RX - 1) /\ rx_ring \in [0..(NUM_RX - 1) -> Frame \cup {NoFrame}]
  BY IdxType DEF RingInv, store, idx
<1>2. /\ RDT = IF idx = 0 THEN NUM_RX - 1 ELSE idx - 1
      /\ Fill = IF RDH < idx THEN RDH + NUM_RX - idx ELSE RDH - idx
      /\ Fill \in 0..(NUM_RX - 1)
  BY TailIs, OffsetIs, <1>1 DEF Fill
<1>3. \A i \in 0..(NUM_RX - 1) : /\ Offset(i) = IF i < idx THEN i + NUM_RX - idx ELSE i - idx
                                 /\ Offset(i)' = Offset(i)
  BY OffsetIs, <1>1 DEF Offset
<1>4. CASE RDH # RDT
  <2>1. /\ rx_ring' = [rx_ring EXCEPT ![RDH] = f] /\ event' = <<"put", f>>
        /\ RDH' = (RDH + 1) % NUM_RX /\ UNCHANGED <<up, RDT, rx_cursor>>
    BY <1>4 DEF store
  <2>2. RDH' = (IF RDH = NUM_RX - 1 THEN 0 ELSE RDH + 1) /\ RDH' \in 0..(NUM_RX - 1)
    <3> DEFINE x == RDH + 1
    <3>1. x \in 0..(2 * NUM_RX - 1) BY <1>1, RingAssumption
    <3>2. (x % NUM_RX) = IF x < NUM_RX THEN x ELSE x - NUM_RX
      <4> HIDE DEF x
      <4> QED BY <3>1, Wrap, RingAssumption, Zenon
    <3> QED BY <2>1, <3>2, <1>1, RingAssumption
  <2> HIDE DEF idx
  <2>3. Fill < NUM_RX - 1 BY <1>1, <1>2, <1>4, RingAssumption
  <2>4. Fill' = Fill + 1
    <3>1. Fill' = IF RDH' < idx THEN RDH' + NUM_RX - idx ELSE RDH' - idx
      <4>1. Fill' = (RDH' + NUM_RX - idx) % NUM_RX BY <1>1 DEF Fill, Offset
      <4>2. Offset(RDH') = (RDH' + NUM_RX - idx) % NUM_RX BY DEF Offset
      <4> QED BY <4>1, <4>2, <1>3, <2>2
    <3> QED BY <3>1, <2>2, <2>3, <1>1, <1>2, RingAssumption
  <2>5. RingInv'
    <3>1. rx_ring' \in [0..(NUM_RX - 1) -> Frame \cup {NoFrame}] BY <2>1, <1>1
    <3>2. ASSUME NEW i \in 0..(NUM_RX - 1)
          PROVE  rx_ring'[i] # NoFrame <=> Offset(i) < Fill + 1
      <4>1. rx_ring[i] # NoFrame <=> Offset(i) < Fill BY DEF RingInv, Fill
      <4>2. i = RDH <=> Offset(i) = Fill
        <5>1. Offset(i) = IF i < idx THEN i + NUM_RX - idx ELSE i - idx BY <1>3
        <5> HIDE DEF Offset, Fill
        <5> QED BY <5>1, <1>1, <1>2, RingAssumption
      <4>3. Offset(i) \in Nat BY <1>1, <1>3, RingAssumption
      <4>4. CASE i = RDH
        <5>1. rx_ring'[i] = f BY <4>4, <2>1, <1>1
        <5> QED BY <5>1, <4>2, <4>4, <1>2, RingAssumption
      <4>5. CASE i # RDH
        <5>1. rx_ring'[i] = rx_ring[i] BY <4>5, <2>1, <1>1
        <5> QED BY <5>1, <4>1, <4>2, <4>3, <4>5, <1>2
      <4> QED BY <4>4, <4>5
    <3>3. \A i \in 0..(NUM_RX - 1) : rx_ring'[i] # NoFrame <=> Offset(i)' < Fill'
      BY <3>2, <2>4, <1>3
    <3>4. (RDT = (idx + NUM_RX - 1) % NUM_RX)' BY <2>1, <1>1 DEF RingInv
    <3> QED BY <3>1, <3>3, <3>4, <2>1, <2>2, <1>1 DEF RingInv, Fill
  <2>6. Waiting' = Append(Waiting, f)
    <3>1. Waiting' = [i \in 1..(Fill + 1) |-> rx_ring'[(idx + i - 1) % NUM_RX]]
      BY <2>4, <1>1 DEF Waiting, Fill, Offset
    <3>2. Waiting = [i \in 1..Fill |-> rx_ring[(idx + i - 1) % NUM_RX]] /\ Len(Waiting) = Fill
          /\ Waiting \in Seq(Frame)
      BY WaitingIs
    <3>3. ASSUME NEW i \in 1..(Fill + 1)
          PROVE  rx_ring'[(idx + i - 1) % NUM_RX] = IF i = Fill + 1 THEN f ELSE rx_ring[(idx + i - 1) % NUM_RX]
      <4> DEFINE slot == (idx + i - 1) % NUM_RX
      <4>1. i \in 1..NUM_RX BY <1>2, <2>3, RingAssumption
      <4>2. /\ slot = IF idx + i - 1 < NUM_RX THEN idx + i - 1 ELSE idx + i - 1 - NUM_RX
            /\ slot \in 0..(NUM_RX - 1)
        BY <4>1, SlotIs
      <4> HIDE DEF slot
      <4>3. slot = RDH <=> i = Fill + 1 BY <4>1, <4>2, <1>1, <1>2, RingAssumption
      <4>4. rx_ring'[slot] = IF i = Fill + 1 THEN f ELSE rx_ring[slot] BY <4>2, <4>3, <2>1, <1>1
      <4> QED BY <4>4 DEF slot
    <3> HIDE DEF Waiting
    <3> DEFINE t == Waiting'
    <3>4. \A i \in 1..(Fill + 1) : t[i] = IF i = Fill + 1 THEN f ELSE rx_ring[(idx + i - 1) % NUM_RX]
      BY <3>1, <3>3
    <3>5. \A i \in 1..Fill : Waiting[i] = rx_ring[(idx + i - 1) % NUM_RX] /\ Waiting[i] \in Frame
      <4>1. \A i \in 1..Fill : Waiting[i] = rx_ring[(idx + i - 1) % NUM_RX] BY <3>2
      <4>2. Waiting \in Seq(Frame) BY <3>2
      <4>3. \A i \in 1..Len(Waiting) : Waiting[i] \in Frame BY <4>2
      <4>4. Len(Waiting) = Fill BY <3>2, Zenon
      <4> QED BY <4>1, <4>3, <4>4
    <3>6. \A i \in 1..(Fill + 1) : i \in 1..Fill \/ i = Fill + 1 BY <1>2
    <3>7. \A i \in 1..Fill : i \in 1..(Fill + 1) /\ i # Fill + 1 BY <1>2
    <3>8. Fill + 1 \in 1..(Fill + 1) /\ Fill + 1 \in Nat BY <1>2
    <3>9. t = [i \in 1..(Fill + 1) |-> t[i]] BY <3>1
    <3> HIDE DEF t
    <3>10. (\A i \in 1..Fill : t[i] = Waiting[i]) /\ t[Fill + 1] = f BY <3>4, <3>5, <3>7, <3>8
    <3>11. \A i \in 1..(Fill + 1) : t[i] \in Frame BY <3>5, <3>6, <3>10
    <3>12. t \in Seq(Frame) /\ Len(t) = Fill + 1 BY <3>8, <3>9, <3>11
    <3>13. t = Append(Waiting, f) BY <3>2, <3>10, <3>12, AppendIs, Zenon
    <3> QED BY <3>13 DEF t
  <2>7. Len(Waiting) < NUM_RX - 1 BY <2>3, WaitingIs
  <2> QED BY <2>1, <2>5, <2>6, <2>7 DEF Link!Put
<1>5. CASE RDH = RDT
  <2>1. event' = <<"refuse", f>> /\ UNCHANGED <<rx_ring, RDH, RDT, rx_cursor, up>>
    BY <1>5 DEF store
  <2>2. RingInv' /\ Waiting' = Waiting
    BY <2>1 DEF RingInv, Waiting, Offset, idx
  <2>3. Fill = NUM_RX - 1
    <3> HIDE DEF idx
    <3> QED BY <1>1, <1>2, <1>5, RingAssumption
  <2>4. Len(Waiting) = NUM_RX - 1 BY <2>3, WaitingIs
  <2> QED BY <2>1, <2>2, <2>4 DEF Link!Refuse
<1> QED BY <1>4, <1>5
-----------------------------------------------------------------------------
\* poll_receive takes the oldest frame, or finds the ring empty.
LEMMA PollStep ==
  ASSUME RingInv, poll_receive
  PROVE  RingInv' /\ (Link!Get \/ Link!None)
<1>1. /\ idx \in 0..(NUM_RX - 1) /\ UNCHANGED <<up, RDH>> /\ up \in BOOLEAN
      /\ RDH \in 0..(NUM_RX - 1) /\ rx_ring \in [0..(NUM_RX - 1) -> Frame \cup {NoFrame}]
      /\ rx_cursor \in Nat
  BY IdxType DEF RingInv, poll_receive
<1>2. /\ Fill = IF RDH < idx THEN RDH + NUM_RX - idx ELSE RDH - idx
      /\ Fill \in 0..(NUM_RX - 1)
      /\ \A i \in 0..(NUM_RX - 1) : Offset(i) = IF i < idx THEN i + NUM_RX - idx ELSE i - idx
  BY OffsetIs, <1>1 DEF Fill
<1>3. rx_ring[idx] # NoFrame <=> 0 < Fill
  <2>1. rx_ring[idx] # NoFrame <=> Offset(idx) < Fill BY <1>1 DEF RingInv, Fill
  <2>2. Offset(idx) = 0
    <3>1. Offset(idx) = IF idx < idx THEN idx + NUM_RX - idx ELSE idx - idx BY <1>1, <1>2
    <3> HIDE DEF idx
    <3> QED BY <3>1, <1>1, RingAssumption
  <2> QED BY <2>1, <2>2
<1>4. CASE Polled # NoFrame
  <2>1. /\ up /\ Polled = rx_ring[idx] /\ rx_ring[idx] # NoFrame
        /\ rx_ring' = [rx_ring EXCEPT ![idx] = NoFrame] /\ RDT' = idx
        /\ rx_cursor' = rx_cursor + 1 /\ event' = <<"get", Polled>>
    BY <1>4 DEF poll_receive, Polled, recycle
  <2>2. 0 < Fill BY <2>1, <1>3
  <2>3. idx' = (IF idx = NUM_RX - 1 THEN 0 ELSE idx + 1) /\ idx' \in 0..(NUM_RX - 1)
    <3>1. idx' = IF (rx_cursor % NUM_RX) = NUM_RX - 1 THEN 0 ELSE (rx_cursor % NUM_RX) + 1
      BY <2>1, <1>1, Successor, RingAssumption, Zenon DEF idx
    <3>2. idx' = IF idx = NUM_RX - 1 THEN 0 ELSE idx + 1 BY <3>1 DEF idx
    <3> HIDE DEF idx
    <3> QED BY <3>2, <1>1, RingAssumption
  <2> HIDE DEF idx
  <2>4. ASSUME NEW i \in 0..(NUM_RX - 1)
        PROVE  (i + NUM_RX - idx') % NUM_RX = IF i = idx THEN NUM_RX - 1 ELSE Offset(i) - 1
    <3> DEFINE x == i + NUM_RX - idx'
    <3>1. x \in 0..(2 * NUM_RX - 1) BY <2>3, RingAssumption
    <3>2. (x % NUM_RX) = IF x < NUM_RX THEN x ELSE x - NUM_RX
      <4> HIDE DEF x
      <4> QED BY <3>1, Wrap, RingAssumption, Zenon
    <3>3. Offset(i) = IF i < idx THEN i + NUM_RX - idx ELSE i - idx BY <1>2
    <3> HIDE DEF Offset
    <3> QED BY <3>2, <3>3, <2>3, <1>1, RingAssumption
  <2>5. RDH # idx /\ Fill' = Fill - 1
    <3>1. RDH # idx BY <2>2, <1>1, <1>2, RingAssumption
    <3>2. Fill' = (RDH + NUM_RX - idx') % NUM_RX BY <1>1 DEF Fill, Offset
    <3>3. Fill' = Offset(RDH) - 1 BY <3>1, <3>2, <2>4, <1>1
    <3> QED BY <3>1, <3>3 DEF Fill
  <2>6. RingInv'
    <3>1. rx_ring' \in [0..(NUM_RX - 1) -> Frame \cup {NoFrame}] BY <2>1, <1>1
    <3>2. ASSUME NEW i \in 0..(NUM_RX - 1)
          PROVE  rx_ring'[i] # NoFrame <=> ((i + NUM_RX - idx') % NUM_RX) < Fill - 1
      <4>1. CASE i = idx
        <5>1. rx_ring'[i] = NoFrame BY <4>1, <2>1, <1>1
        <5>2. ((i + NUM_RX - idx') % NUM_RX) = NUM_RX - 1 BY <4>1, <2>4
        <5> QED BY <5>1, <5>2, <1>2, RingAssumption
      <4>2. CASE i # idx
        <5>1. rx_ring'[i] = rx_ring[i] BY <4>2, <2>1, <1>1
        <5>2. rx_ring[i] # NoFrame <=> Offset(i) < Fill BY DEF RingInv, Fill
        <5>3. ((i + NUM_RX - idx') % NUM_RX) = Offset(i) - 1 BY <4>2, <2>4
        <5>4. Offset(i) \in Int
          <6>1. Offset(i) = IF i < idx THEN i + NUM_RX - idx ELSE i - idx BY <1>2
          <6> HIDE DEF Offset
          <6> QED BY <6>1, <1>1, RingAssumption
        <5> HIDE DEF Offset
        <5> QED BY <5>1, <5>2, <5>3, <5>4, <1>2
      <4> QED BY <4>1, <4>2
    <3>3. \A i \in 0..(NUM_RX - 1) : Offset(i)' = (i + NUM_RX - idx') % NUM_RX BY DEF Offset
    <3>4. \A i \in 0..(NUM_RX - 1) : rx_ring'[i] # NoFrame <=> Offset(i)' < Fill'
      BY <3>2, <3>3, <2>5
    <3>5. RDT' = (idx' + NUM_RX - 1) % NUM_RX
      <4> DEFINE x == idx' + NUM_RX - 1
      <4>1. x \in 0..(2 * NUM_RX - 1) BY <2>3, RingAssumption
      <4>2. (x % NUM_RX) = IF x < NUM_RX THEN x ELSE x - NUM_RX
        <5> HIDE DEF x
        <5> QED BY <4>1, Wrap, RingAssumption, Zenon
      <4> QED BY <4>2, <2>1, <2>3, <1>1, RingAssumption
    <3>6. rx_cursor' \in Nat BY <2>1, <1>1
    <3> QED BY <3>1, <3>4, <3>5, <3>6, <2>1, <1>1 DEF RingInv, Fill
  <2>7. Waiting' = Tail(Waiting) /\ Waiting # <<>> /\ Head(Waiting) = rx_ring[idx]
    <3>1. Waiting' = [i \in 1..(Fill - 1) |-> rx_ring'[(idx' + i - 1) % NUM_RX]]
      BY <2>5, <1>1 DEF Waiting, Fill, Offset
    <3>2. Waiting = [i \in 1..Fill |-> rx_ring[(idx + i - 1) % NUM_RX]] /\ Len(Waiting) = Fill
          /\ Waiting \in Seq(Frame)
      BY WaitingIs
    <3>3. ASSUME NEW i \in 1..(Fill - 1)
          PROVE  rx_ring'[(idx' + i - 1) % NUM_RX] = rx_ring[(idx + (i + 1) - 1) % NUM_RX]
      <4> DEFINE slot == (idx + (i + 1) - 1) % NUM_RX
                 x == idx' + i - 1
      <4>1. i + 1 \in 1..NUM_RX BY <1>2, RingAssumption
      <4>2. /\ slot = IF idx + (i + 1) - 1 < NUM_RX THEN idx + (i + 1) - 1 ELSE idx + (i + 1) - 1 - NUM_RX
            /\ slot \in 0..(NUM_RX - 1)
        BY <4>1, SlotIs
      <4>3. x \in 0..(2 * NUM_RX - 1) BY <4>1, <2>3, RingAssumption
      <4>4. (x % NUM_RX) = IF x < NUM_RX THEN x ELSE x - NUM_RX
        <5> HIDE DEF x
        <5> QED BY <4>3, Wrap, RingAssumption, Zenon
      <4> HIDE DEF slot
      <4>5. (x % NUM_RX) = slot /\ slot # idx BY <4>1, <4>2, <4>4, <2>3, <1>1, <1>2, RingAssumption
      <4>6. rx_ring'[slot] = rx_ring[slot] BY <4>2, <4>5, <2>1, <1>1
      <4> QED BY <4>5, <4>6 DEF slot
    <3> HIDE DEF Waiting
    <3>4. Waiting # <<>>
      <4>1. Len(Waiting) # 0 BY <3>2, <2>2, <1>2
      <4> QED BY <4>1
    <3>5. Tail(Waiting) = [i \in 1..(Fill - 1) |-> Waiting[i + 1]]
      <4>1. Waiting \in Seq(Frame) /\ Len(Waiting) = Fill BY <3>2, Zenon
      <4>2. Tail(Waiting) = [i \in 1..(Len(Waiting) - 1) |-> Waiting[i + 1]] BY <4>1, <3>4, TailOf
      <4> QED BY <4>1, <4>2
    <3>6. \A i \in 1..(Fill - 1) : Waiting[i + 1] = rx_ring[(idx + (i + 1) - 1) % NUM_RX]
      <4>1. \A i \in 1..(Fill - 1) : i + 1 \in 1..Fill BY <1>2
      <4> QED BY <4>1, <3>2
    <3>7. Head(Waiting) = rx_ring[idx]
      <4>1. Head(Waiting) = Waiting[1] BY <3>2, <3>4
      <4>2. 1 \in 1..Fill BY <2>2, <1>2
      <4>3. Waiting[1] = rx_ring[(idx + 1 - 1) % NUM_RX] BY <4>2, <3>2
      <4>4. ((idx + 1 - 1) % NUM_RX) = idx
        <5>1. 1 \in 1..NUM_RX BY RingAssumption
        <5>2. ((idx + 1 - 1) % NUM_RX) = IF idx + 1 - 1 < NUM_RX THEN idx + 1 - 1 ELSE idx + 1 - 1 - NUM_RX
          BY <5>1, SlotIs
        <5> QED BY <5>2, <1>1, RingAssumption
      <4> QED BY <4>1, <4>3, <4>4
    <3> QED BY <3>1, <3>3, <3>4, <3>5, <3>6, <3>7
  <2> QED BY <2>1, <2>6, <2>7 DEF Link!Get
<1>5. CASE Polled = NoFrame
  <2>1. event' = <<"none">> /\ UNCHANGED <<rx_ring, RDT, rx_cursor>>
    BY <1>5 DEF poll_receive
  <2>2. RingInv' /\ Waiting' = Waiting
    BY <2>1, <1>1 DEF RingInv, Waiting, Offset, idx
  <2>3. Fill = 0
    <3>1. CASE up BY <3>1, <1>2, <1>3, <1>5 DEF Polled
    <3>2. CASE ~up
      <4>1. RDH = idx BY <3>2 DEF RingInv
      <4> HIDE DEF idx
      <4> QED BY <4>1, <1>1, <1>2, RingAssumption
    <3> QED BY <3>1, <3>2
  <2>4. Waiting = <<>>
    <3>1. Waiting \in Seq(Frame) /\ Len(Waiting) = 0 BY <2>3, WaitingIs
    <3> HIDE DEF Waiting
    <3> QED BY <3>1
  <2> QED BY <2>1, <2>2, <2>4 DEF Link!None
<1> QED BY <1>4, <1>5

\* The other steps do not touch the receive side.
LEMMA SilentStep ==
  ASSUME RingInv, UNCHANGED <<up, rx>>
  PROVE  RingInv' /\ UNCHANGED <<Waiting, event>>
BY DEF RingInv, Waiting, Offset, idx, rx

\* Every step of the card and its driver keeps RingInv and is a step of the queue.
LEMMA RingStep ==
  ASSUME RingInv, [E1000Next]_card
  PROVE  RingInv' /\ [Link!QueueNext]_<<Waiting, event>>
<1>1. ASSUME NEW f \in Frame, store(f)
      PROVE  RingInv' /\ [Link!QueueNext]_<<Waiting, event>>
  BY <1>1, StoreStep DEF Link!QueueNext
<1>2. CASE poll_receive
  BY <1>2, PollStep DEF Link!QueueNext
<1>3. CASE transmit \/ (\E f : send_copy(f)) \/ send_tail \/ UNCHANGED card
  <2>1. UNCHANGED <<up, rx>> BY <1>3 DEF transmit, send_copy, send_tail, card
  <2> QED BY <2>1, SilentStep
<1> QED BY <1>1, <1>2, <1>3 DEF E1000Next

\* The ring of poll_receive and the card is a bounded FIFO, for every ring size:
\* frames are accepted until NUM_RX - 1 wait, and handed out once and in order.
THEOREM RingImplementsQueue == E1000Spec => ImplementsFrameQueue
<1>1. RingInv /\ [E1000Next]_card => RingInv' /\ [Link!QueueNext]_<<Waiting, event>>
  BY RingStep
<1> QED BY <1>1, InitRing, PTL DEF E1000Spec, ImplementsFrameQueue, Link!QueueSpec
-----------------------------------------------------------------------------

\* Every step of a task, the wire or the device is a step of the card or leaves
\* it alone.
LEMMA CardStep == [NetworkNext]_net => [E1000Next]_card
  <1> SUFFICES ASSUME [NetworkNext]_net PROVE [E1000Next]_card
    OBVIOUS
  <1>1. CASE UNCHANGED net
    BY <1>1 DEF net, card
  <1>2. CASE arrive
    BY <1>2 DEF arrive, E1000Next
  <1>3. CASE dma
    BY <1>3 DEF dma, E1000Next
  <1>4. ASSUME NEW t \in Tasks, send_start(t)
        PROVE  [E1000Next]_card
    BY <1>4 DEF send_start, E1000Next, card
  <1>5. ASSUME NEW t \in Tasks, send_end(t)
        PROVE  [E1000Next]_card
    BY <1>5 DEF send_end, E1000Next
  <1>6. CASE pump \/ demo_arp_poll
    <2>1. poll_receive \/ UNCHANGED card
      BY <1>6 DEF pump, demo_arp_poll, poll, card
    <2> QED BY <2>1 DEF E1000Next
  <1>7. CASE demo_feed \/ udp_demo \/ socket_demo \/ cmd_net \/ ping \/ pump_handle \/ quit
             \/ \E h \in Hosts : cmd_ping(h)
    <2>1. CASE demo_feed \/ udp_demo \/ socket_demo
      BY <2>1 DEF demo_feed, udp_demo, socket_demo, card
    <2>2. CASE cmd_net \/ quit \/ pump_handle
      BY <2>2 DEF cmd_net, quit, pump_handle, card
    <2>3. CASE ping \/ \E h \in Hosts : cmd_ping(h)
      BY <2>3 DEF ping, cmd_ping, card
    <2> QED BY <1>7, <2>1, <2>2, <2>3
  <1>8. CASE demo_arp \/ demo_arp_sleep
    BY <1>8 DEF demo_arp, demo_arp_sleep, card
  <1> QED
    BY <1>1, <1>2, <1>3, <1>4, <1>5, <1>6, <1>7, <1>8
    DEF NetworkNext, ShellStep, ArpStep, TaskStep, Tasks

\* The tasks and the wire drive the card the way E1000Spec allows.
THEOREM TasksDriveCard == NetworkSpec => E1000Spec
  <1>1. NetworkInit => E1000Init
    BY DEF NetworkInit
  <1> QED
    BY <1>1, CardStep, PTL DEF NetworkSpec, E1000Spec

\* poll_receive called by pump and by demo_arp, in any interleaving with the
\* device: between them they get every accepted frame once and in order.
THEOREM PollersShareQueue == NetworkSpec => ImplementsFrameQueue
  BY TasksDriveCard, RingImplementsQueue, PTL
-----------------------------------------------------------------------------
(* The places of the two tasks, and the NIC lock.                          *)

Places == {"start", "none", "demo", "prompt", "done", "send", "tail", "ping", "pump", "handle", "sleep", "poll"}

\* Where a task goes on after send.
Resume == {"none", "demo", "ping", "pump", "sleep"}

TaskInv ==
  /\ pc \in [Tasks -> Places] /\ back \in [Tasks -> Resume]
  /\ nic \in Tasks \cup {"free"}
  /\ \A t \in Tasks : nic = t <=> pc[t] = "tail"
  /\ n \in 0..PumpMax /\ seq \in 0..Echoes /\ tries \in 0..Tries
  /\ step \in 1..6

LEMMA InitTask == NetworkInit => TaskInv
  BY NetworkAssumption DEF NetworkInit, TaskInv, NetworkAssumption, Places, Resume, Tasks

\* A step of task t that leaves the lock alone, and neither enters nor leaves the
\* end of send.
LEMMA TaskMoves ==
  ASSUME TaskInv, NEW t \in Tasks, NEW place \in Places \ {"tail"}, Goto(t, place), pc[t] # "tail", nic' = nic
  PROVE  /\ pc' \in [Tasks -> Places] /\ nic' \in Tasks \cup {"free"}
         /\ \A u \in Tasks : nic' = u <=> pc'[u] = "tail"
         /\ pc'[t] = place /\ \A u \in Tasks \ {t} : pc'[u] = pc[u]
  BY DEF TaskInv, Goto

LEMMA SendMoves ==
  ASSUME TaskInv, NEW t \in Tasks, NEW f, NEW place \in Resume, Send(t, f, place)
  PROVE  Goto(t, "send") /\ back' \in [Tasks -> Resume]
  BY DEF TaskInv, Send

LEMMA HandleMoves ==
  ASSUME TaskInv, NEW f, NEW table, NEW place \in Resume, handle(f, table, place)
  PROVE  /\ cache' = learn(f) /\ back' \in [Tasks -> Resume]
         /\ Goto("shell", "send") \/ Goto("shell", place)
  <1>1. "shell" \in Tasks
    BY DEF Tasks
  <1>2. CASE Answers(f) = {}
    BY <1>2 DEF handle, TaskInv
  <1>3. CASE Answers(f) # {}
    <2>1. Send("shell", CHOOSE a \in Answers(f) : TRUE, place) /\ cache' = learn(f)
      BY <1>3 DEF handle
    <2> QED BY <1>1, <2>1, SendMoves
  <1> QED
    BY <1>2, <1>3

\* Every other frame of net::demo goes through ethernet::handle.
LEMMA CraftedFrames ==
  ASSUME NEW s \in 1..6
  PROVE  /\ Crafted[s].type # "udp" => s \in {1, 2, 3, 5}
         /\ Crafted[s].ip = GATEWAY
  <1>1. s = 1 \/ s = 2 \/ s = 3 \/ s = 4 \/ s = 5 \/ s = 6
    OBVIOUS
  <1> QED
    BY <1>1 DEF Crafted, F

LEMMA DemoTask ==
  ASSUME TaskInv, demo_feed \/ udp_demo \/ socket_demo \/ cmd_net
  PROVE  TaskInv'
  <1>1. "shell" \in Tasks /\ {"send", "demo", "prompt"} \subseteq Places \ {"tail"} /\ "demo" \in Resume
    BY DEF Tasks, Places, Resume
  <1>2. CASE demo_feed
    <2>1. /\ pc["shell"] = "demo" /\ handle(Crafted[step], socks, "demo") /\ step' = step + 1 /\ nic' = nic
          /\ step \in {1, 2, 3, 5} /\ UNCHANGED <<n, seq, tries>>
      BY <1>2, CraftedFrames DEF demo_feed, TaskInv
    <2>2. back' \in [Tasks -> Resume] /\ (Goto("shell", "send") \/ Goto("shell", "demo"))
      BY <1>1, <2>1, HandleMoves
    <2>3. /\ pc' \in [Tasks -> Places] /\ nic' \in Tasks \cup {"free"}
          /\ \A u \in Tasks : nic' = u <=> pc'[u] = "tail"
      BY <1>1, <2>1, <2>2, TaskMoves
    <2> QED BY <2>1, <2>2, <2>3 DEF TaskInv
  <1>3. CASE udp_demo
    BY <1>3 DEF udp_demo, TaskInv, tasks
  <1>4. CASE socket_demo \/ cmd_net
    <2>1. /\ pc["shell"] \in {"demo", "prompt"} /\ (Goto("shell", "prompt") \/ Goto("shell", "demo"))
          /\ step' \in {1, step} /\ UNCHANGED <<nic, back, n, seq, tries>>
      BY <1>4 DEF socket_demo, cmd_net, local
    <2>2. /\ pc' \in [Tasks -> Places] /\ nic' \in Tasks \cup {"free"}
          /\ \A u \in Tasks : nic' = u <=> pc'[u] = "tail"
      BY <1>1, <2>1, TaskMoves
    <2> QED BY <2>1, <2>2 DEF TaskInv
  <1> QED
    BY <1>2, <1>3, <1>4

LEMMA PingTask ==
  ASSUME TaskInv, ping \/ pump \/ pump_handle \/ quit \/ \E h \in Hosts : cmd_ping(h)
  PROVE  TaskInv'
  <1>1. /\ "shell" \in Tasks /\ {"ping", "pump"} \subseteq Resume
        /\ {"send", "ping", "prompt", "pump", "handle", "done"} \subseteq Places \ {"tail"}
    BY DEF Tasks, Places, Resume
  <1>2. Echoes \in Nat /\ PumpMax \in Nat
    BY NetworkAssumption DEF NetworkAssumption
  <1>3. /\ pc["shell"] # "tail" /\ UNCHANGED <<nic, step, tries>>
        /\ back' \in [Tasks -> Resume]
        /\ \E place \in {"send", "ping", "prompt", "pump", "handle", "done"} : Goto("shell", place)
        /\ n' \in 0..PumpMax /\ seq' \in 0..Echoes
    <2>1. CASE ping
      <3>1. CASE seq < Echoes
        <4>1. /\ Send("shell", F("echo", dst, next_hop_mac(dst), seq'), "pump")
              /\ seq' = seq + 1 /\ n' = 0 /\ UNCHANGED <<nic, step, tries>> /\ pc["shell"] = "ping"
          BY <2>1, <3>1 DEF ping
        <4>2. back' \in [Tasks -> Resume] /\ Goto("shell", "send")
          BY <1>1, <4>1, SendMoves
        <4> QED BY <1>2, <3>1, <4>1, <4>2 DEF TaskInv
      <3>2. CASE ~(seq < Echoes)
        BY <1>2, <2>1, <3>2 DEF ping, TaskInv
      <3> QED BY <3>1, <3>2
    <2>2. CASE pump
      BY <1>2, <2>2 DEF pump, TaskInv
    <2>3. CASE pump_handle
      <3>1. /\ pc["shell"] = "handle" /\ handle(frame, udp_handle(frame), "pump")
            /\ UNCHANGED <<nic, step, tries, n, seq>>
        BY <2>3 DEF pump_handle
      <3>2. back' \in [Tasks -> Resume] /\ (Goto("shell", "send") \/ Goto("shell", "pump"))
        BY <1>1, <3>1, HandleMoves
      <3> QED BY <3>1, <3>2 DEF TaskInv
    <2>4. CASE quit
      BY <2>4 DEF quit, TaskInv, local
    <2>5. ASSUME NEW h \in Hosts, cmd_ping(h)
          PROVE  <1>3!:
      <3>1. /\ pc["shell"] = "prompt" /\ UNCHANGED <<nic, step, tries, n>> /\ seq' = 0
            /\ \/ Goto("shell", "ping") /\ UNCHANGED back
               \/ Send("shell", request(GATEWAY), "ping")
        BY <2>5 DEF cmd_ping
      <3>2. back' \in [Tasks -> Resume] /\ (Goto("shell", "send") \/ Goto("shell", "ping"))
        BY <1>1, <3>1, SendMoves DEF TaskInv
      <3> QED BY <1>2, <3>1, <3>2 DEF TaskInv
    <2> QED BY <2>1, <2>2, <2>3, <2>4, <2>5
  <1>4. /\ pc' \in [Tasks -> Places] /\ nic' \in Tasks \cup {"free"}
        /\ \A u \in Tasks : nic' = u <=> pc'[u] = "tail"
    BY <1>1, <1>3, TaskMoves
  <1> QED
    BY <1>3, <1>4 DEF TaskInv

LEMMA ArpTask ==
  ASSUME TaskInv, demo_arp \/ demo_arp_sleep \/ demo_arp_poll
  PROVE  TaskInv'
  <1>1. /\ "arp" \in Tasks /\ "sleep" \in Resume /\ Tries \in Nat
        /\ {"send", "done", "poll", "sleep"} \subseteq Places \ {"tail"}
    BY NetworkAssumption DEF Tasks, Places, Resume, NetworkAssumption
  <1>2. /\ pc["arp"] # "tail" /\ UNCHANGED <<nic, step, n, seq>>
        /\ back' \in [Tasks -> Resume] /\ tries' \in 0..Tries
        /\ \E place \in {"send", "done", "poll", "sleep"} : Goto("arp", place)
    <2>1. CASE demo_arp
      <3>1. /\ pc["arp"] = "start" /\ UNCHANGED <<nic, step, n, seq, tries>>
            /\ \/ Send("arp", request(GATEWAY), "sleep")
               \/ Goto("arp", "done") /\ UNCHANGED back
        BY <2>1 DEF demo_arp, local
      <3>2. back' \in [Tasks -> Resume] /\ (Goto("arp", "send") \/ Goto("arp", "done"))
        BY <1>1, <3>1, SendMoves DEF TaskInv
      <3> QED BY <3>1, <3>2 DEF TaskInv
    <2>2. CASE demo_arp_sleep
      BY <1>1, <2>2 DEF demo_arp_sleep, TaskInv
    <2>3. CASE demo_arp_poll
      BY <2>3 DEF demo_arp_poll, TaskInv, local
    <2> QED BY <2>1, <2>2, <2>3
  <1>3. /\ pc' \in [Tasks -> Places] /\ nic' \in Tasks \cup {"free"}
        /\ \A u \in Tasks : nic' = u <=> pc'[u] = "tail"
    BY <1>1, <1>2, TaskMoves
  <1> QED
    BY <1>2, <1>3 DEF TaskInv

\* send takes the lock that is free, and gives back the one it holds.
LEMMA SendTask ==
  ASSUME TaskInv, NEW t \in Tasks, TaskStep(t)
  PROVE  TaskInv'
  <1>1. "tail" \in Places /\ Resume \subseteq Places \ {"tail"} /\ t # "free" /\ back[t] \in Resume
    BY DEF Places, Resume, Tasks, TaskInv
  <1>4. /\ pc \in [Tasks -> Places] /\ back \in [Tasks -> Resume] /\ "free" \notin Tasks
        /\ \A u \in Tasks : nic = u <=> pc[u] = "tail"
    BY DEF TaskInv, Tasks
  <1>2. CASE send_start(t)
    <2>1. pc[t] = "send" /\ nic = "free" /\ UNCHANGED <<back, n, seq, tries, step>>
      BY <1>2 DEF send_start, local
    <2>2. CASE up
      <3>1. pc' = [pc EXCEPT ![t] = "tail"] /\ nic' = t
        BY <1>2, <2>2 DEF send_start, Goto
      <3>2. pc' \in [Tasks -> Places] /\ \A u \in Tasks : nic' = u <=> pc'[u] = "tail"
        BY <1>1, <1>4, <2>1, <3>1
      <3> QED BY <2>1, <3>1, <3>2 DEF TaskInv
    <2>3. CASE ~up
      <3>1. Goto(t, back[t]) /\ nic' = nic
        BY <1>2, <2>3 DEF send_start
      <3>2. /\ pc' \in [Tasks -> Places] /\ nic' \in Tasks \cup {"free"}
            /\ \A u \in Tasks : nic' = u <=> pc'[u] = "tail"
        BY <1>1, <2>1, <3>1, TaskMoves
      <3> QED BY <2>1, <3>2 DEF TaskInv
    <2> QED BY <2>2, <2>3
  <1>3. CASE send_end(t)
    <2>1. /\ pc[t] = "tail" /\ pc' = [pc EXCEPT ![t] = back[t]] /\ nic' = "free"
          /\ UNCHANGED <<back, n, seq, tries, step>>
      BY <1>3 DEF send_end, Goto, local
    <2>2. pc' \in [Tasks -> Places] /\ \A u \in Tasks : nic' = u <=> pc'[u] = "tail"
      BY <1>1, <1>4, <2>1
    <2> QED BY <2>1, <2>2 DEF TaskInv
  <1> QED
    BY <1>2, <1>3 DEF TaskStep

LEMMA TaskNext == TaskInv /\ [NetworkNext]_net => TaskInv'
  <1> SUFFICES ASSUME TaskInv, [NetworkNext]_net PROVE TaskInv'
    OBVIOUS
  <1>1. CASE arrive \/ dma \/ UNCHANGED net
    BY <1>1 DEF arrive, dma, net, tasks, local, TaskInv
  <1>2. CASE ShellStep
    BY <1>2, DemoTask, PingTask, SendTask DEF ShellStep, Tasks
  <1>3. CASE ArpStep
    BY <1>3, ArpTask, SendTask DEF ArpStep, Tasks
  <1> QED
    BY <1>1, <1>2, <1>3 DEF NetworkNext
-----------------------------------------------------------------------------
(* The transmit ring: the frames due are the ones between the device's     *)
(* index and the doorbell, and the one of the task inside send.  The       *)
(* newest of them is in tx_buf.                                            *)

Rung   == IF nic = "free" THEN Len(due) ELSE Len(due) - 1
Belled == IF nic = "free" THEN tx_cursor ELSE tx_cursor - 1

SendInv ==
  /\ \E S : due \in Seq(S)
  /\ tx_cursor \in Nat /\ Belled \in Nat /\ Rung \in Nat
  /\ \E h \in Nat : h + Rung = Belled /\ TDH = (h % NUM_TX)
  /\ TDT = (Belled % NUM_TX)
  /\ due # <<>> => tx_buf = due[Len(due)]

LEMMA InitSend == NetworkInit => SendInv
  <1> SUFFICES ASSUME NetworkInit PROVE SendInv
    OBVIOUS
  <1>1. due = <<>> /\ tx_cursor = 0 /\ TDH = 0 /\ TDT = 0 /\ nic = "free"
    BY DEF NetworkInit, E1000Init
  <1>2. due \in Seq({}) /\ Len(due) = 0
    BY <1>1
  <1>3. (0 % NUM_TX) = 0
    BY RingAssumption, Wrap DEF RingAssumption
  <1>4. Rung = 0 /\ Belled = 0
    BY <1>1, <1>2 DEF Rung, Belled
  <1>5. 0 + Rung = Belled /\ TDH = (0 % NUM_TX)
    BY <1>1, <1>3, <1>4
  <1> QED
    BY <1>1, <1>2, <1>3, <1>4, <1>5 DEF SendInv

\* A frame is copied while the lock is free.
LEMMA CopyStep ==
  ASSUME SendInv, NEW f, nic = "free", send_copy(f), nic' # "free"
  PROVE  SendInv'
  <1>1. PICK S : due \in Seq(S)
    BY DEF SendInv
  <1> DEFINE T == S \cup {f}
  <1>2. due \in Seq(T) /\ f \in T
    BY <1>1
  <1> HIDE DEF T
  <1>3. /\ due' = Append(due, f) /\ tx_buf' = f /\ tx_cursor' = tx_cursor + 1
        /\ UNCHANGED <<TDH, TDT>>
    BY DEF send_copy
  <1>4. due' \in Seq(T) /\ Len(due') = Len(due) + 1 /\ due'[Len(due')] = f /\ Len(due) \in Nat
    BY <1>2, <1>3
  <1>5. tx_cursor \in Nat
    BY DEF SendInv
  <1>6. Rung' = Rung /\ Belled' = Belled /\ tx_cursor' \in Nat
    BY <1>3, <1>4, <1>5 DEF Rung, Belled
  <1> QED
    BY <1>3, <1>4, <1>6 DEF SendInv

\* The doorbell, while its frame is the newest.
LEMMA TailStep ==
  ASSUME SendInv, nic # "free", send_tail, nic' = "free"
  PROVE  SendInv'
  <1>1. UNCHANGED <<tx_buf, tx_cursor, TDH>> /\ TDT' = (tx_cursor % NUM_TX)
    BY DEF send_tail
  <1>2. Len(due) \in Nat /\ tx_cursor \in Nat
    BY DEF SendInv
  <1>3. /\ Rung = Len(due) - 1 /\ Belled = tx_cursor - 1
        /\ Rung' = Len(due') /\ Belled' = tx_cursor
    BY <1>1 DEF Rung, Belled
  <1>4. CASE TDT' = TDH
    <2>1. due' = <<>>
      BY <1>4 DEF send_tail
    <2>2. due' \in Seq({}) /\ Rung' = 0
      BY <1>3, <2>1
    <2>3. tx_cursor + Rung' = Belled' /\ TDH' = (tx_cursor % NUM_TX)
      BY <1>1, <1>2, <1>3, <1>4, <2>2
    <2> QED BY <1>1, <1>2, <1>3, <2>1, <2>2, <2>3 DEF SendInv
  <1>5. CASE TDT' # TDH
    <2>1. due' = due
      BY <1>5 DEF send_tail
    <2>2. PICK h \in Nat : h + Rung = Belled /\ TDH = (h % NUM_TX)
      BY DEF SendInv
    <2>3. h + Rung' = Belled' /\ TDH' = (h % NUM_TX)
      BY <1>1, <1>2, <1>3, <2>1, <2>2
    <2>4. (\E S : due' \in Seq(S)) /\ (due' # <<>> => tx_buf' = due'[Len(due')])
      BY <1>1, <2>1 DEF SendInv
    <2> QED BY <1>1, <1>2, <1>3, <2>1, <2>3, <2>4 DEF SendInv
  <1> QED
    BY <1>4, <1>5

\* The frames that stay due when the oldest leaves.
LEMMA DropFirst ==
  ASSUME NEW S, NEW q \in Seq(S), Len(q) >= 1
  PROVE  /\ SubSeq(q, 2, Len(q)) \in Seq(S) /\ Len(SubSeq(q, 2, Len(q))) = Len(q) - 1
         /\ \A i \in 1..(Len(q) - 1) : SubSeq(q, 2, Len(q))[i] = q[i + 1]
  <1>1. Len(q) \in Nat /\ \A i \in 2..Len(q) : q[i] \in S
    OBVIOUS
  <1>2. SubSeq(q, 2, Len(q)) = [i \in 1..(1 + Len(q) - 2) |-> q[i + 2 - 1]]
    BY <1>1
  <1>3. \A i : i + 2 - 1 = i + (2 - 1)
    BY Zenon
  <1>4. 2 - 1 = 1 /\ 1 + Len(q) - 2 = Len(q) - 1
    BY <1>1
  <1>5. SubSeq(q, 2, Len(q)) = [i \in 1..(Len(q) - 1) |-> q[i + 1]]
    BY <1>2, <1>3, <1>4
  <1>6. SubSeq(q, 2, Len(q)) \in Seq(S)
    BY <1>1
  <1>7. Len(SubSeq(q, 2, Len(q))) = Len(q) - 1
    <2> DEFINE t == SubSeq(q, 2, Len(q))  k == Len(q) - 1
    <2>1. t \in Seq(S) /\ k \in Nat /\ t = [i \in 1..k |-> q[i + 1]]
      BY <1>1, <1>5, <1>6
    <2> HIDE DEF t, k
    <2>2. DOMAIN t = 1..k
      BY <2>1, Zenon
    <2>3. Len(t) = k
      BY <2>1, <2>2
    <2> QED BY <2>3 DEF t, k
  <1>8. \A i \in 1..(Len(q) - 1) : SubSeq(q, 2, Len(q))[i] = q[i + 1]
    BY <1>5, Zenon
  <1> QED
    BY <1>6, <1>7, <1>8

\* The device has something to send only while it is behind the doorbell.
LEMMA TransmitStep ==
  ASSUME SendInv, transmit, nic' = nic
  PROVE  SendInv' /\ due # <<>> /\ Len(due) \in DOMAIN due /\ tx_buf = due[Len(due)]
  <1>1. /\ TDH # TDT /\ due' = SubSeq(due, 2, Len(due)) /\ TDH' = (TDH + 1) % NUM_TX
        /\ UNCHANGED <<tx_buf, tx_cursor, TDT>>
    BY DEF transmit
  <1>2. PICK S : due \in Seq(S)
    BY DEF SendInv
  <1>3. PICK h \in Nat : h + Rung = Belled /\ TDH = (h % NUM_TX)
    BY DEF SendInv
  <1>4. Rung \in Nat /\ Rung # 0 /\ Belled \in Nat /\ Belled' = Belled
    BY <1>1, <1>3 DEF SendInv, Belled
  <1>5. Len(due) \in Nat /\ Rung <= Len(due)
    BY <1>2 DEF Rung
  <1>6. Len(due) >= 1 /\ due # <<>> /\ Len(due) \in DOMAIN due
    BY <1>2, <1>4, <1>5
  <1>7. /\ due' \in Seq(S) /\ Len(due') = Len(due) - 1
        /\ \A i \in 1..(Len(due) - 1) : due'[i] = due[i + 1]
    BY <1>1, <1>2, <1>6, DropFirst, Zenon
  <1>8. Rung' = Rung - 1
    BY <1>5, <1>7 DEF Rung
  <1>9. TDH' = ((h + 1) % NUM_TX)
    <2>1. NUM_TX \in Nat \ {0, 1}
      BY RingAssumption DEF RingAssumption
    <2>2. /\ (h % NUM_TX) \in 0..(NUM_TX - 1)
          /\ ((h + 1) % NUM_TX) = IF (h % NUM_TX) = NUM_TX - 1 THEN 0 ELSE (h % NUM_TX) + 1
      BY <2>1, Successor, Zenon
    <2> DEFINE x == TDH + 1
    <2>3. x \in 0..(2 * NUM_TX - 1)
      BY <1>3, <2>1, <2>2
    <2>4. (x % NUM_TX) = IF x < NUM_TX THEN x ELSE x - NUM_TX
      <3> HIDE DEF x
      <3> QED BY <2>1, <2>3, Wrap, Zenon
    <2> QED BY <1>1, <1>3, <2>1, <2>2, <2>4
  <1>10. h + 1 \in Nat /\ (h + 1) + Rung' = Belled' /\ Rung' \in Nat
    BY <1>3, <1>4, <1>8
  <1>11. tx_buf = due[Len(due)]
    BY <1>6 DEF SendInv
  <1>12. due' # <<>> => tx_buf' = due'[Len(due')]
    <2>1. SUFFICES ASSUME Len(due') # 0 PROVE tx_buf' = due'[Len(due')]
      BY <1>7
    <2>2. Len(due) - 1 \in 1..(Len(due) - 1) /\ (Len(due) - 1) + 1 = Len(due)
      BY <1>5, <1>7, <2>1
    <2> QED BY <1>1, <1>7, <1>11, <2>2
  <1>13. SendInv'
    BY <1>1, <1>4, <1>7, <1>9, <1>10, <1>12 DEF SendInv
  <1> QED
    BY <1>6, <1>11, <1>13

\* Only the device and send touch the transmit ring.
LEMMA TxSteps == [NetworkNext]_net => dma \/ (\E t \in Tasks : TaskStep(t)) \/ UNCHANGED <<tx, nic>>
  <1> SUFFICES ASSUME [NetworkNext]_net, ~dma, ~\E t \in Tasks : TaskStep(t) PROVE UNCHANGED <<tx, nic>>
    OBVIOUS
  <1>1. CASE arrive
    BY <1>1 DEF arrive, store, tasks
  <1>2. CASE UNCHANGED net
    BY <1>2 DEF net, tasks
  <1>3. CASE pump \/ demo_arp_poll
    BY <1>3 DEF pump, demo_arp_poll, poll, poll_receive
  <1>4. CASE demo_feed \/ udp_demo \/ socket_demo
    <2>1. CASE demo_feed
      BY <2>1 DEF demo_feed, tasks
    <2>2. CASE udp_demo \/ socket_demo
      BY <2>2 DEF udp_demo, socket_demo, tasks
    <2> QED BY <1>4, <2>1, <2>2
  <1>5. CASE cmd_net \/ ping \/ pump_handle \/ quit
    <2>1. CASE cmd_net \/ ping
      BY <2>1 DEF cmd_net, ping, tasks
    <2>2. CASE pump_handle \/ quit
      BY <2>2 DEF pump_handle, quit, tasks
    <2> QED BY <1>5, <2>1, <2>2
  <1>6. CASE demo_arp \/ demo_arp_sleep
    BY <1>6 DEF demo_arp, demo_arp_sleep, tasks
  <1>7. ASSUME NEW h \in Hosts, cmd_ping(h) PROVE UNCHANGED <<tx, nic>>
    BY <1>7 DEF cmd_ping, tasks
  <1> QED
    BY <1>1, <1>2, <1>3, <1>4, <1>5, <1>6, <1>7 DEF NetworkNext, ShellStep, ArpStep, Tasks

LEMMA SendNext == TaskInv /\ SendInv /\ [NetworkNext]_net => SendInv'
  <1> SUFFICES ASSUME TaskInv, SendInv, [NetworkNext]_net PROVE SendInv'
    OBVIOUS
  <1>1. ASSUME UNCHANGED <<tx, nic>> PROVE SendInv'
    BY <1>1 DEF SendInv, Rung, Belled, tx
  <1>2. ASSUME NEW t \in Tasks, TaskStep(t) PROVE SendInv'
    <2>1. t # "free" /\ (pc[t] = "tail" => nic # "free")
      BY DEF TaskInv, Tasks
    <2>2. CASE send_start(t)
      <3>1. CASE up
        BY <2>1, <2>2, <3>1, CopyStep DEF send_start
      <3>2. CASE ~up
        BY <1>1, <2>2, <3>2 DEF send_start
      <3> QED BY <3>1, <3>2
    <2>3. CASE send_end(t)
      BY <2>1, <2>3, TailStep DEF send_end
    <2> QED BY <1>2, <2>2, <2>3 DEF TaskStep
  <1>3. CASE dma
    BY <1>3, TransmitStep DEF dma, tasks
  <1> QED
    BY <1>1, <1>2, <1>3, TxSteps

\* Only the device puts frames on the wire.
LEMMA WiredBy == TaskInv /\ SendInv /\ [NetworkNext]_net =>
                   (TDH' # TDH => \E j \in DOMAIN due : tx_buf = due[j])
  <1> SUFFICES ASSUME TaskInv, SendInv, [NetworkNext]_net, TDH' # TDH
               PROVE  \E j \in DOMAIN due : tx_buf = due[j]
    OBVIOUS
  <1>1. CASE dma
    BY <1>1, TransmitStep DEF dma, tasks
  <1>2. CASE ~dma
    <2>1. ASSUME NEW t \in Tasks, TaskStep(t) PROVE TDH' = TDH
      BY <2>1 DEF TaskStep, send_start, send_end, send_copy, send_tail, tx
    <2> QED BY <1>2, <2>1, TxSteps DEF tx
  <1> QED
    BY <1>1, <1>2
-----------------------------------------------------------------------------
(* The ARP cache.                                                          *)

Mine == {k \in DOMAIN polled : polled[k].by = "shell"}
Busy == pc["shell"] = "handle"

\* The ARP frames of host h among the polls H of p, and what the cache c has of it.
Arps(p, H, h) == {k \in H : p[k].frame.ip = h /\ p[k].frame.type \in {"arpreq", "arprep"}}

Follows(c, p, H) ==
  \A h \in Hosts \ {GATEWAY} :
    IF Arps(p, H, h) = {} THEN h \notin DOMAIN c
    ELSE /\ h \in DOMAIN c
         /\ \E k \in Arps(p, H, h) : (\A j \in Arps(p, H, h) : j <= k) /\ c[h] = p[k].frame.mac

\* While pump handles a frame, that frame is the shell's last poll.
LastPoll(p, f) == \E k \in DOMAIN p : /\ p[k].by = "shell" /\ p[k].frame = f
                                      /\ \A j \in DOMAIN p : p[j].by = "shell" => j <= k

PollInv ==
  /\ \E S : polled \in Seq(S)
  /\ Busy => LastPoll(polled, frame)
  /\ Follows(cache, polled, Handled)

LEMMA FollowsIs == CacheFollowsArp <=> Follows(cache, polled, Handled)
  BY DEF CacheFollowsArp, Follows, Arps

LEMMA PollIndices ==
  ASSUME PollInv
  PROVE  Len(polled) \in Nat /\ DOMAIN polled = 1..Len(polled)
  BY DEF PollInv

LEMMA InitPoll == NetworkInit => PollInv
  <1> SUFFICES ASSUME NetworkInit PROVE PollInv
    OBVIOUS
  <1>1. polled = <<>> /\ cache = [i \in {} |-> Us] /\ pc["shell"] = "demo"
    BY DEF NetworkInit, Tasks
  <1>2. polled \in Seq({}) /\ DOMAIN polled = {}
    BY <1>1
  <1>3. Handled = {}
    BY <1>2 DEF Handled
  <1>4. \A h : Arps(polled, Handled, h) = {} /\ h \notin DOMAIN cache
    BY <1>1, <1>3 DEF Arps
  <1> QED
    BY <1>1, <1>2, <1>4 DEF PollInv, Follows, Busy

\* Nothing is polled, and pump neither starts nor ends handling a frame.
LEMMA SamePolls ==
  ASSUME PollInv, UNCHANGED <<polled, cache>>, (Busy' <=> Busy), Busy => frame' = frame
  PROVE  PollInv'
  <1>1. Handled' = Handled
    BY DEF Handled, Busy
  <1>2. Follows(cache', polled', Handled')
    BY <1>1 DEF PollInv
  <1>3. (\E S : polled' \in Seq(S)) /\ (Busy' => LastPoll(polled', frame'))
    BY DEF PollInv
  <1> QED
    BY <1>2, <1>3 DEF PollInv

\* A frame of the crafted ones teaches the cache nothing about other hosts.
LEMMA CraftedPolls ==
  ASSUME PollInv, NEW s \in 1..6, cache' = learn(Crafted[s]), polled' = polled, ~Busy, ~Busy'
  PROVE  PollInv'
  <1>1. Handled' = Handled
    BY DEF Handled, Busy
  <1>2. Crafted[s].ip = GATEWAY
    BY CraftedFrames
  <1>3. \A h \in Hosts \ {GATEWAY} : (h \in DOMAIN cache' <=> h \in DOMAIN cache) /\ (h \in DOMAIN cache => cache'[h] = cache[h])
    <2> DEFINE f == Crafted[s]
    <2>1. f.ip = GATEWAY
      BY <1>2
    <2>2. cache' = learn(f)
      OBVIOUS
    <2> HIDE DEF f
    <2> QED BY <2>1, <2>2 DEF learn
  <1>4. Follows(cache', polled, Handled)
    BY <1>3 DEF PollInv, Follows
  <1> QED
    BY <1>1, <1>4 DEF PollInv

\* A poll adds its frame at the end; pump handles its own at once.
LEMMA NewPoll ==
  ASSUME PollInv, NEW t \in Tasks, NEW f, polled' = Append(polled, [by |-> t, frame |-> f]), cache' = cache,
         \/ t = "shell" /\ ~Busy /\ Busy' /\ frame' = f
         \/ t = "arp" /\ (Busy' <=> Busy) /\ frame' = frame
  PROVE  PollInv'
  <1> DEFINE x == [by |-> t, frame |-> f]
  <1>1. PICK S : polled \in Seq(S)
    BY DEF PollInv
  <1> DEFINE T == S \cup {x}
  <1>2. polled \in Seq(T) /\ x \in T
    BY <1>1
  <1>3. polled' = Append(polled, x) /\ x.by = t /\ x.frame = f
    OBVIOUS
  <1> HIDE DEF T, x
  <1>4. /\ polled' \in Seq(T) /\ Len(polled) \in Nat
        /\ DOMAIN polled = 1..Len(polled) /\ DOMAIN polled' = 1..(Len(polled) + 1)
        /\ \A k \in DOMAIN polled : polled'[k] = polled[k]
        /\ polled'[Len(polled) + 1] = x
    BY <1>2, <1>3
  <1> DEFINE z == Len(polled) + 1
  <1>5. Handled' = Handled /\ Handled \subseteq DOMAIN polled
    <2>1. CASE t = "shell"
      <3>1. ~Busy /\ Busy'
        BY <2>1
      <3>2. Handled = Mine /\ Mine' = Mine \cup {z} /\ \A k \in Mine : k < z
        <4>1. Handled = Mine
          BY <3>1, Zenon DEF Handled, Mine, Busy
        <4>2. \A k \in Mine : k < z
          BY <1>4 DEF Mine
        <4>3. Mine' = Mine \cup {z}
          BY <1>3, <1>4, <2>1 DEF Mine
        <4> QED BY <4>1, <4>2, <4>3
      <3>3. Handled' = {k \in Mine' : \E j \in Mine' : k < j}
        BY <3>1 DEF Handled, Mine, Busy
      <3>4. \A k \in Mine' : k \in Nat /\ k <= z
        BY <1>4 DEF Mine
      <3> HIDE DEF z
      <3> QED BY <1>4, <3>2, <3>3, <3>4 DEF Mine
    <2>2. CASE t = "arp"
      <3>1. Mine' = Mine
        BY <1>3, <1>4, <2>2, SMTT(30) DEF Mine
      <3>2. (Busy' <=> Busy)
        BY <2>2
      <3> QED BY <3>1, <3>2 DEF Handled, Mine, Busy
    <2> QED BY <2>1, <2>2 DEF Tasks
  <1>6. Follows(cache', polled', Handled')
    <2>1. \A h : Arps(polled', Handled', h) = Arps(polled, Handled, h) /\ Arps(polled, Handled, h) \subseteq DOMAIN polled
      BY <1>4, <1>5 DEF Arps
    <2> QED BY <1>4, <2>1 DEF PollInv, Follows
  <1>7. Busy' => LastPoll(polled', frame')
    <2>1. CASE t = "shell"
      <3>1. frame' = f /\ z \in DOMAIN polled' /\ polled'[z].by = "shell" /\ polled'[z].frame = f
        BY <1>3, <1>4, <2>1
      <3>2. \A j \in DOMAIN polled' : j <= z
        BY <1>4
      <3> QED BY <3>1, <3>2 DEF LastPoll
    <2>2. CASE t = "arp"
      <3>1. Busy' => LastPoll(polled, frame) /\ frame' = frame
        BY <2>2 DEF PollInv
      <3>2. polled'[z].by # "shell"
        BY <1>3, <1>4, <2>2
      <3> QED BY <1>4, <3>1, <3>2 DEF LastPoll
    <2> QED BY <2>1, <2>2 DEF Tasks
  <1> QED
    BY <1>4, <1>6, <1>7 DEF PollInv

\* pump's handler learns from the frame, which is then the last of those handled.
LEMMA HandledPoll ==
  ASSUME PollInv, Busy, ~Busy', cache' = learn(frame), polled' = polled
  PROVE  PollInv'
  <1>1. PICK z \in DOMAIN polled : /\ polled[z].by = "shell" /\ polled[z].frame = frame
                                   /\ \A j \in DOMAIN polled : polled[j].by = "shell" => j <= z
    BY DEF PollInv, LastPoll
  <1>2. DOMAIN polled \subseteq Nat
    BY PollIndices
  <1>3. Handled' = Handled \cup {z} /\ \A k \in Handled : k \in Nat /\ k < z
    <2>1. Handled' = Mine /\ Handled = {k \in Mine : \E j \in Mine : k < j}
      BY DEF Handled, Mine, Busy
    <2>2. z \in Mine /\ Mine \subseteq Nat /\ \A j \in Mine : j <= z
      BY <1>1, <1>2 DEF Mine
    <2> QED BY <2>1, <2>2
  <1>4. SUFFICES Follows(cache', polled, Handled')
    BY DEF PollInv
  <1> SUFFICES ASSUME NEW h \in Hosts \ {GATEWAY}
               PROVE  IF Arps(polled, Handled', h) = {} THEN h \notin DOMAIN cache'
                      ELSE /\ h \in DOMAIN cache'
                           /\ \E k \in Arps(polled, Handled', h) : /\ \A j \in Arps(polled, Handled', h) : j <= k
                                                                   /\ cache'[h] = polled[k].frame.mac
    BY DEF Follows
  <1> DEFINE old == Arps(polled, Handled, h)
             new == Arps(polled, Handled', h)
             news == frame.ip = h /\ frame.type \in {"arpreq", "arprep"}
  <1>5. new = old \cup (IF news THEN {z} ELSE {})
    BY <1>1, <1>3 DEF Arps
  <1>6. \A k \in old : k \in Nat /\ k <= z
    BY <1>2, <1>3 DEF Arps
  <1>7. IF old = {} THEN h \notin DOMAIN cache
        ELSE h \in DOMAIN cache /\ \E k \in old : (\A j \in old : j <= k) /\ cache[h] = polled[k].frame.mac
    BY DEF PollInv, Follows
  <1> HIDE DEF old, new
  <1>8. CASE news
    <2>1. h \in DOMAIN cache' /\ cache'[h] = frame.mac
      BY <1>8 DEF learn
    <2>2. z \in new /\ \A j \in new : j <= z
      BY <1>2, <1>5, <1>6, <1>8
    <2> QED BY <1>1, <2>1, <2>2 DEF new
  <1>9. CASE ~news
    <2>1. (h \in DOMAIN cache' <=> h \in DOMAIN cache) /\ (h \in DOMAIN cache => cache'[h] = cache[h])
      BY <1>9 DEF learn
    <2>2. new = old
      BY <1>5, <1>9
    <2> QED BY <1>7, <2>1, <2>2 DEF new
  <1> QED
    BY <1>8, <1>9

\* Who is in the middle of handling a frame is up to the shell alone.
LEMMA StillBusy ==
  ASSUME TaskInv, NEW t \in Tasks, NEW place \in Places, Goto(t, place), t = "arp" \/ place # "handle"
  PROVE  t = "shell" => ~Busy'
  BY DEF TaskInv, Goto, Busy, Tasks

LEMMA ArpSparesShell ==
  ASSUME TaskInv, NEW place, Goto("arp", place)
  PROVE  (Busy' <=> Busy)
  BY DEF TaskInv, Goto, Busy, Tasks

LEMMA PollNext == TaskInv /\ PollInv /\ [NetworkNext]_net => PollInv'
  <1> SUFFICES ASSUME TaskInv, PollInv, [NetworkNext]_net PROVE PollInv'
    OBVIOUS
  <1>0. /\ "shell" \in Tasks /\ "arp" \in Tasks
        /\ {"send", "demo", "pump", "ping", "prompt", "done", "tail", "handle"} \subseteq Places /\ Resume \subseteq Places
        /\ "handle" \notin Resume /\ {"demo", "pump", "ping", "sleep"} \subseteq Resume
    BY DEF Tasks, Places, Resume
  <1>1. CASE arrive \/ dma \/ UNCHANGED net
    <2>1. UNCHANGED <<polled, cache, pc, frame>>
      BY <1>1 DEF arrive, dma, net, upper, tasks, local
    <2> QED BY <2>1, SamePolls DEF Busy
  <1>2. CASE demo_feed
    <2>1. /\ ~Busy /\ handle(Crafted[step], socks, "demo") /\ polled' = polled /\ step \in 1..6
      BY <1>2 DEF demo_feed, Busy, TaskInv
    <2>2. cache' = learn(Crafted[step]) /\ (Goto("shell", "send") \/ Goto("shell", "demo"))
      BY <1>0, <2>1, HandleMoves
    <2>3. ~Busy'
      BY <1>0, <2>2, StillBusy
    <2> QED BY <2>1, <2>2, <2>3, CraftedPolls
  <1>3. CASE udp_demo \/ socket_demo \/ cmd_net \/ ping \/ quit \/ \E h \in Hosts : cmd_ping(h)
    <2>1. ~Busy /\ UNCHANGED <<polled, cache>>
      <3>1. CASE udp_demo \/ socket_demo
        BY <3>1 DEF udp_demo, socket_demo, upper, Busy
      <3>2. CASE cmd_net \/ quit
        BY <3>2 DEF cmd_net, quit, upper, Busy
      <3>3. CASE ping \/ \E h \in Hosts : cmd_ping(h)
        BY <3>3 DEF ping, cmd_ping, upper, Busy
      <3> QED BY <1>3, <3>1, <3>2, <3>3
    <2>2. UNCHANGED pc \/ \E place \in {"send", "demo", "ping", "prompt", "done"} : Goto("shell", place)
      <3>1. CASE udp_demo \/ socket_demo
        BY <3>1 DEF udp_demo, socket_demo, Send, tasks
      <3>2. CASE cmd_net \/ quit
        BY <3>2 DEF cmd_net, quit, Send, tasks
      <3>3. CASE ping \/ \E h \in Hosts : cmd_ping(h)
        BY <3>3 DEF ping, cmd_ping, Send, tasks
      <3> QED BY <1>3, <3>1, <3>2, <3>3
    <2>3. ~Busy'
      BY <1>0, <2>1, <2>2, StillBusy DEF Busy
    <2> QED BY <2>1, <2>3, SamePolls
  <1>4. CASE pump
    <2>1. ~Busy /\ pc["shell"] = "pump" /\ cache' = cache
      BY <1>4 DEF pump, Busy, upper
    <2>2. CASE n = PumpMax \/ Polled = NoFrame
      <3>1. Goto("shell", "ping") /\ polled' = polled
        BY <1>4, <2>2 DEF pump, poll
      <3> QED BY <1>0, <2>1, <3>1, StillBusy, SamePolls
    <2>3. CASE n # PumpMax /\ Polled # NoFrame
      <3>1. Goto("shell", "handle") /\ frame' = Polled /\ polled' = Append(polled, [by |-> "shell", frame |-> Polled])
        BY <1>4, <2>3 DEF pump, poll
      <3>2. Busy'
        BY <1>0, <3>1 DEF Goto, Busy, TaskInv
      <3> QED BY <1>0, <2>1, <3>1, <3>2, NewPoll
    <2> QED BY <2>2, <2>3
  <1>5. CASE pump_handle
    <2>1. Busy /\ handle(frame, udp_handle(frame), "pump") /\ polled' = polled
      BY <1>5 DEF pump_handle, Busy
    <2>2. cache' = learn(frame) /\ (Goto("shell", "send") \/ Goto("shell", "pump"))
      BY <1>0, <2>1, HandleMoves
    <2>3. ~Busy'
      BY <1>0, <2>2, StillBusy
    <2> QED BY <2>1, <2>2, <2>3, HandledPoll
  <1>6. CASE demo_arp \/ demo_arp_sleep
    <2>1. UNCHANGED <<polled, cache, frame>> /\ \E place : Goto("arp", place)
      BY <1>6 DEF demo_arp, demo_arp_sleep, Send, upper, local
    <2> QED BY <2>1, ArpSparesShell, SamePolls
  <1>7. CASE demo_arp_poll
    <2>1. UNCHANGED <<cache, frame>> /\ (Busy' <=> Busy)
      BY <1>7, ArpSparesShell DEF demo_arp_poll, upper, local
    <2>2. CASE Polled = NoFrame
      <3>1. polled' = polled
        BY <1>7, <2>2 DEF demo_arp_poll, poll
      <3> QED BY <2>1, <3>1, SamePolls
    <2>3. CASE Polled # NoFrame
      <3>1. polled' = Append(polled, [by |-> "arp", frame |-> Polled])
        BY <1>7, <2>3 DEF demo_arp_poll, poll
      <3> QED BY <1>0, <2>1, <3>1, NewPoll
    <2> QED BY <2>2, <2>3
  <1>8. ASSUME NEW t \in Tasks, TaskStep(t) PROVE PollInv'
    <2>1. /\ pc[t] \in {"send", "tail"} /\ UNCHANGED <<polled, cache, frame>> /\ back[t] \in Resume
          /\ Goto(t, "tail") \/ Goto(t, back[t])
      BY <1>8 DEF TaskStep, send_start, send_end, upper, local, TaskInv
    <2>2. CASE t = "arp"
      BY <2>1, <2>2, ArpSparesShell, SamePolls
    <2>3. CASE t = "shell"
      <3>1. ~Busy
        BY <2>1, <2>3 DEF Busy
      <3>2. ~Busy'
        BY <1>0, <2>1, <2>3, StillBusy
      <3> QED BY <2>1, <3>1, <3>2, SamePolls
    <2> QED BY <2>2, <2>3 DEF Tasks
  <1> QED
    BY <1>1, <1>2, <1>3, <1>4, <1>5, <1>6, <1>7, <1>8 DEF NetworkNext, ShellStep, ArpStep, Tasks
-----------------------------------------------------------------------------
(* The properties.                                                         *)

NetworkInv == RingInv /\ TaskInv /\ SendInv /\ PollInv

LEMMA NetworkInvariance == NetworkSpec => []NetworkInv
  <1>1. NetworkInit => NetworkInv
    BY InitRing, InitTask, InitSend, InitPoll DEF NetworkInv, NetworkInit
  <1>2. NetworkInv /\ [NetworkNext]_net => NetworkInv'
    BY CardStep, RingStep, TaskNext, SendNext, PollNext DEF NetworkInv
  <1> QED
    BY <1>1, <1>2, PTL DEF NetworkSpec

\* The card's registers stay inside their rings, send is inside the NIC lock, which
\* one task at a time holds, and the loops of pump, ping and demo_arp keep to their
\* bounds, whatever the wire brings and however the tasks interleave.
THEOREM NetworkTypes == NetworkSpec => []NetworkTypeOK
  <1>1. NetworkInv => NetworkTypeOK
    <2> SUFFICES ASSUME NetworkInv PROVE NetworkTypeOK
      OBVIOUS
    <2>1. RingInv /\ TaskInv /\ SendInv
      BY DEF NetworkInv
    <2>2. NUM_RX \in Nat \ {0, 1} /\ NUM_TX \in Nat \ {0, 1}
      BY RingAssumption DEF RingAssumption
    <2>3. RDH \in 0..(NUM_RX - 1) /\ RDT \in 0..(NUM_RX - 1)
      <3>1. idx \in 0..(NUM_RX - 1) /\ RDT = IF idx = 0 THEN NUM_RX - 1 ELSE idx - 1
        BY <2>1, IdxType, TailIs
      <3> HIDE DEF idx
      <3> QED BY <2>1, <2>2, <3>1 DEF RingInv
    <2>4. TDH \in 0..(NUM_TX - 1) /\ TDT \in 0..(NUM_TX - 1)
      <3>1. PICK h \in Nat : TDH = (h % NUM_TX)
        BY <2>1 DEF SendInv
      <3>2. Belled \in Nat /\ TDT = (Belled % NUM_TX)
        BY <2>1 DEF SendInv
      <3> HIDE DEF Belled
      <3> QED BY <2>2, <3>1, <3>2, Successor
    <2>5. \A i \in DOMAIN rx_ring : rx_ring[i] \in Frame \cup {NoFrame}
      BY <2>1 DEF RingInv
    <2> QED BY <2>1, <2>3, <2>4, <2>5 DEF NetworkTypeOK, TaskInv
  <1> QED
    BY <1>1, NetworkInvariance, PTL

\* The device never puts a frame on the wire before send has copied it into tx_buf,
\* nor one whose turn is over, for every ring size and any number of commands.
THEOREM WireIsNeverStale == NetworkSpec => NeverStale
  <1>1. NetworkInv /\ [NetworkNext]_net => [TDH' # TDH => \E j \in DOMAIN due : tx_buf = due[j]]_net
    BY WiredBy DEF NetworkInv
  <1> QED
    BY <1>1, NetworkInvariance, PTL DEF NetworkSpec, NeverStale

\* The ARP cache has a host exactly when pump has handled an ARP frame of it, with
\* the address of the last one: frames that demo_arp polls away teach it nothing,
\* and none of those that pump takes is skipped or applied out of order.
THEOREM CacheIsArps == NetworkSpec => []CacheFollowsArp
  <1>1. NetworkInv => CacheFollowsArp
    BY FollowsIs DEF NetworkInv, PollInv
  <1> QED
    BY <1>1, NetworkInvariance, PTL
=============================================================================
