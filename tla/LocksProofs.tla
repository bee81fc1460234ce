---------------------------- MODULE LocksProofs ----------------------------
(***************************************************************************)
(* What calls that respect the discipline CallsBalanced can never do to    *)
(* one another, for every set of tasks and of calls and wherever the       *)
(* interrupts fall.  TLC checks that the kernel's calls respect it.        *)
(***************************************************************************)
EXTENDS Locks, TLAPS

-----------------------------------------------------------------------------
(* The discipline, one element further.                                    *)

LEMMA TailShifts ==
  ASSUME NEW s \in Seq(Op), s # <<>>
  PROVE  /\ Len(s) \in Nat \ {0}
         /\ Head(s) = s[1]
         /\ Tail(s) \in Seq(Op)
         /\ Len(Tail(s)) = Len(s) - 1
         /\ \A j \in 1..(Len(s) - 1) : Tail(s)[j] = s[j + 1]
  OBVIOUS

LEMMA OwesTail ==
  ASSUME NEW s \in Seq(Op), s # <<>>, NEW i \in Nat \ {0}, NEW l \in Lock
  PROVE  Owes(Tail(s), i, l) <=> Owes(s, i + 1, l)
  <1> DEFINE r == Tail(s)
  <1>1. /\ Len(s) \in Nat \ {0} /\ Len(r) = Len(s) - 1
        /\ \A j \in 1..(Len(s) - 1) : r[j] = s[j + 1]
    BY TailShifts
  <1> HIDE DEF r
  <1>2. ASSUME Owes(r, i, l) PROVE Owes(s, i + 1, l)
    <2>1. PICK k \in i..Len(r) : r[k] = Drop(l) /\ \A j \in i..(k - 1) : r[j] # Take(l)
      BY <1>2 DEF Owes
    <2>2. k + 1 \in (i + 1)..Len(s) /\ s[k + 1] = Drop(l)
      BY <1>1, <2>1
    <2>3. ASSUME NEW j \in (i + 1)..((k + 1) - 1) PROVE s[j] # Take(l)
      <3>1. j - 1 \in i..(k - 1) /\ j - 1 \in 1..(Len(s) - 1) /\ (j - 1) + 1 = j
        BY <1>1, <2>1
      <3> QED
        BY <3>1, <1>1, <2>1, Zenon
    <2> QED
      BY <2>2, <2>3 DEF Owes
  <1>3. ASSUME Owes(s, i + 1, l) PROVE Owes(r, i, l)
    <2>1. PICK k \in (i + 1)..Len(s) :
            s[k] = Drop(l) /\ \A j \in (i + 1)..(k - 1) : s[j] # Take(l)
      BY <1>3 DEF Owes
    <2>2. k - 1 \in i..Len(r) /\ k - 1 \in 1..(Len(s) - 1) /\ (k - 1) + 1 = k
      BY <1>1, <2>1
    <2>3. r[k - 1] = Drop(l)
      BY <1>1, <2>1, <2>2
    <2>4. ASSUME NEW j \in i..((k - 1) - 1) PROVE r[j] # Take(l)
      <3>1. j + 1 \in (i + 1)..(k - 1) /\ j \in 1..(Len(s) - 1)
        BY <1>1, <2>1
      <3> QED
        BY <3>1, <1>1, <2>1
    <2> QED
      BY <2>2, <2>3, <2>4 DEF Owes
  <1> QED
    BY <1>2, <1>3 DEF r

LEMMA BalancedTail ==
  ASSUME NEW s \in Seq(Op), s # <<>>, Balanced(s)
  PROVE  Balanced(Tail(s))
  <1> DEFINE r == Tail(s)
  <1>1. /\ Len(s) \in Nat \ {0} /\ Len(r) = Len(s) - 1
        /\ \A j \in 1..(Len(s) - 1) : r[j] = s[j + 1]
    BY TailShifts
  <1>2. \A i \in Nat \ {0} : \A l \in Lock : Owes(r, i, l) <=> Owes(s, i + 1, l)
    BY OwesTail
  <1> HIDE DEF r
  <1>3. SUFFICES ASSUME NEW i \in 1..Len(r)
        PROVE  /\ r[i].do = "take" => Owes(r, i + 1, r[i].lock)
               /\ r[i].do = "drop" => ~Owes(r, i + 1, r[i].lock)
               /\ r[i] = Schedule => \A l \in Lock : ~Owes(r, i + 1, l)
               /\ r[i] = Begin => i < Len(r) /\ r[i + 1] = End
               /\ r[i] = End =>
                    /\ Owes(r, i + 1, "SERIAL1")
                    /\ \A l \in {"SCHEDULER", "KEYBOARD", "HEAP"} : ~Owes(r, i + 1, l)
    BY Zenon DEF Balanced, r
  <1>4. /\ i + 1 \in 1..Len(s) /\ i \in 1..(Len(s) - 1) /\ i + 1 \in Nat \ {0}
        /\ r[i] = s[i + 1]
    BY <1>1
  <1>5. r[i].lock \in Lock
    <2>1. s[i + 1] \in Op
      BY <1>1, <1>4
    <2> QED
      BY <1>4, <2>1 DEF Op
  <1>6. \A l \in Lock : Owes(r, i + 1, l) <=> Owes(s, (i + 1) + 1, l)
    BY <1>2, <1>4
  <1>7. /\ s[i + 1].do = "take" => Owes(s, (i + 1) + 1, s[i + 1].lock)
        /\ s[i + 1].do = "drop" => ~Owes(s, (i + 1) + 1, s[i + 1].lock)
        /\ s[i + 1] = Schedule => \A l \in Lock : ~Owes(s, (i + 1) + 1, l)
        /\ s[i + 1] = Begin => i + 1 < Len(s) /\ s[(i + 1) + 1] = End
        /\ s[i + 1] = End =>
             /\ Owes(s, (i + 1) + 1, "SERIAL1")
             /\ \A l \in {"SCHEDULER", "KEYBOARD", "HEAP"} : ~Owes(s, (i + 1) + 1, l)
    BY <1>4 DEF Balanced
  <1>8. r[i] = Begin => i < Len(r) /\ r[i + 1] = End
    <2> SUFFICES ASSUME r[i] = Begin PROVE i < Len(r) /\ r[i + 1] = End
      OBVIOUS
    <2>1. i + 1 < Len(s) /\ s[(i + 1) + 1] = End
      BY <1>4, <1>7
    <2>2. i + 1 \in 1..(Len(s) - 1)
      BY <1>1, <1>4, <2>1
    <2> QED
      BY <1>1, <2>1, <2>2
  <1>9. {"SCHEDULER", "KEYBOARD", "HEAP", "SERIAL1"} \subseteq Lock
    BY DEF Lock
  <1> QED
    BY <1>4, <1>5, <1>6, <1>7, <1>8, <1>9

\* What the first element of a call does to what the call owes.
LEMMA HeadOwes ==
  ASSUME NEW s \in Seq(Op), s # <<>>, Balanced(s), NEW l \in Lock
  PROVE  /\ Head(s) = Take(l) => ~Owes(s, 1, l) /\ Owes(Tail(s), 1, l)
         /\ Head(s) = Drop(l) => Owes(s, 1, l) /\ ~Owes(Tail(s), 1, l)
         /\ Head(s) # Take(l) /\ Head(s) # Drop(l) =>
              (Owes(s, 1, l) <=> Owes(Tail(s), 1, l))
  <1>1. Len(s) \in Nat \ {0} /\ Head(s) = s[1] /\ 1 \in 1..Len(s)
    BY TailShifts
  <1>2. Owes(Tail(s), 1, l) <=> Owes(s, 1 + 1, l)
    BY OwesTail
  <1>3. /\ s[1].do = "take" => Owes(s, 1 + 1, s[1].lock)
        /\ s[1].do = "drop" => ~Owes(s, 1 + 1, s[1].lock)
    BY <1>1 DEF Balanced
  <1>4. CASE s[1] = Take(l)
    <2>1. s[1].do = "take" /\ s[1].lock = l /\ s[1] # Drop(l)
      BY <1>4 DEF Take, Drop
    <2>2. ~Owes(s, 1, l)
      BY <1>1, <1>4, <2>1 DEF Owes
    <2> QED
      BY <1>1, <1>2, <1>3, <1>4, <2>1, <2>2
  <1>5. CASE s[1] = Drop(l)
    <2>1. s[1].do = "drop" /\ s[1].lock = l /\ s[1] # Take(l)
      BY <1>5 DEF Take, Drop
    <2>2. Owes(s, 1, l)
      BY <1>1, <1>5 DEF Owes
    <2> QED
      BY <1>1, <1>2, <1>3, <1>5, <2>1, <2>2
  <1>6. CASE s[1] # Take(l) /\ s[1] # Drop(l)
    <2>1. ASSUME Owes(s, 1, l) PROVE Owes(s, 1 + 1, l)
      <3>1. PICK k \in 1..Len(s) : s[k] = Drop(l) /\ \A j \in 1..(k - 1) : s[j] # Take(l)
        BY <2>1 DEF Owes
      <3>2. k \in (1 + 1)..Len(s) /\ \A j \in (1 + 1)..(k - 1) : j \in 1..(k - 1)
        BY <1>1, <1>6, <3>1
      <3> QED
        BY <3>1, <3>2 DEF Owes
    <2>2. ASSUME Owes(s, 1 + 1, l) PROVE Owes(s, 1, l)
      <3>1. PICK k \in (1 + 1)..Len(s) :
              s[k] = Drop(l) /\ \A j \in (1 + 1)..(k - 1) : s[j] # Take(l)
        BY <2>2 DEF Owes
      <3>2. k \in 1..Len(s) /\ \A j \in 1..(k - 1) : j = 1 \/ j \in (1 + 1)..(k - 1)
        BY <1>1, <3>1
      <3> QED
        BY <1>6, <3>1, <3>2 DEF Owes
    <2> QED
      BY <1>1, <1>2, <1>6, <2>1, <2>2
  <1> QED
    BY <1>4, <1>5, <1>6

\* A finished call owes nothing.
LEMMA EmptyOwes ==
  /\ Balanced(<<>>)
  /\ \A l \in Lock : ~Owes(<<>>, 1, l)
  BY DEF Balanced, Owes

\* A call that is about to schedule() owes nothing afterwards; one that is about
\* to end a line owes SERIAL1 and no lock that a handler takes.
LEMMA HeadBalanced ==
  ASSUME NEW s \in Seq(Op), s # <<>>, Balanced(s)
  PROVE  /\ Head(s) = Schedule => \A l \in Lock : ~Owes(Tail(s), 1, l)
         /\ Head(s) = Begin => Tail(s) # <<>> /\ Head(Tail(s)) = End
         /\ Head(s) = End =>
              /\ Owes(s, 1, "SERIAL1")
              /\ \A l \in {"SCHEDULER", "KEYBOARD", "HEAP"} : ~Owes(s, 1, l)
  <1>1. /\ Len(s) \in Nat \ {0} /\ Head(s) = s[1] /\ 1 \in 1..Len(s)
        /\ Tail(s) \in Seq(Op) /\ Len(Tail(s)) = Len(s) - 1
        /\ \A j \in 1..(Len(s) - 1) : Tail(s)[j] = s[j + 1]
    BY TailShifts
  <1>2. \A l \in Lock : Owes(Tail(s), 1, l) <=> Owes(s, 1 + 1, l)
    BY OwesTail
  <1>3. /\ s[1] = Schedule => \A l \in Lock : ~Owes(s, 1 + 1, l)
        /\ s[1] = Begin => 1 < Len(s) /\ s[1 + 1] = End
        /\ s[1] = End =>
             /\ Owes(s, 1 + 1, "SERIAL1")
             /\ \A l \in {"SCHEDULER", "KEYBOARD", "HEAP"} : ~Owes(s, 1 + 1, l)
    BY <1>1 DEF Balanced
  <1>4. {"SCHEDULER", "KEYBOARD", "HEAP", "SERIAL1"} \subseteq Lock
    BY DEF Lock
  <1>5. ASSUME Head(s) = End PROVE \A l \in Lock : Head(s) # Take(l) /\ Head(s) # Drop(l)
    BY <1>5 DEF End, Take, Drop
  <1>6. Head(s) = End => \A l \in Lock : Owes(s, 1, l) <=> Owes(Tail(s), 1, l)
    BY <1>5, HeadOwes
  <1>7. Head(s) = Begin => Tail(s) # <<>> /\ Head(Tail(s)) = End
    <2> SUFFICES ASSUME Head(s) = Begin PROVE Tail(s) # <<>> /\ Head(Tail(s)) = End
      OBVIOUS
    <2>1. Len(Tail(s)) >= 1 /\ Tail(s)[1] = End
      BY <1>1, <1>3
    <2>2. Tail(s) # <<>>
      <3>1. Len(<<>>) = 0
        OBVIOUS
      <3> DEFINE r == Tail(s)
      <3>2. Len(r) >= 1
        BY <2>1
      <3> HIDE DEF r
      <3>3. r # <<>>
        BY <3>1, <3>2
      <3> QED
        BY <3>3 DEF r
    <2> QED
      BY <1>1, <2>1, <2>2, TailShifts
  <1> QED
    BY <1>1, <1>2, <1>3, <1>4, <1>6, <1>7
-----------------------------------------------------------------------------
(* The inductive invariant.                                                *)

\* A task holds the locks that its call still has to release.
Guards == \A t \in Task : \A l \in Lock : holder[l] = t <=> Owes(todo[t], 1, l)

\* A task that gave the core away by itself is between critical sections.
OffCpu == \A t \in Task : t # cur /\ t \notin isr => \A l \in Lock : ~Owes(todo[t], 1, l)

\* At most one task is parked in the timer handler, exactly while the
\* interrupt is in service, and it is not the one that runs.
OneParked ==
  /\ in_service <=> isr # {}
  /\ \A t, u \in isr : t = u
  /\ cur \notin isr

\* A task that has begun a line is about to end it.
MidLine == \A t \in begun : todo[t] # <<>> /\ Head(todo[t]) = End

\* No handler spins while it interrupts a line.
HandlersPass == cur \in begun => spin = {}

Discipline == \A t \in Task : Balanced(todo[t])

IInv ==
  /\ LocksTypeOK
  /\ Discipline
  /\ Guards
  /\ OffCpu
  /\ OneParked
  /\ MidLine
  /\ HandlersPass

LEMMA InitIInv == Init => IInv
  <1> SUFFICES ASSUME Init PROVE IInv
    OBVIOUS
  <1>1. LocksTypeOK
    <2>1. <<>> \in Seq(Op)
      OBVIOUS
    <2>2. todo \in [Task -> Seq(Op)] /\ holder \in [Lock -> Task \cup {NoOne}]
      BY <2>1 DEF Init
    <2>3. cur \in live /\ live \subseteq Task /\ unborn \subseteq Task
      BY DEF Init
    <2> QED
      BY <2>2, <2>3, Zenon DEF Init, LocksTypeOK
  <1>2. \A t \in Task : todo[t] = <<>>
    BY Zenon DEF Init
  <1>3. Discipline /\ OffCpu
    BY <1>2, EmptyOwes DEF Discipline, OffCpu
  <1>4. Guards
    BY <1>2, EmptyOwes, LocksAssumption DEF Guards, Init, LocksAssumption
  <1>5. OneParked /\ MidLine /\ HandlersPass
    BY DEF Init, OneParked, MidLine, HandlersPass
  <1> QED
    BY <1>1, <1>3, <1>4, <1>5 DEF IInv

\* The three facts about who owns what, from the invariant.
LEMMA Ownership ==
  ASSUME IInv
  PROVE  OffCpuHoldsNothing /\ WaitsForPreempted /\ LinesWhole
  <1>1. OffCpuHoldsNothing
    BY DEF IInv, LocksTypeOK, Guards, OffCpu, OffCpuHoldsNothing, Free
  <1>2. WaitsForPreempted
    <2> SUFFICES ASSUME NEW l \in Lock, cur # NoOne, Wants(cur, l), ~Free(l)
                 PROVE  holder[l] \in isr
      BY DEF WaitsForPreempted
    <2>1. cur \in Task /\ todo[cur] \in Seq(Op) /\ Balanced(todo[cur])
      BY DEF IInv, LocksTypeOK, Discipline
    <2>2. ~Owes(todo[cur], 1, l)
      BY <2>1, HeadOwes DEF Wants
    <2>3. holder[l] # cur
      BY <2>1, <2>2 DEF IInv, Guards
    <2> QED
      BY <1>1, <2>3 DEF OffCpuHoldsNothing
  <1>3. LinesWhole
    <2> SUFFICES ASSUME NEW t \in begun, NEW u \in begun PROVE t = u
      BY DEF LinesWhole
    <2>1. ASSUME NEW v \in begun PROVE holder["SERIAL1"] = v
      <3>1. v \in Task /\ todo[v] \in Seq(Op) /\ Balanced(todo[v])
        BY DEF IInv, LocksTypeOK, Discipline
      <3>2. todo[v] # <<>> /\ Head(todo[v]) = End
        BY DEF IInv, MidLine
      <3>3. Owes(todo[v], 1, "SERIAL1")
        BY <3>1, <3>2, HeadBalanced
      <3>4. "SERIAL1" \in Lock
        BY DEF Lock
      <3> QED
        BY <3>1, <3>3, <3>4 DEF IInv, Guards
    <2> QED
      BY <2>1
  <1> QED
    BY <1>1, <1>2, <1>3

\* A step of t's call: t's call shrinks, the others' stay.
LEMMA Advances ==
  ASSUME IInv, NEW t \in Task, NEW o, Does(t, o)
  PROVE  /\ t = cur /\ spin = {}
         /\ todo[t] \in Seq(Op) /\ todo[t] # <<>> /\ Balanced(todo[t]) /\ Head(todo[t]) = o
         /\ todo' \in [Task -> Seq(Op)]
         /\ todo'[t] = Tail(todo[t])
         /\ \A u \in Task : u # t => todo'[u] = todo[u]
         /\ Discipline'
  <1>1. /\ t = cur /\ spin = {} /\ todo[t] # <<>> /\ Head(todo[t]) = o
        /\ todo' = [todo EXCEPT ![t] = Tail(todo[t])]
    BY DEF Does, Executes
  <1>2. todo \in [Task -> Seq(Op)] /\ todo[t] \in Seq(Op) /\ Balanced(todo[t])
    BY DEF IInv, LocksTypeOK, Discipline
  <1>3. Tail(todo[t]) \in Seq(Op) /\ Balanced(Tail(todo[t]))
    BY <1>1, <1>2, TailShifts, BalancedTail
  <1>4. /\ todo' \in [Task -> Seq(Op)]
        /\ todo'[t] = Tail(todo[t])
        /\ \A u \in Task : u # t => todo'[u] = todo[u]
    BY <1>1, <1>2, <1>3
  <1>5. Discipline'
    BY <1>3, <1>4, Zenon DEF IInv, Discipline
  <1> QED
    BY <1>1, <1>2, <1>4, <1>5

\* What a step that takes or drops no lock leaves as it was: what each task
\* owes, and so Guards and OffCpu for tasks whose place does not change.
LEMMA OwesKept ==
  ASSUME IInv, NEW t \in Task, NEW o \in {Begin, End, Add, Schedule}, Does(t, o)
  PROVE  \A u \in Task : \A l \in Lock : Owes(todo'[u], 1, l) <=> Owes(todo[u], 1, l)
  <1>1. \A l \in Lock : o # Take(l) /\ o # Drop(l)
    BY DEF Begin, End, Add, Schedule, Take, Drop
  <1>2. /\ todo[t] \in Seq(Op) /\ todo[t] # <<>> /\ Balanced(todo[t]) /\ Head(todo[t]) = o
        /\ todo'[t] = Tail(todo[t])
        /\ \A u \in Task : u # t => todo'[u] = todo[u]
    BY Advances
  <1>3. \A l \in Lock : Owes(todo'[t], 1, l) <=> Owes(todo[t], 1, l)
    BY <1>1, <1>2, HeadOwes
  <1> QED
    BY <1>2, <1>3

\* A task that begins no line keeps MidLine: it is not in the middle of one.
LEMMA MidLineKept ==
  ASSUME IInv, NEW t \in Task, NEW o, o # End, Does(t, o), begun' = begun
  PROVE  MidLine' /\ t \notin begun
  <1>1. Head(todo[t]) = o /\ \A u \in Task : u # t => todo'[u] = todo[u]
    BY Advances
  <1>2. t \notin begun
    BY <1>1 DEF IInv, MidLine
  <1>3. begun \subseteq Task
    BY DEF IInv, LocksTypeOK
  <1> QED
    BY <1>1, <1>2, <1>3 DEF IInv, MidLine

LEMMA LockStep ==
  ASSUME IInv, NEW t \in Task, NEW m \in Lock, lock(t, m) \/ unlock(t, m)
  PROVE  IInv'
  <1>1. \E o \in {Take(m), Drop(m)} : Does(t, o)
    BY DEF lock, unlock
  <1>2. PICK o \in {Take(m), Drop(m)} : Does(t, o)
    BY <1>1
  <1>3. /\ t = cur /\ spin = {}
        /\ todo[t] \in Seq(Op) /\ todo[t] # <<>> /\ Balanced(todo[t]) /\ Head(todo[t]) = o
        /\ todo' \in [Task -> Seq(Op)]
        /\ todo'[t] = Tail(todo[t])
        /\ \A u \in Task : u # t => todo'[u] = todo[u]
        /\ Discipline'
    BY <1>2, Advances
  <1>4. UNCHANGED <<cur, live, unborn, in_service, isr, spin, begun>>
    BY DEF lock, unlock, irq
  <1>5. holder' \in [Lock -> Task \cup {NoOne}]
    BY DEF IInv, LocksTypeOK, lock, unlock
  <1>6. LocksTypeOK'
    BY <1>3, <1>4, <1>5 DEF IInv, LocksTypeOK
  <1>7. MidLine'
    <2>1. o # End
      BY DEF Take, Drop, End
    <2> QED
      BY <1>2, <1>4, <2>1, MidLineKept
  <1>8. OneParked' /\ HandlersPass' /\ OffCpu'
    BY <1>3, <1>4 DEF IInv, OneParked, HandlersPass, OffCpu
  <1>9. ASSUME NEW l \in Lock, l # m
        PROVE  /\ holder'[l] = holder[l]
               /\ Owes(todo'[t], 1, l) <=> Owes(todo[t], 1, l)
    <2>1. o # Take(l) /\ o # Drop(l)
      BY <1>9 DEF Take, Drop
    <2>2. holder'[l] = holder[l]
      BY <1>9 DEF IInv, LocksTypeOK, lock, unlock
    <2> QED
      BY <1>3, <2>1, <2>2, HeadOwes
  <1>10. \A u \in Task : holder'[m] = u <=> Owes(todo'[u], 1, m)
    <2>1. Take(m) # Drop(m)
      BY DEF Take, Drop
    <2>2. CASE lock(t, m)
      <3>1. holder[m] = NoOne /\ holder'[m] = t /\ o = Take(m)
        BY <1>3, <2>2, <2>1 DEF lock, Free, Does, IInv, LocksTypeOK
      <3>2. Owes(todo'[t], 1, m)
        BY <1>3, <3>1, HeadOwes
      <3>3. \A u \in Task : ~Owes(todo[u], 1, m)
        BY <3>1, LocksAssumption DEF IInv, Guards, LocksAssumption
      <3> QED
        BY <1>3, <3>1, <3>2, <3>3, Zenon
    <2>3. CASE unlock(t, m)
      <3>1. holder'[m] = NoOne /\ o = Drop(m)
        BY <1>3, <2>3, <2>1 DEF unlock, Does, IInv, LocksTypeOK
      <3>2. Owes(todo[t], 1, m) /\ ~Owes(todo'[t], 1, m)
        BY <1>3, <3>1, HeadOwes
      <3>3. holder[m] = t
        BY <3>2 DEF IInv, Guards
      <3>4. \A u \in Task : u # t => ~Owes(todo[u], 1, m)
        BY <3>3 DEF IInv, Guards
      <3> QED
        BY <1>3, <3>1, <3>2, <3>4, LocksAssumption, Zenon DEF LocksAssumption
    <2> QED
      BY <2>2, <2>3
  <1>11. Guards'
    <2> SUFFICES ASSUME NEW u \in Task, NEW l \in Lock
                 PROVE  holder'[l] = u <=> Owes(todo'[u], 1, l)
      BY DEF Guards
    <2>1. holder[l] = u <=> Owes(todo[u], 1, l)
      BY DEF IInv, Guards
    <2>2. u # t => todo'[u] = todo[u]
      BY <1>3
    <2> QED
      BY <1>9, <1>10, <2>1, <2>2
  <1> QED
    BY <1>3, <1>6, <1>7, <1>8, <1>11 DEF IInv

\* A call starts: it owes nothing and neither does the call that ended.
LEMMA CallStep ==
  ASSUME CallsBalanced, IInv, NEW t \in Task, Call(t)
  PROVE  IInv'
  <1>1. PICK c \in Calls : todo' = [todo EXCEPT ![t] = c]
    BY Zenon DEF Call
  <1>2. c \in Seq(Op) /\ Balanced(c) /\ \A l \in Lock : ~Owes(c, 1, l)
    BY DEF CallsBalanced
  <1>3. /\ todo[t] = <<>> /\ t = cur
        /\ UNCHANGED <<holder, cur, live, unborn, in_service, isr, spin, begun>>
    BY DEF Call, Executes, irq
  <1>4. /\ todo' \in [Task -> Seq(Op)]
        /\ todo'[t] = c
        /\ \A u \in Task : u # t => todo'[u] = todo[u]
    BY <1>1, <1>2 DEF IInv, LocksTypeOK
  <1>5. \A u \in Task : \A l \in Lock : Owes(todo'[u], 1, l) <=> Owes(todo[u], 1, l)
    BY <1>2, <1>3, <1>4, EmptyOwes
  <1>6. t \notin begun /\ begun \subseteq Task
    BY <1>3 DEF IInv, MidLine, LocksTypeOK
  <1>7. LocksTypeOK'
    BY <1>3, <1>4 DEF IInv, LocksTypeOK
  <1>8. Discipline' /\ MidLine'
    BY <1>2, <1>3, <1>4, <1>6 DEF IInv, Discipline, MidLine
  <1>9. Guards'
    BY <1>3, <1>5 DEF IInv, Guards
  <1>10. OffCpu' /\ OneParked' /\ HandlersPass'
    BY <1>3, <1>5 DEF IInv, OffCpu, OneParked, HandlersPass
  <1> QED
    BY <1>7, <1>8, <1>9, <1>10 DEF IInv

LEMMA PrintStep ==
  ASSUME IInv, NEW t \in Task, print(t)
  PROVE  IInv'
  <1>1. PICK o \in {Begin, End} :
          /\ Does(t, o)
          /\ o = Begin => begun' = begun \cup {t}
          /\ o = End => begun' = begun \ {t}
    <2>1. Begin # End
      BY DEF Begin, End
    <2> QED
      BY <2>1 DEF print
  <1>2. UNCHANGED <<holder, cur, live, unborn, in_service, isr, spin>>
    BY DEF print, irq
  <1>3. /\ t = cur /\ spin = {}
        /\ todo[t] \in Seq(Op) /\ todo[t] # <<>> /\ Balanced(todo[t]) /\ Head(todo[t]) = o
        /\ todo' \in [Task -> Seq(Op)]
        /\ todo'[t] = Tail(todo[t])
        /\ \A u \in Task : u # t => todo'[u] = todo[u]
        /\ Discipline'
    BY <1>1, Advances
  <1>4. \A u \in Task : \A l \in Lock : Owes(todo'[u], 1, l) <=> Owes(todo[u], 1, l)
    BY <1>1, OwesKept
  <1>5. t \in live
    BY <1>3, LocksAssumption DEF IInv, LocksTypeOK, LocksAssumption
  <1>6. LocksTypeOK'
    BY <1>1, <1>2, <1>3, <1>5 DEF IInv, LocksTypeOK
  <1>7. MidLine'
    <2>1. \A u \in begun : u # t => todo'[u] # <<>> /\ Head(todo'[u]) = End
      BY <1>3 DEF IInv, MidLine, LocksTypeOK
    <2>2. o = Begin => todo'[t] # <<>> /\ Head(todo'[t]) = End
      BY <1>3, HeadBalanced
    <2> QED
      BY <1>1, <2>1, <2>2 DEF MidLine
  <1>8. Guards'
    BY <1>2, <1>4 DEF IInv, Guards
  <1>9. OffCpu' /\ OneParked' /\ HandlersPass'
    BY <1>2, <1>3, <1>4 DEF IInv, OffCpu, OneParked, HandlersPass
  <1> QED
    BY <1>3, <1>6, <1>7, <1>8, <1>9 DEF IInv

LEMMA AddStep ==
  ASSUME IInv, NEW t \in Task, add(t)
  PROVE  IInv'
  <1>1. Does(t, Add) /\ UNCHANGED <<holder, cur, in_service, isr, spin, begun>>
    BY DEF add, irq
  <1>2. /\ live \subseteq live' /\ live' \subseteq Task
        /\ unborn' \subseteq Task
    BY DEF add, IInv, LocksTypeOK
  <1>3. todo' \in [Task -> Seq(Op)] /\ Discipline'
    BY <1>1, Advances
  <1>4. \A u \in Task : \A l \in Lock : Owes(todo'[u], 1, l) <=> Owes(todo[u], 1, l)
    BY <1>1, OwesKept
  <1>5. LocksTypeOK'
    BY <1>1, <1>2, <1>3 DEF IInv, LocksTypeOK
  <1>6. MidLine'
    <2>1. Add # End
      BY DEF Add, End
    <2> QED
      BY <1>1, <2>1, MidLineKept
  <1>7. Guards'
    BY <1>1, <1>4 DEF IInv, Guards
  <1>8. OffCpu' /\ OneParked' /\ HandlersPass'
    BY <1>1, <1>4 DEF IInv, OffCpu, OneParked, HandlersPass
  <1> QED
    BY <1>3, <1>5, <1>6, <1>7, <1>8 DEF IInv

\* The core is switched to n: the invariant's part about places, from what
\* each task owes afterwards.
LEMMA Switched ==
  ASSUME IInv, NEW n \in live, NEW suspended, NEW busy \in BOOLEAN,
         switch(n, suspended, busy),
         \A t, u \in suspended : t = u,
         busy <=> suspended # {},
         suspended \subseteq live,
         \A t \in Task : t \notin suspended => \A l \in Lock : ~Owes(todo'[t], 1, l)
  PROVE  /\ OneParked' /\ OffCpu'
         /\ cur' = n /\ in_service' \in BOOLEAN /\ isr' \subseteq live
  <1>1. cur' = n /\ isr' = suspended \ {n} /\ in_service' = (busy /\ n \notin suspended)
    BY DEF switch
  <1>2. OneParked'
    <2>1. isr' # {} <=> suspended # {} /\ n \notin suspended
      BY <1>1
    <2>2. in_service' <=> isr' # {}
      BY <1>1, <2>1, Zenon
    <2> QED
      BY <1>1, <2>2 DEF OneParked
  <1>3. OffCpu'
    BY <1>1 DEF OffCpu
  <1> QED
    BY <1>1, <1>2, <1>3

LEMMA ScheduleStep ==
  ASSUME IInv, NEW t \in Task, schedule(t)
  PROVE  IInv'
  <1>1. Does(t, Schedule) /\ UNCHANGED <<holder, live, unborn, begun>>
    BY DEF schedule
  <1>2. /\ t = cur /\ spin = {}
        /\ todo[t] \in Seq(Op) /\ todo[t] # <<>> /\ Balanced(todo[t]) /\ Head(todo[t]) = Schedule
        /\ todo' \in [Task -> Seq(Op)]
        /\ todo'[t] = Tail(todo[t])
        /\ Discipline'
    BY <1>1, Advances
  <1>3. \A u \in Task : \A l \in Lock : Owes(todo'[u], 1, l) <=> Owes(todo[u], 1, l)
    BY <1>1, OwesKept
  <1>4. Guards'
    BY <1>1, <1>3 DEF IInv, Guards
  <1>5. MidLine' /\ t \notin begun
    <2>1. Schedule # End
      BY DEF Schedule, End
    <2> QED
      BY <1>1, <2>1, MidLineKept
  <1>6. \A u \in Task : u \notin isr => \A l \in Lock : ~Owes(todo'[u], 1, l)
    <2>1. \A l \in Lock : ~Owes(todo'[t], 1, l)
      BY <1>2, HeadBalanced
    <2> QED
      BY <1>2, <1>3, <2>1, Zenon DEF IInv, OffCpu
  <1>7. CASE UNCHANGED <<cur, in_service, isr>> /\ spin' \subseteq Lock
    <2>1. LocksTypeOK'
      BY <1>1, <1>2, <1>7 DEF IInv, LocksTypeOK
    <2>2. OffCpu' /\ OneParked'
      BY <1>6, <1>7 DEF IInv, OffCpu, OneParked
    <2>3. HandlersPass'
      BY <1>1, <1>2, <1>5, <1>7 DEF HandlersPass
    <2> QED
      BY <1>2, <1>4, <1>5, <2>1, <2>2, <2>3 DEF IInv
  <1>8. CASE UNCHANGED spin /\ \E n \in live : switch(n, isr, in_service)
    <2>1. PICK n \in live : switch(n, isr, in_service)
      BY <1>8
    <2>2. /\ in_service \in BOOLEAN /\ isr \subseteq live
          /\ \A u, v \in isr : u = v
          /\ in_service <=> isr # {}
      BY DEF IInv, LocksTypeOK, OneParked
    <2>3. /\ OneParked' /\ OffCpu'
          /\ cur' = n /\ in_service' \in BOOLEAN /\ isr' \subseteq live
      BY <1>6, <2>1, <2>2, Switched
    <2>4. LocksTypeOK'
      BY <1>1, <1>2, <1>8, <2>3 DEF IInv, LocksTypeOK
    <2>5. HandlersPass'
      BY <1>2, <1>8 DEF HandlersPass
    <2> QED
      BY <1>2, <1>4, <1>5, <2>3, <2>4, <2>5 DEF IInv
  <1>9. "SCHEDULER" \in Lock
    BY DEF Lock
  <1>10. spin \subseteq Lock
    BY DEF IInv, LocksTypeOK
  <1> QED
    BY <1>7, <1>8, <1>9, <1>10 DEF schedule, SpinOn

LEMMA ExitStep ==
  ASSUME IInv, NEW t \in Task, exit_current(t)
  PROVE  IInv'
  <1>1. /\ t = cur /\ todo[t] = <<>> /\ spin = {}
        /\ UNCHANGED <<holder, todo, unborn, begun>>
    BY DEF exit_current, Executes
  <1>2. Guards' /\ Discipline' /\ MidLine'
    BY <1>1 DEF IInv, Guards, Discipline, MidLine
  <1>3. t \notin begun /\ t \notin isr
    BY <1>1 DEF IInv, MidLine, OneParked
  <1>4. \A u \in Task : u \notin isr => \A l \in Lock : ~Owes(todo'[u], 1, l)
    BY <1>1, EmptyOwes DEF IInv, OffCpu
  <1>5. /\ in_service \in BOOLEAN /\ isr \subseteq live
        /\ \A u, v \in isr : u = v
        /\ in_service <=> isr # {}
    BY DEF IInv, LocksTypeOK, OneParked
  <1>6. CASE UNCHANGED <<cur, live, in_service, isr>> /\ spin' \subseteq Lock
    <2>1. LocksTypeOK'
      BY <1>1, <1>6 DEF IInv, LocksTypeOK
    <2>2. OffCpu' /\ OneParked' /\ HandlersPass'
      BY <1>1, <1>3, <1>6 DEF IInv, OffCpu, OneParked, HandlersPass
    <2> QED
      BY <1>2, <2>1, <2>2 DEF IInv
  <1>7. CASE /\ live' = live \ {t} /\ UNCHANGED spin
             /\ \E n \in live \ {t} : switch(n, isr, in_service)
    <2>1. PICK n \in live \ {t} : switch(n, isr, in_service)
      BY <1>7
    <2>2. /\ OneParked' /\ OffCpu'
          /\ cur' = n /\ in_service' \in BOOLEAN /\ isr' \subseteq live
      BY <1>4, <1>5, <2>1, Switched
    <2>3. t \notin isr'
      BY <1>3, <2>1 DEF switch
    <2>4. LocksTypeOK'
      BY <1>1, <1>3, <1>7, <2>1, <2>2, <2>3 DEF IInv, LocksTypeOK
    <2>5. HandlersPass'
      BY <1>1, <1>7 DEF HandlersPass
    <2> QED
      BY <1>2, <2>2, <2>4, <2>5 DEF IInv
  <1>8. CASE /\ live' = live \ {t} /\ UNCHANGED spin
             /\ cur' = NoOne /\ UNCHANGED <<in_service, isr>>
    <2>1. LocksTypeOK'
      BY <1>1, <1>3, <1>8 DEF IInv, LocksTypeOK
    <2>2. NoOne \notin isr
      BY <1>5, LocksAssumption DEF LocksAssumption, IInv, LocksTypeOK
    <2>3. OffCpu' /\ OneParked' /\ HandlersPass'
      BY <1>1, <1>4, <1>5, <1>8, <2>2 DEF OffCpu, OneParked, HandlersPass
    <2> QED
      BY <1>2, <2>1, <2>3 DEF IInv
  <1>9. "SCHEDULER" \in Lock /\ "HEAP" \in Lock
    BY DEF Lock
  <1> QED
    BY <1>6, <1>7, <1>8, <1>9 DEF exit_current, SpinOn

\* While no interrupt is in service, a task in the middle of a line finds the
\* locks of the handlers free: it holds none of them, and nobody else holds any.
LEMMA PrinterLeavesThemFree ==
  ASSUME IInv, ~in_service, cur \in begun
  PROVE  \A l \in {"SCHEDULER", "KEYBOARD", "HEAP"} : Free(l)
  <1>1. isr = {}
    BY DEF IInv, OneParked
  <1>2. /\ cur \in Task /\ todo[cur] \in Seq(Op) /\ Balanced(todo[cur])
        /\ todo[cur] # <<>> /\ Head(todo[cur]) = End
    BY DEF IInv, LocksTypeOK, Discipline, MidLine
  <1>3. \A l \in {"SCHEDULER", "KEYBOARD", "HEAP"} : ~Owes(todo[cur], 1, l)
    BY <1>2, HeadBalanced
  <1>4. {"SCHEDULER", "KEYBOARD", "HEAP"} \subseteq Lock
    BY DEF Lock
  <1>5. \A l \in {"SCHEDULER", "KEYBOARD", "HEAP"} : holder[l] # cur
    BY <1>2, <1>3, <1>4 DEF IInv, Guards
  <1>6. OffCpuHoldsNothing
    BY Ownership
  <1> QED
    BY <1>1, <1>4, <1>5, <1>6 DEF OffCpuHoldsNothing

LEMMA InterruptStep ==
  ASSUME IInv, timer_interrupt_handler \/ keyboard_interrupt_handler
  PROVE  IInv'
  <1>1. spin = {} /\ ~in_service /\ UNCHANGED <<holder, todo, live, unborn, begun>>
    BY Zenon DEF timer_interrupt_handler, keyboard_interrupt_handler, Interruptible
  <1>2. Guards' /\ Discipline' /\ MidLine'
    BY <1>1 DEF IInv, Guards, Discipline, MidLine
  <1>3. CASE /\ UNCHANGED <<cur, in_service, isr>> /\ spin' \subseteq Lock
             /\ \/ spin' = {}
                \/ \E l \in {"SCHEDULER", "KEYBOARD", "HEAP"} : ~Free(l)
    <2>1. LocksTypeOK'
      BY <1>1, <1>3 DEF IInv, LocksTypeOK
    <2>2. OffCpu' /\ OneParked'
      BY <1>1, <1>3 DEF IInv, OffCpu, OneParked
    <2>3. HandlersPass'
      BY <1>1, <1>3, PrinterLeavesThemFree DEF HandlersPass
    <2> QED
      BY <1>2, <2>1, <2>2, <2>3 DEF IInv
  <1>4. CASE UNCHANGED spin /\ cur # NoOne /\ \E n \in live : switch(n, {cur}, TRUE)
    <2>1. PICK n \in live : switch(n, {cur}, TRUE)
      BY <1>4, Zenon
    <2>2. isr = {} /\ {cur} \subseteq live
      BY <1>1, <1>4 DEF IInv, OneParked, LocksTypeOK
    <2>3. \A t \in Task : t \notin {cur} => \A l \in Lock : ~Owes(todo'[t], 1, l)
      BY <1>1, <2>2 DEF IInv, OffCpu
    <2>4. /\ OneParked' /\ OffCpu'
          /\ cur' = n /\ in_service' \in BOOLEAN /\ isr' \subseteq live
      BY <2>1, <2>2, <2>3, Switched, Zenon
    <2>5. LocksTypeOK'
      BY <1>1, <1>4, <2>4 DEF IInv, LocksTypeOK
    <2>6. HandlersPass'
      BY <1>1, <1>4 DEF HandlersPass
    <2> QED
      BY <1>2, <2>4, <2>5, <2>6 DEF IInv
  <1>5. {"SCHEDULER", "KEYBOARD", "HEAP"} \subseteq Lock
    BY DEF Lock
  <1>6. CASE timer_interrupt_handler
    BY <1>1, <1>3, <1>4, <1>5, <1>6, Zenon DEF timer_interrupt_handler, SpinOn
  <1>7. CASE keyboard_interrupt_handler
    BY <1>1, <1>3, <1>5, <1>7 DEF keyboard_interrupt_handler, SpinOn
  <1> QED
    BY <1>6, <1>7

LEMMA NextIInv ==
  ASSUME CallsBalanced, IInv, [Next]_vars
  PROVE  IInv'
  <1>1. CASE UNCHANGED vars
    <2>1. UNCHANGED <<holder, todo, cur, live, unborn, in_service, isr, spin, begun>>
      BY <1>1 DEF vars, irq
    <2> QED
      BY <2>1 DEF IInv, LocksTypeOK, Discipline, Guards, OffCpu, OneParked, MidLine,
                  HandlersPass
  <1>2. CASE Next
    <2>1. ASSUME NEW t \in Task, TaskStep(t) PROVE IInv'
      BY <2>1, CallStep, LockStep, PrintStep, AddStep, ScheduleStep, ExitStep DEF TaskStep
    <2> QED
      BY <1>2, <2>1, InterruptStep DEF Next
  <1> QED
    BY <1>1, <1>2
-----------------------------------------------------------------------------
\* What every state of the kernel satisfies, under the discipline of the calls.
LEMMA Always ==
  ASSUME CallsBalanced
  PROVE  Spec => []IInv
  <1>1. Init => IInv
    BY InitIInv
  <1>2. IInv /\ [Next]_vars => IInv'
    BY NextIInv
  <1> QED
    BY <1>1, <1>2, PTL DEF Spec

\* The types of the locks' state; in particular only live tasks run, are parked
\* in the timer handler or are in the middle of a line.
THEOREM LockTypes ==
  ASSUME CallsBalanced
  PROVE  Spec => []LocksTypeOK
  <1>1. IInv => LocksTypeOK
    BY DEF IInv
  <1> QED
    BY <1>1, Always, PTL

\* Wherever interrupts fall, a task holds exactly the locks that the rest of
\* its call releases, so no guard is leaked or dropped twice.
THEOREM GuardsAreReleased ==
  ASSUME CallsBalanced
  PROVE  Spec => []GuardsFollowCalls
  <1>1. IInv => GuardsFollowCalls
    BY Zenon DEF IInv, Guards, Discipline, GuardsFollowCalls
  <1> QED
    BY <1>1, Always, PTL

\* Only the running task and the one task parked in the timer handler hold any
\* lock: sleep, join and the others release the guard before schedule().
THEOREM LocksSafe ==
  ASSUME CallsBalanced
  PROVE  Spec => []OffCpuHoldsNothing
  <1>1. IInv => OffCpuHoldsNothing
    BY Ownership
  <1> QED
    BY <1>1, Always, PTL

\* A task that waits for a lock waits for the one parked task, never for itself
\* and never for a task that waits too.
THEOREM WaitsAreForPreempted ==
  ASSUME CallsBalanced
  PROVE  Spec => []WaitsForPreempted
  <1>1. IInv => WaitsForPreempted
    BY Ownership
  <1> QED
    BY <1>1, Always, PTL

\* No line of output is torn by another one: serial.rs keeps SERIAL1 for a
\* whole line.
THEOREM PrintingSafe ==
  ASSUME CallsBalanced
  PROVE  Spec => []LinesWhole
  <1>1. IInv => LinesWhole
    BY Ownership
  <1> QED
    BY <1>1, Always, PTL

\* Whoever has begun a line and has the core finishes it without waiting: in the
\* middle of a line a task takes no lock, and no handler that interrupts it there
\* finds one of its own locks taken.
THEOREM LinesNeverWait ==
  ASSUME CallsBalanced
  PROVE  Spec => []LinesDoNotWait
  <1>1. ASSUME IInv, cur \in begun PROVE ~Stuck
    <2>1. spin = {} /\ Head(todo[cur]) = End
      BY <1>1 DEF IInv, HandlersPass, MidLine
    <2>2. \A l \in Lock : ~Wants(cur, l)
      BY <2>1 DEF Wants, Take, End
    <2> QED
      BY <2>1, <2>2 DEF Stuck
  <1>2. IInv => LinesDoNotWait
    BY <1>1 DEF LinesDoNotWait
  <1> QED
    BY <1>2, Always, PTL

\* A spin lock of this kernel cannot be waited for.  Its holder is the task
\* that the timer handler is parked on (or the very task that a handler
\* interrupted), and until that task runs again no interrupt is delivered
\* that could take the core from the task that waits.
THEOREM WaitsAreFinal ==
  ASSUME CallsBalanced
  PROVE  Spec => NoWaitEnds
  <1>3. ASSUME IInv, Next PROVE ~Stuck
    <2>1. spin = {}
      BY <1>3, Zenon DEF Next, TaskStep, Call, lock, unlock, print, add, schedule, exit_current, Does,
                  Executes, timer_interrupt_handler, keyboard_interrupt_handler, Interruptible
    <2>2. SUFFICES ASSUME NEW l \in Lock, cur # NoOne, Wants(cur, l), ~Free(l) PROVE FALSE
      BY <2>1 DEF Stuck
    <2>3. in_service
      <3>1. WaitsForPreempted
        BY <1>3, Ownership
      <3>2. holder[l] \in isr
        BY <2>2, <3>1 DEF WaitsForPreempted
      <3>3. in_service <=> isr # {}
        BY <1>3 DEF IInv, OneParked
      <3> QED
        BY <3>2, <3>3
    <2>4. PICK t \in Task : TaskStep(t)
      BY <1>3, <2>3 DEF Next, timer_interrupt_handler, keyboard_interrupt_handler, Interruptible
    <2>5. t = cur
      BY <2>4 DEF TaskStep, Call, lock, unlock, print, add, schedule, exit_current, Does, Executes
    <2>6. todo[t] # <<>> /\ Head(todo[t]) = Take(l)
      BY <2>2, <2>5 DEF Wants
    <2>7. /\ Take(l) \notin {Begin, End, Add, Schedule}
          /\ \A m \in Lock : Take(l) # Drop(m) /\ (Take(l) = Take(m) => l = m)
      BY DEF Take, Drop, Begin, End, Add, Schedule
    <2>8. PICK m \in Lock : lock(t, m)
      BY <2>4, <2>6, <2>7 DEF TaskStep, Call, unlock, print, add, schedule, exit_current, Does
    <2>9. m = l
      BY <2>6, <2>7, <2>8 DEF lock, Does
    <2> QED
      BY <2>2, <2>8, <2>9 DEF lock
  <1>4. IInv /\ [Next]_vars => [~Stuck]_vars
    BY <1>3
  <1> QED
    BY <1>4, Always, PTL DEF Spec, NoWaitEnds
=============================================================================
