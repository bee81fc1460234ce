------------------------- MODULE AddressSpaceProofs -------------------------
(***************************************************************************)
(* The bitmap allocator keeps its invariants for every bitmap size, page   *)
(* size, kernel image and memory map.  Over it, every frame that boot      *)
(* takes is used once, the heap survives whatever is mapped, loaded and    *)
(* run after it, and every program starts with its own image: for every    *)
(* memory map, page size and sequence of programs that fit below the heap. *)
(* MemoryUseProofs continues with what takes counting.                     *)
(***************************************************************************)
EXTENDS AddressSpace, TLAPS

(* The frame allocator.                                                    *)

\* The inductive invariant: before memory::init every bit is set.
FrameInv ==
  /\ TypeOK
  /\ HeldFramesAreMarked
  /\ map = <<>> => given = {} /\ used = Frame
-----------------------------------------------------------------------------
\* Arithmetic: division by the page size.
LEMMA Division ==
  ASSUME NEW d \in Nat \ {0}, NEW n \in Nat
  PROVE  /\ n \div d \in Nat /\ n % d \in 0..(d - 1)
         /\ n = d * (n \div d) + (n % d)
  OBVIOUS

LEMMA Monotone ==
  ASSUME NEW d \in Nat, NEW a \in Nat, NEW b \in Nat, a <= b
  PROVE  d * a <= d * b
  OBVIOUS

\* The scan reaches every word: its first free frame exists when any is free.
LEMMA ScanType ==
  ASSUME TypeOK, NEW f \in Frame
  PROVE  scan(f) \in Nat /\ bit_index(f)[1] \in Word
  <1> USE FrameAssumption DEF FrameAssumption
  <1> DEFINE q == f \div WordBits
             r == f % WordBits
  <1>1. f \in Nat /\ f < WordBits * WORDS
    BY DEF Frame, NUM_FRAMES
  <1>2. q \in Nat /\ r \in 0..(WordBits - 1) /\ f = WordBits * q + r
    BY <1>1, Division, Zenon
  <1> HIDE DEF q, r
  <1>3. q < WORDS
    <2>1. SUFFICES ASSUME WORDS <= q PROVE FALSE
      BY <1>2
    <2>2. WordBits * WORDS <= WordBits * q
      BY <1>2, <2>1, Monotone
    <2> QED BY <1>1, <1>2, <2>2
  <1>4. bit_index(f)[1] = q /\ bit_index(f)[2] = r
    BY DEF bit_index, q, r
  <1> DEFINE k == (q + WORDS - next_word) % WORDS
  <1>5. k \in Nat
    <2>1. q + WORDS - next_word \in Nat
      BY <1>2 DEF TypeOK, Word
    <2> DEFINE n == q + WORDS - next_word
    <2>2. n \in Nat BY <2>1
    <2> HIDE DEF n
    <2>3. n % WORDS \in Nat BY <2>2
    <2> QED BY <2>3 DEF n
  <1>6. scan(f) = k * WordBits + r
    BY <1>4 DEF scan
  <1> HIDE DEF k
  <1> QED
    BY <1>2, <1>3, <1>4, <1>5, <1>6 DEF Word

-----------------------------------------------------------------------------
LEMMA InitFrameInv == Init => FrameInv
  <1> SUFFICES ASSUME Init PROVE FrameInv
    OBVIOUS
  <1>1. TypeOK
    BY FrameAssumption DEF FrameAssumption, Init, TypeOK, Word
  <1> QED
    BY <1>1 DEF Init, FrameInv, HeldFramesAreMarked

LEMMA ProtectedFrames == Protected \subseteq Frame
  BY DEF Protected, frames_for

\* Every operation preserves the invariant.
LEMMA NextFrameInv == FrameInv /\ [Next]_vars => FrameInv'
  <1> SUFFICES ASSUME FrameInv, [Next]_vars PROVE FrameInv'
    OBVIOUS
  <1> USE DEF FrameInv, HeldFramesAreMarked
  <1>1. CASE init
    <2>1. PICK m \in MemoryMaps : map' = m /\ used' = (used \ FreedBy(m)) \cup Protected
      BY <1>1 DEF init
    <2>2. m # <<>>
      BY FrameAssumption DEF FrameAssumption
    <2>3. map = <<>> /\ given = {} /\ UNCHANGED <<next_word, given, answer>>
      BY <1>1 DEF init
    <2>4. TypeOK'
      BY <2>1, <2>3, ProtectedFrames DEF TypeOK
    <2> QED
      BY <2>1, <2>2, <2>3, <2>4
  <1>2. CASE alloc_frame
    <2>1. CASE UNCHANGED <<used, next_word, given>> /\ answer' = NoFrame
      BY <1>2, <2>1 DEF alloc_frame, TypeOK
    <2>2. ASSUME NEW f \in first_free,
                 used' = used \cup {f}, next_word' = bit_index(f)[1],
                 answer' = f, given' = given \cup {f}
          PROVE  FrameInv'
      <3>1. f \in Frame \ used
        BY DEF first_free
      <3>2. next_word' \in Word
        BY <2>2, <3>1, ScanType
      <3>3. map' = map /\ map # <<>>
        BY <1>2 DEF alloc_frame
      <3>4. TypeOK'
        BY <2>2, <3>1, <3>2, <3>3 DEF TypeOK
      <3>5. Protected' = Protected
        BY DEF Protected
      <3> QED
        BY <2>2, <3>1, <3>3, <3>4, <3>5
    <2> QED
      BY <1>2, <2>1, <2>2 DEF alloc_frame
  <1>3. ASSUME NEW f \in Frame, free_frame(f) PROVE FrameInv'
    <2>1. TypeOK'
      BY <1>3 DEF free_frame, TypeOK
    <2> QED
      BY <1>3, <2>1 DEF free_frame
  <1>4. CASE UNCHANGED vars
    BY <1>4 DEF vars, TypeOK
  <1> QED
    BY <1>1, <1>2, <1>3, <1>4 DEF Next

\* Every variable keeps its type; in particular the round-robin hint stays
\* inside the bitmap.
THEOREM FrameTypes == Spec => []TypeOK
  <1>1. FrameInv => TypeOK
    BY DEF FrameInv
  <1> QED
    BY <1>1, InitFrameInv, NextFrameInv, PTL DEF Spec

\* A held frame keeps its bit, and the kernel image and the null page are never
\* handed out, whatever the memory map says.
THEOREM HeldFramesStayMarked == Spec => []HeldFramesAreMarked
  <1>1. FrameInv => HeldFramesAreMarked
    BY DEF FrameInv
  <1> QED
    BY <1>1, InitFrameInv, NextFrameInv, PTL DEF Spec
-----------------------------------------------------------------------------
(* The address space.                                                      *)


\* What the theorems ask of the program images: a segment and its file bytes lie
\* in the user region.  elf::load trusts the image for it.
ProgramsFit ==
  \A p \in DOMAIN Programs :
    /\ Programs[p].segs \in Seq([vaddr : Nat, memsz : Nat, bytes : Seq(STRING), w : BOOLEAN])
    /\ \A k \in 1..Len(Programs[p].segs) :
         Programs[p].segs[k].vaddr + Size(Programs[p].segs[k]) <= PAGE_SIZE * UserPages

TableId == {Table(p) : p \in Page} \cup MmioTable

SpaceTypes ==
  /\ pages \in [Page -> Frame \cup {NoFrame}]
  /\ tables \in [TableId -> Frame \cup {NoFrame}]
  /\ DOMAIN mem = Frame
  /\ todo \in Seq(Page)
  /\ frame \in Frame \cup {NoFrame}
  /\ held \subseteq given

\* No two uses of a frame, and a use for every frame that was given.
Apart ==
  /\ \A p \in Page : pages[p] # NoFrame =>
       pages[p] \in given /\ pages[p] # frame /\ pages[p] \notin held
  /\ \A p, q \in Page : pages[p] # NoFrame /\ pages[p] = pages[q] => p = q
  /\ \A t \in TableId : tables[t] # NoFrame =>
       /\ tables[t] \in given /\ tables[t] # frame /\ tables[t] \notin held
       /\ \A p \in Page : pages[p] # tables[t]
  /\ \A t, u \in TableId : tables[t] # NoFrame /\ tables[t] = tables[u] => t = u
  /\ frame # NoFrame => frame \in given /\ frame \notin held

NoLeak ==
  \A f \in given : \/ f = frame
                   \/ f \in held
                   \/ \E p \in Page : pages[p] = f
                   \/ \E t \in TableId : tables[t] = f

\* The loops: what they still have to map, and where.
Loops ==
  /\ pc = "heap" => \A i \in 1..Len(todo) :
       /\ pages[todo[i]] = NoFrame
       /\ \A j \in 1..Len(todo) : todo[i] = todo[j] => i = j
  /\ pc \in {"seg", "stack"} => \A i \in 1..Len(todo) : todo[i] < UserPages
  /\ pc = "seg" => prog \in DOMAIN Programs /\ seg \in 1..Len(Programs[prog].segs)
  /\ frame # NoFrame /\ pc # "panic" => Looping /\ pages[Head(todo)] = NoFrame

\* The heap's pages: on the list or mapped, and once it is ready, mapped and
\* holding what was put there.
HeapSafe ==
  /\ pc = "heap" => \A p \in Heap : pages[p] # NoFrame \/ \E i \in 1..Len(todo) : todo[i] = p
  /\ pc \notin {"off", "heap", "panic"} =>
       \A p \in Heap : pages[p] # NoFrame /\ \A o \in Offset : mem[pages[p]][o] = "heap"

Layout   == SpaceTypes /\ Apart /\ NoLeak /\ Loops /\ HeapSafe
SpaceInv == FrameInv /\ Layout
-----------------------------------------------------------------------------
LEMMA InitSpaceInv == SpaceInit => SpaceInv
  <1> SUFFICES ASSUME SpaceInit PROVE SpaceInv
    OBVIOUS
  <1>1. FrameInv
    BY InitFrameInv DEF SpaceInit
  <1>2. SpaceTypes
    <2>1. todo \in Seq(Page)
      BY DEF SpaceInit
    <2> QED BY <2>1 DEF SpaceInit, SpaceTypes, TableId, Init
  <1>3. Apart /\ NoLeak
    BY DEF SpaceInit, Init, Apart, NoLeak, TableId
  <1>4. Loops /\ HeapSafe
    BY DEF SpaceInit, Loops, HeapSafe
  <1> QED
    BY <1>1, <1>2, <1>3, <1>4 DEF SpaceInv, Layout

\* What alloc_frame answers was nobody's before.
LEMMA Fresh ==
  ASSUME FrameInv, alloc_frame
  PROVE  /\ map' = map
         /\ \/ answer' = NoFrame /\ given' = given
            \/ answer' \in Frame \ given /\ given' = given \cup {answer'}
  BY DEF alloc_frame, first_free, FrameInv, HeldFramesAreMarked

LEMMA Nobody == NoFrame \notin Frame
  BY DEF NoFrame, Frame

\* Boot uses the allocator only through its operations.
LEMMA FrameStep == SpaceInv /\ [SpaceNext]_all => FrameInv'
  <1> SUFFICES ASSUME SpaceInv, [SpaceNext]_all PROVE [Next]_vars
    BY NextFrameInv DEF SpaceInv
  <1>1. CASE SkipMapped \/ map_page \/ heap_ready \/ load \/ copy_segment \/ enter_user \/ exit_user
    BY <1>1 DEF SkipMapped, map_page, heap_ready, load, copy_segment, enter_user, exit_user
  <1>2. CASE TakeFrame \/ TakeTable \/ test_take \/ map_mmio \/ alloc_page
    BY <1>2 DEF TakeFrame, TakeTable, test_take, map_mmio, alloc_page, Next
  <1>3. CASE memory_init
    BY <1>3 DEF memory_init, Next
  <1>4. CASE test_return
    <2>1. PICK f \in held : free_frame(f)
      BY <1>4 DEF test_return
    <2>2. f \in Frame
      BY <2>1 DEF SpaceInv, Layout, SpaceTypes, FrameInv, TypeOK
    <2> QED BY <2>1, <2>2 DEF Next
  <1>5. CASE UNCHANGED all
    BY <1>5 DEF all
  <1> QED
    BY <1>1, <1>2, <1>3, <1>4, <1>5 DEF SpaceNext
-----------------------------------------------------------------------------
(* The page ranges the loops visit.                                        *)

LEMMA UpRange ==
  ASSUME NEW a \in Nat, NEW b \in Int, a <= b + 1
  PROVE  /\ Up(a, b) \in Seq(a..b) /\ Len(Up(a, b)) = b - a + 1
         /\ \A i \in 1..(b - a + 1) : Up(a, b)[i] = a + i - 1
  <1>1. \A i \in 1..(b - a + 1) : a + i - 1 \in a..b
    OBVIOUS
  <1> DEFINE n == b - a + 1
  <1>2. n \in Nat
    OBVIOUS
  <1>3. Up(a, b) = [i \in 1..n |-> a + i - 1]
    BY DEF Up
  <1> HIDE DEF n
  <1>4. Up(a, b) \in [1..n -> a..b]
    BY <1>1, <1>3 DEF n
  <1>5. Up(a, b) \in Seq(a..b) /\ Len(Up(a, b)) = n
    BY <1>2, <1>4
  <1> QED
    BY <1>3, <1>5 DEF n

\* A quotient is bounded by what bounds its dividend.
LEMMA Below ==
  ASSUME NEW d \in Nat \ {0}, NEW n \in Nat, NEW u \in Nat
  PROVE  /\ n < d * u => n \div d < u
         /\ n <= d * u => n \div d <= u
  <1> DEFINE q == n \div d
             r == n % d
  <1>1. q \in Nat /\ r \in 0..(d - 1) /\ n = d * q + r
    BY Division, Zenon
  <1> HIDE DEF q, r
  <1>2. ASSUME n < d * u, u <= q PROVE FALSE
    BY <1>1, <1>2, Monotone
  <1>3. ASSUME n <= d * u, u < q PROVE FALSE
    <2>1. d * (u + 1) <= d * q
      BY <1>1, <1>3, Monotone
    <2> QED BY <1>1, <1>3, <2>1
  <1> QED
    BY <1>1, <1>2, <1>3 DEF q

\* The addresses of a segment.
LEMMA SegAt ==
  ASSUME ProgramsFit, NEW p \in DOMAIN Programs, NEW k \in 1..Len(Programs[p].segs)
  PROVE  /\ Programs[p].segs[k].vaddr \in Nat /\ Programs[p].segs[k].memsz \in Nat
         /\ Size(Programs[p].segs[k]) \in Nat
         /\ Programs[p].segs[k].memsz <= Size(Programs[p].segs[k])
         /\ DOMAIN Image(Programs[p].segs[k])
              = Programs[p].segs[k].vaddr
                  ..(Programs[p].segs[k].vaddr + Size(Programs[p].segs[k]) - 1)
  <1> DEFINE s == Programs[p].segs[k]
             R == [vaddr : Nat, memsz : Nat, bytes : Seq(STRING), w : BOOLEAN]
  <1>1. s \in R
    <2>1. Programs[p].segs \in Seq(R)
      BY DEF ProgramsFit
    <2> HIDE DEF R
    <2> QED BY <2>1
  <1>2. s.vaddr \in Nat /\ s.memsz \in Nat /\ Size(s) \in Nat /\ s.memsz <= Size(s)
    <2> HIDE DEF s
    <2>1. s.vaddr \in Nat /\ s.memsz \in Nat /\ Len(s.bytes) \in Nat
      BY <1>1
    <2> QED BY <2>1 DEF Size
  <1>3. DOMAIN Image(s) = s.vaddr..(s.vaddr + Size(s) - 1)
    <2> HIDE DEF s
    <2> DEFINE S == s.vaddr..(s.vaddr + Size(s) - 1)
               Byte(a) == IF a < s.vaddr + Len(s.bytes) THEN s.bytes[a - s.vaddr + 1] ELSE "0"
    <2>1. Image(s) = [a \in S |-> Byte(a)]
      BY DEF Image
    <2> HIDE DEF S, Byte
    <2>2. DOMAIN Image(s) = S
      BY <2>1
    <2> QED BY <2>2 DEF S
  <1> QED
    BY <1>2, <1>3

\* load() maps a segment's pages in the user region, and writes only there.
LEMMA SegFits ==
  ASSUME ProgramsFit, NEW p \in DOMAIN Programs, NEW k \in 1..Len(Programs[p].segs)
  PROVE  /\ SegPages(Programs[p].segs[k]) \in Seq(0..(UserPages - 1))
         /\ \A a \in DOMAIN Image(Programs[p].segs[k]) : a \div PAGE_SIZE \in 0..(UserPages - 1)
  <1> USE FrameAssumption, SpaceAssumption DEF FrameAssumption, SpaceAssumption
  <1> DEFINE s  == Programs[p].segs[k]
             lo == s.vaddr
             hi == s.vaddr + s.memsz
             top == s.vaddr + Size(s)
             b  == (hi + PAGE_SIZE - 1) \div PAGE_SIZE
             a0 == lo \div PAGE_SIZE
  <1>1. /\ lo \in Nat /\ hi \in Nat /\ top \in Nat /\ lo <= hi /\ hi <= top
        /\ top <= PAGE_SIZE * UserPages
    <2>1. s.vaddr \in Nat /\ s.memsz \in Nat /\ Size(s) \in Nat /\ s.memsz <= Size(s)
      BY SegAt
    <2>2. s.vaddr + Size(s) <= PAGE_SIZE * UserPages
      BY Zenon DEF ProgramsFit
    <2> DEFINE z == Size(s)
    <2> HIDE DEF s, z
    <2> QED BY <2>1, <2>2 DEF z
  <1>2. SegPages(s) = Up(a0, b - 1) /\ DOMAIN Image(s) = lo..(top - 1)
    <2>1. DOMAIN Image(s) = s.vaddr..(s.vaddr + Size(s) - 1)
      BY SegAt
    <2>3. DOMAIN Image(s) = lo..(top - 1)
      <3> DEFINE z == Size(s)
      <3>1. s.vaddr \in Nat /\ z \in Nat
        BY SegAt
      <3> HIDE DEF s, z
      <3>2. s.vaddr + (z - 1) = (s.vaddr + z) - 1
        BY <3>1
      <3> QED BY <2>1, <3>2 DEF z
    <2> HIDE DEF s
    <2>2. SegPages(s) = Up(a0, b - 1)
      BY DEF SegPages
    <2> QED BY <2>2, <2>3
  <1> HIDE DEF s, lo, hi, top
  <1>3. b \in Nat /\ b <= UserPages
    <2> DEFINE n == hi + PAGE_SIZE - 1
    <2>1. n \in Nat /\ UserPages + 1 \in Nat /\ n < PAGE_SIZE * (UserPages + 1)
      BY <1>1
    <2> HIDE DEF n
    <2>2. n \div PAGE_SIZE < UserPages + 1
      BY <2>1, Below, Zenon
    <2>3. n \div PAGE_SIZE \in Nat
      BY <2>1, Division, Zenon
    <2> QED BY <2>2, <2>3 DEF n
  <1>4. a0 \in Nat /\ a0 <= b
    <2>1. a0 \in Nat
      BY <1>1, Division, Zenon
    <2>2. lo <= PAGE_SIZE * b
      <3> DEFINE n == hi + PAGE_SIZE - 1
      <3>1. n \in Nat
        BY <1>1
      <3> HIDE DEF n
      <3>2. n % PAGE_SIZE \in 0..(PAGE_SIZE - 1) /\ n = PAGE_SIZE * (n \div PAGE_SIZE) + (n % PAGE_SIZE)
        BY <3>1, Division, Zenon
      <3> DEFINE c == PAGE_SIZE * (n \div PAGE_SIZE)
      <3>3. c \in Nat
        <4> DEFINE q == n \div PAGE_SIZE
        <4>1. q \in Nat
          BY <3>1, Division, Zenon
        <4> HIDE DEF q
        <4>2. PAGE_SIZE * q \in Nat
          BY <4>1
        <4> QED BY <4>2 DEF q
      <3>4. n < c + PAGE_SIZE
        <4> HIDE DEF c
        <4> QED BY <3>2, <3>3 DEF c
      <3> HIDE DEF c
      <3>5. lo <= c
        BY <1>1, <3>3, <3>4 DEF n
      <3> QED BY <3>5 DEF c, n
    <2> HIDE DEF b
    <2> QED BY <1>1, <1>3, <2>1, <2>2, Below
  <1> HIDE DEF a0, b
  <1>5. SegPages(s) \in Seq(0..(UserPages - 1))
    <2>1. Up(a0, b - 1) \in Seq(a0..(b - 1))
      BY <1>3, <1>4, UpRange
    <2> QED BY <1>2, <1>3, <1>4, <2>1
  <1>6. ASSUME NEW a \in lo..(top - 1) PROVE a \div PAGE_SIZE \in 0..(UserPages - 1)
    <2>1. a \in Nat /\ a < PAGE_SIZE * UserPages
      BY <1>1
    <2>2. a \div PAGE_SIZE \in Nat /\ a \div PAGE_SIZE < UserPages
      BY <2>1, Below, Division, Zenon
    <2> QED BY <2>2
  <1> QED
    BY <1>2, <1>5, <1>6, Zenon DEF s

LEMMA StackFits == Stack \in Seq(0..(UserPages - 1))
  <1>1. \A i \in 1..StackPages : UserPages - i \in 0..(UserPages - 1)
    BY SpaceAssumption DEF SpaceAssumption
  <1>2. StackPages \in Nat
    BY SpaceAssumption DEF SpaceAssumption
  <1> QED
    BY <1>1, <1>2 DEF Stack

\* The user region and the heap are disjoint parts of the page numbers.
LEMMA Regions ==
  /\ 0..(UserPages - 1) \subseteq Page /\ Heap \subseteq Page
  /\ \A p \in 0..(UserPages - 1) : p \notin Heap
  /\ \A p \in Page : p < UserPages => p \notin Heap
  BY SpaceAssumption DEF SpaceAssumption, Page, Heap
LEMMA Widen ==
  ASSUME NEW S, NEW T, S \subseteq T, NEW q \in Seq(S)
  PROVE  q \in Seq(T)
  <1>1. q \in [1..Len(q) -> T] /\ Len(q) \in Nat
    OBVIOUS
  <1> QED
    BY <1>1

LEMMA HeadTail ==
  ASSUME NEW S, NEW q \in Seq(S), q # <<>>
  PROVE  /\ 1 \in 1..Len(q) /\ Head(q) = q[1] /\ Head(q) \in S
         /\ Tail(q) \in Seq(S)
         /\ \A i \in 1..Len(Tail(q)) : i + 1 \in 1..Len(q) /\ Tail(q)[i] = q[i + 1]
         /\ \A i \in 1..Len(q) : i = 1 \/ (i - 1 \in 1..Len(Tail(q)) /\ Tail(q)[i - 1] = q[i])
  OBVIOUS
-----------------------------------------------------------------------------
(* Every step keeps the layout: first the steps that map a page.           *)

LEMMA SkipMappedKeeps ==
  ASSUME SpaceInv, SkipMapped PROVE Layout'
  <1> USE DEF SpaceInv, Layout, SkipMapped, job, space, vars
  <1>1. todo \in Seq(Page) /\ todo # <<>> /\ pc \in {"seg", "stack"}
    BY DEF SpaceTypes, Looping, AlreadyMapped
  <1>2. /\ Tail(todo) \in Seq(Page)
        /\ \A i \in 1..Len(Tail(todo)) : i + 1 \in 1..Len(todo) /\ Tail(todo)[i] = todo[i + 1]
    BY <1>1, HeadTail
  <1>3. SpaceTypes' /\ Apart' /\ NoLeak'
    BY <1>2 DEF SpaceTypes, Apart, NoLeak
  <1>4. Loops'
    BY <1>1, <1>2 DEF Loops
  <1>5. HeapSafe'
    BY <1>1 DEF HeapSafe
  <1> QED
    BY <1>3, <1>4, <1>5

LEMMA TakeFrameKeeps ==
  ASSUME SpaceInv, TakeFrame PROVE Layout'
  <1> USE DEF SpaceInv, Layout, TakeFrame, job, space
  <1>1. \/ answer' = NoFrame /\ given' = given
        \/ answer' \in Frame \ given /\ given' = given \cup {answer'}
    BY Fresh
  <1>2. CASE answer' = NoFrame /\ given' = given
    <2>1. SpaceTypes' /\ Apart' /\ NoLeak'
      BY <1>2 DEF SpaceTypes, Apart, NoLeak
    <2>2. Loops' /\ HeapSafe'
      BY <1>2 DEF Loops, HeapSafe
    <2> QED BY <2>1, <2>2
  <1>3. CASE answer' \in Frame \ given /\ given' = given \cup {answer'}
    <2>1. frame' = answer' /\ pc' = pc /\ frame = NoFrame
      BY <1>3, Nobody
    <2>2. SpaceTypes'
      BY <1>3, <2>1 DEF SpaceTypes
    <2>3. Apart'
      BY <1>3, <2>1 DEF Apart, SpaceTypes
    <2>4. NoLeak'
      BY <1>3, <2>1, Nobody DEF NoLeak, FrameInv, TypeOK
    <2>5. pages[Head(todo)] = NoFrame
      <3>1. CASE pc # "heap"
        BY <3>1 DEF AlreadyMapped
      <3>2. CASE pc = "heap"
        <4>1. 1 \in 1..Len(todo) /\ Head(todo) = todo[1]
          BY HeadTail DEF Looping, SpaceTypes
        <4> QED BY <3>2, <4>1 DEF Loops
      <3> QED BY <3>1, <3>2
    <2>6. Loops'
      BY <2>1, <2>5 DEF Loops, Looping
    <2>7. HeapSafe'
      BY <2>1 DEF HeapSafe
    <2> QED BY <2>2, <2>3, <2>4, <2>6, <2>7
  <1> QED
    BY <1>1, <1>2, <1>3

\* A frame for a missing page table.
LEMMA TableKeeps ==
  ASSUME SpaceInv, alloc_frame, NEW t \in TableId, tables[t] = NoFrame,
         IF answer' = NoFrame
           THEN pc' = "panic" /\ UNCHANGED <<tables, mem>>
           ELSE /\ tables' = [tables EXCEPT ![t] = answer']
                /\ mem' = Fill(mem, answer', "pte")
                /\ pc' = pc,
         UNCHANGED <<pages, todo, frame, held, prog, seg>>
  PROVE  Layout'
  <1> USE DEF SpaceInv, Layout
  <1>1. \/ answer' = NoFrame /\ given' = given
        \/ answer' \in Frame \ given /\ given' = given \cup {answer'}
    BY Fresh
  <1>2. CASE answer' = NoFrame /\ given' = given
    <2>1. SpaceTypes' /\ Apart' /\ NoLeak'
      BY <1>2 DEF SpaceTypes, Apart, NoLeak
    <2>2. Loops' /\ HeapSafe'
      BY <1>2 DEF Loops, HeapSafe
    <2> QED BY <2>1, <2>2
  <1>3. CASE answer' \in Frame \ given /\ given' = given \cup {answer'}
    <2>2. /\ tables' = [tables EXCEPT ![t] = answer'] /\ mem' = Fill(mem, answer', "pte")
          /\ pc' = pc
      BY <1>3, Nobody
    <2>3. SpaceTypes'
      BY <1>3, <2>2 DEF SpaceTypes, Fill
    <2>4. \A u \in TableId : tables'[u] = IF u = t THEN answer' ELSE tables[u]
      BY <2>2 DEF SpaceTypes
    <2>5. answer' # NoFrame /\ answer' # frame /\ answer' \notin held
          /\ (\A p \in Page : pages[p] # answer') /\ \A u \in TableId : tables[u] # answer'
      BY <1>3, Nobody DEF Apart, SpaceTypes
    <2>6. Apart'
      BY <1>3, <2>4, <2>5 DEF Apart
    <2>7. NoLeak'
      <3> SUFFICES ASSUME NEW f \in given'
                   PROVE  \/ f = frame \/ f \in held \/ \E p \in Page : pages[p] = f
                          \/ \E u \in TableId : tables'[u] = f
        BY DEF NoLeak
      <3>1. CASE f = answer'
        BY <2>4, <3>1
      <3>2. CASE f \in given
        <4>1. f # NoFrame
          BY <3>2, Nobody DEF FrameInv, TypeOK
        <4> QED BY <2>4, <3>2, <4>1 DEF NoLeak
      <3> QED BY <1>3, <3>1, <3>2
    <2>8. Loops'
      BY <2>2 DEF Loops, Looping
    <2>9. HeapSafe'
      BY <1>3, <2>2, <2>5, Regions DEF HeapSafe, Fill, SpaceTypes
    <2> QED BY <2>3, <2>6, <2>7, <2>8, <2>9
  <1> QED
    BY <1>1, <1>2, <1>3

LEMMA TakeTableKeeps ==
  ASSUME SpaceInv, TakeTable PROVE Layout'
  <1>1. Head(todo) \in Page
    BY HeadTail DEF SpaceInv, Layout, SpaceTypes, TakeTable, Looping
  <1>2. Table(Head(todo)) \in TableId
    BY <1>1 DEF TableId
  <1> QED
    BY <1>2, TableKeeps, Zenon DEF TakeTable, job

LEMMA MapMmioKeeps ==
  ASSUME SpaceInv, map_mmio PROVE Layout'
  <1>1. PICK t \in MmioTable :
          /\ tables[t] = NoFrame
          /\ IF answer' = NoFrame
               THEN pc' = "panic" /\ UNCHANGED <<tables, mem>>
               ELSE /\ tables' = [tables EXCEPT ![t] = answer']
                    /\ mem' = Fill(mem, answer', "pte")
                    /\ UNCHANGED pc
    BY Zenon DEF map_mmio
  <1>2. t \in TableId
    BY Zenon DEF TableId
  <1> QED
    BY <1>1, <1>2, TableKeeps, Zenon DEF map_mmio, job

LEMMA MapPageKeeps ==
  ASSUME SpaceInv, map_page PROVE Layout'
  <1> USE DEF SpaceInv, Layout, map_page, job, vars
  <1> DEFINE h == Head(todo)
  <1>1. /\ todo \in Seq(Page) /\ todo # <<>> /\ pc \in {"heap", "seg", "stack"}
        /\ frame \in Frame /\ frame # NoFrame
    BY DEF SpaceTypes, Looping
  <1>2. /\ 1 \in 1..Len(todo) /\ h = todo[1] /\ h \in Page
        /\ Tail(todo) \in Seq(Page)
        /\ \A i \in 1..Len(Tail(todo)) : i + 1 \in 1..Len(todo) /\ Tail(todo)[i] = todo[i + 1]
        /\ \A i \in 1..Len(todo) :
             i = 1 \/ (i - 1 \in 1..Len(Tail(todo)) /\ Tail(todo)[i - 1] = todo[i])
    BY <1>1, HeadTail
  <1>3. pages[h] = NoFrame
    BY <1>1 DEF Loops
  <1>4. pages' = [pages EXCEPT ![h] = frame] /\ todo' = Tail(todo) /\ frame' = NoFrame
    OBVIOUS
  <1> HIDE DEF h
  <1>5. \A p \in Page : pages'[p] = IF p = h THEN frame ELSE pages[p]
    BY <1>2, <1>4 DEF SpaceTypes
  <1>6. \A f \in Frame : f # frame => mem'[f] = mem[f]
    BY DEF SpaceTypes, Fill
  <1>7. SpaceTypes'
    BY <1>1, <1>2, <1>4 DEF SpaceTypes, Fill
  <1>8. Apart'
    <2>1. /\ Apart /\ UNCHANGED <<given, held, tables>>
          /\ frame' = NoFrame /\ frame # NoFrame /\ frame \in given /\ frame \notin held
      BY <1>1 DEF Apart
    <2>2. ASSUME NEW t \in TableId, tables[t] # NoFrame
          PROVE  \A p \in Page : pages'[p] # tables[t]
      BY <1>5, <2>1, <2>2 DEF Apart
    <2>3. ASSUME NEW p \in Page, NEW q \in Page, pages'[p] # NoFrame, pages'[p] = pages'[q]
          PROVE  p = q
      BY <1>5, <2>1, <2>3 DEF Apart
    <2>4. ASSUME NEW p \in Page, pages'[p] # NoFrame
          PROVE  pages'[p] \in given /\ pages'[p] \notin held
      BY <1>5, <2>1, <2>4 DEF Apart
    <2> QED BY <2>1, <2>2, <2>3, <2>4 DEF Apart
  <1>9. NoLeak'
    <2> SUFFICES ASSUME NEW f \in given
                 PROVE  \/ f \in held \/ \E p \in Page : pages'[p] = f
                        \/ \E t \in TableId : tables[t] = f
      BY DEF NoLeak
    <2>1. f # NoFrame
      BY Nobody DEF FrameInv, TypeOK
    <2> QED BY <1>2, <1>3, <1>5, <2>1 DEF NoLeak
  <1>10. Loops'
    <2>1. ASSUME pc' = "heap", NEW i \in 1..Len(todo')
          PROVE  /\ pages'[todo'[i]] = NoFrame
                 /\ \A j \in 1..Len(todo') : todo'[i] = todo'[j] => i = j
      <3>1. pc = "heap"
        BY <2>1
      <3>2. i + 1 \in 1..Len(todo) /\ todo'[i] = todo[i + 1] /\ todo[i + 1] \in Page
        BY <1>1, <1>2, <1>4, <2>1
      <3>3. todo[i + 1] # h
        BY <1>2, <3>1, <3>2, <2>1 DEF Loops
      <3>4. pages'[todo'[i]] = NoFrame
        BY <1>5, <3>1, <3>2, <3>3 DEF Loops
      <3>5. \A j \in 1..Len(todo') : todo'[i] = todo'[j] => i + 1 = j + 1
        BY <1>2, <1>4, <3>1, <3>2 DEF Loops
      <3> QED BY <3>4, <3>5, <2>1
    <2>2. pc' \in {"seg", "stack"} => \A i \in 1..Len(todo') : todo'[i] < UserPages
      BY <1>2, <1>4 DEF Loops
    <2>3. pc' = "seg" => prog' \in DOMAIN Programs /\ seg' \in 1..Len(Programs[prog'].segs)
      BY DEF Loops
    <2> QED BY <1>4, <2>1, <2>2, <2>3 DEF Loops
  <1>11. HeapSafe'
    <2>1. ASSUME pc' = "heap", NEW p \in Heap
          PROVE  pages'[p] # NoFrame \/ \E i \in 1..Len(todo') : todo'[i] = p
      <3>1. pc = "heap" /\ p \in Page
        BY <2>1, Regions
      <3>2. CASE pages[p] # NoFrame
        BY <1>1, <1>5, <3>1, <3>2
      <3>3. ASSUME NEW i \in 1..Len(todo), todo[i] = p
            PROVE  pages'[p] # NoFrame \/ \E k \in 1..Len(todo') : todo'[k] = p
        BY <1>1, <1>2, <1>4, <1>5, <3>1, <3>3
      <3> QED BY <2>1, <3>1, <3>2, <3>3 DEF HeapSafe
    <2>2. ASSUME pc' \notin {"off", "heap", "panic"}, NEW p \in Heap
          PROVE  pages'[p] # NoFrame /\ \A o \in Offset : mem'[pages'[p]][o] = "heap"
      <3>1. pc \in {"seg", "stack"} /\ p \in Page /\ p # h
        BY <1>1, <1>2, <2>2, Regions DEF Loops
      <3>2. pages'[p] = pages[p] /\ pages[p] # NoFrame /\ pages[p] # frame /\ pages[p] \in Frame
        BY <1>5, <3>1 DEF HeapSafe, Apart, SpaceTypes
      <3>3. mem'[pages[p]] = mem[pages[p]]
        BY <1>6, <3>2
      <3> QED BY <3>1, <3>2, <3>3 DEF HeapSafe
    <2> QED BY <2>1, <2>2 DEF HeapSafe
  <1> QED
    BY <1>7, <1>8, <1>9, <1>10, <1>11
-----------------------------------------------------------------------------
(* Boot: the heap, the self-test and the card.                             *)

LEMMA MemoryInitKeeps ==
  ASSUME SpaceInv, memory_init PROVE Layout'
  <1> USE DEF SpaceInv, Layout, memory_init, job, space
  <1> DEFINE b == UserPages + HeapPages - 1
  <1>1. given = {} /\ given' = {}
    BY DEF init, FrameInv
  <1>2. \A p \in Page : pages[p] = NoFrame
    BY <1>1 DEF Apart
  <1>3. /\ todo' \in Seq(UserPages..b) /\ Len(todo') = HeapPages
        /\ \A i \in 1..HeapPages : todo'[i] = UserPages + i - 1
    <2>1. UserPages \in Nat /\ HeapPages \in Nat /\ b \in Int /\ UserPages <= b + 1
          /\ b - UserPages + 1 = HeapPages
      BY SpaceAssumption DEF SpaceAssumption
    <2>2. todo' = Up(UserPages, b)
      OBVIOUS
    <2> HIDE DEF b
    <2> QED BY <2>1, <2>2, UpRange, Zenon
  <1>4. todo' \in Seq(Page)
    <2> DEFINE R == UserPages..b
    <2>1. R \subseteq Page /\ todo' \in Seq(R)
      BY <1>3, Regions DEF Heap
    <2> HIDE DEF R
    <2> QED BY <2>1, Widen
  <1>5. frame = NoFrame
    BY <1>1 DEF Apart
  <1>6. SpaceTypes' /\ Apart' /\ NoLeak'
    BY <1>1, <1>4 DEF SpaceTypes, Apart, NoLeak
  <1>7. Loops'
    <2>1. \A i \in 1..Len(todo') : todo'[i] \in Page
      BY <1>4
    <2>2. \A i, j \in 1..Len(todo') : todo'[i] = todo'[j] => i = j
      BY <1>3, SpaceAssumption DEF SpaceAssumption
    <2> QED BY <1>2, <1>5, <2>1, <2>2 DEF Loops
  <1>8. HeapSafe'
    <2>1. ASSUME NEW p \in Heap PROVE \E i \in 1..Len(todo') : todo'[i] = p
      <3>1. p - UserPages + 1 \in 1..HeapPages /\ UserPages + (p - UserPages + 1) - 1 = p
        BY SpaceAssumption DEF SpaceAssumption, Heap
      <3> QED BY <1>3, <3>1
    <2> QED BY <2>1 DEF HeapSafe
  <1> QED
    BY <1>6, <1>7, <1>8
LEMMA HeapReadyKeeps ==
  ASSUME SpaceInv, heap_ready PROVE Layout'
  <1> USE DEF SpaceInv, Layout, heap_ready, vars
  <1>1. SpaceTypes' /\ Apart' /\ NoLeak'
    BY DEF SpaceTypes, Apart, NoLeak
  <1>2. Loops'
    BY DEF Loops, Looping
  <1>3. ASSUME NEW p \in Heap
        PROVE  pages[p] # NoFrame /\ \A o \in Offset : mem'[pages[p]][o] = "heap"
    <2>1. Len(todo) = 0
      OBVIOUS
    <2>2. pages[p] # NoFrame /\ pages[p] \in Frame
      BY <2>1, Regions DEF HeapSafe, SpaceTypes
    <2> QED BY <2>2
  <1>4. HeapSafe'
    <2>1. pc' = "test" /\ pages' = pages
      OBVIOUS
    <2> HIDE DEF heap_ready, SpaceInv, Layout
    <2> QED BY <1>3, <2>1 DEF HeapSafe
  <1> QED
    BY <1>1, <1>2, <1>4

\* memory_self_test and build_nic keep what they take in `held`.
LEMMA HoldKeeps ==
  ASSUME SpaceInv, alloc_frame, UNCHANGED <<pages, tables, todo, frame, prog, seg>>,
         held' = IF answer' = NoFrame THEN held ELSE held \cup {answer'},
         pc \in {"test", "run"}, pc' \in {"test", "untest", "run", "panic"},
         mem' \in {mem, Fill(mem, answer', "dma")}, answer' = NoFrame => mem' = mem
  PROVE  Layout'
  <1> USE DEF SpaceInv, Layout
  <1>1. \/ answer' = NoFrame /\ given' = given
        \/ answer' \in Frame \ given /\ given' = given \cup {answer'}
    BY Fresh
  <1>2. frame = NoFrame
    BY DEF Loops, Looping
  <1>3. CASE answer' = NoFrame /\ given' = given
    <2>1. SpaceTypes' /\ Apart' /\ NoLeak'
      BY <1>3 DEF SpaceTypes, Apart, NoLeak
    <2>2. Loops' /\ HeapSafe'
      BY <1>2, <1>3 DEF Loops, HeapSafe
    <2> QED BY <2>1, <2>2
  <1>4. CASE answer' \in Frame \ given /\ given' = given \cup {answer'}
    <2>1. held' = held \cup {answer'}
      BY <1>4, Nobody
    <2>2. SpaceTypes'
      <3>1. SpaceTypes
        OBVIOUS
      <3> HIDE DEF SpaceInv, Layout
      <3>2. DOMAIN mem' = Frame
        BY <3>1 DEF SpaceTypes, Fill
      <3>3. held' \subseteq given'
        BY <1>4, <2>1, <3>1 DEF SpaceTypes
      <3> QED BY <3>1, <3>2, <3>3 DEF SpaceTypes
    <2>3. (\A p \in Page : pages[p] # answer') /\ \A t \in TableId : tables[t] # answer'
      <3>1. Apart /\ answer' # NoFrame /\ answer' \notin given
        BY <1>4, Nobody
      <3> HIDE DEF SpaceInv, Layout
      <3> QED BY <3>1 DEF Apart
    <2>4. Apart'
      BY <1>2, <1>4, <2>1, <2>3 DEF Apart
    <2>5. NoLeak'
      BY <1>4, <2>1 DEF NoLeak
    <2>6. Loops'
      BY <1>2 DEF Loops
    <2>7. HeapSafe'
      BY <1>4, <2>3, Regions DEF HeapSafe, Fill, SpaceTypes
    <2> QED BY <2>2, <2>4, <2>5, <2>6, <2>7
  <1> QED
    BY <1>1, <1>3, <1>4

LEMMA TestReturnKeeps ==
  ASSUME SpaceInv, test_return PROVE Layout'
  <1> USE DEF SpaceInv, Layout, test_return, space
  <1>1. PICK f \in held : free_frame(f) /\ held' = held \ {f}
    OBVIOUS
  <1>2. given' = given \ {f}
    BY <1>1 DEF free_frame
  <1>3. frame = NoFrame
    BY DEF Loops, Looping
  <1>4. SpaceTypes'
    BY <1>1, <1>2 DEF SpaceTypes
  <1>5. Apart'
    <2>1. UNCHANGED <<pages, tables, frame>> /\ Apart
      BY DEF space
    <2> HIDE DEF SpaceInv, Layout, test_return
    <2> QED BY <1>1, <1>2, <1>3, <2>1 DEF Apart
  <1>6. NoLeak'
    BY <1>1, <1>2 DEF NoLeak
  <1>7. Loops' /\ HeapSafe'
    BY <1>3 DEF Loops, HeapSafe
  <1> QED
    BY <1>4, <1>5, <1>6, <1>7
-----------------------------------------------------------------------------
(* Loading and running programs.                                           *)

\* Wherever the loop over the program headers arrives, its next pages are in
\* the user region.
LEMMA ArriveKeeps ==
  ASSUME ProgramsFit, NEW p \in DOMAIN Programs, NEW k \in Nat \ {0}, Arrive(p, k),
         frame = NoFrame, frame' = NoFrame
  PROVE  todo' \in Seq(Page) /\ Loops' /\ pc' \in {"seg", "stack"}
  <1>1. todo' \in Seq(0..(UserPages - 1)) /\ pc' \in {"seg", "stack"}
    <2>1. CASE k <= Len(Programs[p].segs)
      <3>1. k \in 1..Len(Programs[p].segs)
        BY <2>1 DEF ProgramsFit
      <3> QED BY <2>1, <3>1, SegFits DEF Arrive
    <2>2. CASE ~(k <= Len(Programs[p].segs))
      BY <2>2, StackFits DEF Arrive
    <2> QED BY <2>1, <2>2
  <1>2. todo' \in Seq(Page)
    <2> DEFINE R == 0..(UserPages - 1)
    <2>1. R \subseteq Page /\ todo' \in Seq(R)
      BY <1>1, Regions
    <2> HIDE DEF R
    <2> QED BY <2>1, Widen
  <1>3. \A i \in 1..Len(todo') : todo'[i] < UserPages
    BY <1>1, SpaceAssumption DEF SpaceAssumption
  <1>4. pc' = "seg" => prog' \in DOMAIN Programs /\ seg' \in 1..Len(Programs[prog'].segs)
    BY DEF Arrive, ProgramsFit
  <1> QED
    BY <1>1, <1>2, <1>3, <1>4 DEF Loops
LEMMA LoadKeeps ==
  ASSUME ProgramsFit, SpaceInv, load PROVE Layout'
  <1> USE DEF SpaceInv, Layout, load, vars, space
  <1>1. frame = NoFrame /\ pc = "run"
    BY DEF Loops, Looping
  <1>2. CASE UNCHANGED <<prog, seg, pc, todo, w>>
    <2>1. SpaceTypes' /\ Apart' /\ NoLeak'
      BY <1>2 DEF SpaceTypes, Apart, NoLeak
    <2>2. Loops' /\ HeapSafe'
      BY <1>1, <1>2 DEF Loops, HeapSafe
    <2> QED BY <2>1, <2>2
  <1>3. ASSUME NEW p \in DOMAIN Programs, Arrive(p, 1) PROVE Layout'
    <2>1. todo' \in Seq(Page) /\ Loops' /\ pc' \in {"seg", "stack"}
      BY <1>1, <1>3, ArriveKeeps
    <2>2. SpaceTypes' /\ Apart' /\ NoLeak'
      BY <2>1 DEF SpaceTypes, Apart, NoLeak
    <2>3. HeapSafe'
      BY <1>1, <2>1 DEF HeapSafe
    <2> QED BY <2>1, <2>2, <2>3
  <1> QED
    BY <1>2, <1>3

LEMMA CopySegmentKeeps ==
  ASSUME ProgramsFit, SpaceInv, copy_segment PROVE Layout'
  <1> USE DEF SpaceInv, Layout, copy_segment, vars
  <1>1. frame = NoFrame /\ pc = "seg"
    BY DEF Loops, Looping
  <1>2. /\ prog \in DOMAIN Programs /\ seg \in 1..Len(Programs[prog].segs)
        /\ seg + 1 \in Nat \ {0}
    <2>1. Loops /\ pc = "seg"
      BY <1>1
    <2>2. prog \in DOMAIN Programs /\ seg \in 1..Len(Programs[prog].segs)
      BY <2>1, Zenon DEF Loops
    <2> QED BY <2>2
  <1>0. CASE ~Reachable(Segment)
    <2>1. pc' = "panic" /\ UNCHANGED <<mem, todo, prog, seg>>
      BY <1>0
    <2>2. SpaceTypes' /\ Apart' /\ NoLeak'
      BY <2>1 DEF SpaceTypes, Apart, NoLeak
    <2>3. Loops' /\ HeapSafe'
      BY <1>1, <2>1 DEF Loops, HeapSafe
    <2> QED BY <2>2, <2>3
  <1> SUFFICES ASSUME Reachable(Segment) PROVE Layout'
    BY <1>0
  <1>3. todo' \in Seq(Page) /\ Loops' /\ pc' \in {"seg", "stack"}
    BY <1>1, <1>2, ArriveKeeps
  <1>4. SpaceTypes'
    <2>1. DOMAIN mem' = Frame
      BY DEF Writes
    <2> QED BY <1>3, <2>1 DEF SpaceTypes
  <1>5. Apart' /\ NoLeak'
    BY DEF Apart, NoLeak
  <1>6. ASSUME NEW p \in Heap, NEW o \in Offset
        PROVE  mem'[pages[p]][o] = "heap"
    <2> DEFINE f == pages[p]
               hit == {a \in DOMAIN Image(Segment) :
                         pages[a \div PAGE_SIZE] = f /\ a % PAGE_SIZE = o}
    <2>1. f \in Frame /\ f # NoFrame /\ mem[f][o] = "heap"
      <3>1. pc = "seg" /\ HeapSafe /\ SpaceTypes
        BY <1>1
      <3> HIDE DEF SpaceInv, Layout, copy_segment
      <3>2. pages[p] # NoFrame /\ mem[pages[p]][o] = "heap"
        BY <3>1 DEF HeapSafe
      <3>3. pages[p] \in Frame
        BY <3>1, <3>2, Regions DEF SpaceTypes
      <3> QED BY <3>2, <3>3
    <2>2. hit = {}
      <3>1. SUFFICES ASSUME NEW a \in DOMAIN Image(Segment), pages[a \div PAGE_SIZE] = f
                     PROVE  FALSE
        OBVIOUS
      <3>2. a \div PAGE_SIZE \in 0..(UserPages - 1)
        BY <1>2, <3>1, SegFits DEF Segment
      <3> DEFINE q == a \div PAGE_SIZE
      <3>3. q \in Page /\ q \notin Heap /\ p \in Page
        BY <3>2, Regions
      <3>4. pages[q] = f
        BY <3>1
      <3> HIDE DEF q
      <3> QED BY <2>1, <3>3, <3>4 DEF Apart
    <2>3. Writes(Segment)[f][o] = IF hit = {} THEN mem[f][o] ELSE Image(Segment)[CHOOSE a \in hit : TRUE]
      BY <2>1 DEF Writes
    <2> HIDE DEF f, hit
    <2> QED BY <2>1, <2>2, <2>3 DEF f
  <1>7. HeapSafe'
    BY <1>1, <1>3, <1>6 DEF HeapSafe
  <1> QED
    BY <1>3, <1>4, <1>5, <1>7

LEMMA EnterUserKeeps ==
  ASSUME SpaceInv, enter_user PROVE Layout'
  <1> USE DEF SpaceInv, Layout, enter_user, vars, space, job
  <1>1. frame = NoFrame /\ pc = "stack"
    BY DEF Loops, Looping
  <1>2. SpaceTypes' /\ Apart' /\ NoLeak'
    BY DEF SpaceTypes, Apart, NoLeak
  <1>3. Loops' /\ HeapSafe'
    BY <1>1 DEF Loops, HeapSafe
  <1> QED
    BY <1>2, <1>3

\* A program reaches its own pages only, and no frame backs two pages.
LEMMA ExitUserKeeps ==
  ASSUME SpaceInv, exit_user PROVE Layout'
  <1> USE DEF SpaceInv, Layout, exit_user, vars, job
  <1>1. frame = NoFrame /\ pc = "user"
    BY DEF Loops, Looping
  <1>2. SpaceTypes' /\ Apart' /\ NoLeak'
    BY DEF SpaceTypes, Apart, NoLeak
  <1>3. Loops'
    BY <1>1 DEF Loops
  <1>4. ASSUME NEW p \in Heap PROVE mem'[pages[p]] = mem[pages[p]]
    <2>1. pages[p] \in Frame /\ pages[p] # NoFrame /\ p \in Page
      BY <1>1, Regions DEF HeapSafe, SpaceTypes
    <2>2. ~\E q \in Page \ Heap : pages[q] = pages[p]
      BY <2>1 DEF Apart
    <2> QED BY <2>1, <2>2
  <1>5. HeapSafe'
    <2>1. pc' = "run" /\ pages' = pages /\ HeapSafe
      OBVIOUS
    <2> HIDE DEF SpaceInv, Layout, exit_user
    <2>2. ASSUME NEW p \in Heap
          PROVE  pages[p] # NoFrame /\ \A o \in Offset : mem[pages[p]][o] = "heap"
      BY <1>1, <2>1 DEF HeapSafe
    <2>3. ASSUME NEW p \in Heap, NEW o \in Offset PROVE mem'[pages'[p]][o] = "heap"
      BY <1>4, <2>1, <2>2
    <2> QED BY <2>1, <2>2, <2>3 DEF HeapSafe
  <1> QED
    BY <1>2, <1>3, <1>5
-----------------------------------------------------------------------------
LEMMA NextSpaceInv ==
  ASSUME ProgramsFit
  PROVE  SpaceInv /\ [SpaceNext]_all => SpaceInv'
  <1> SUFFICES ASSUME SpaceInv, [SpaceNext]_all PROVE Layout'
    BY FrameStep DEF SpaceInv
  <1>1. CASE SkipMapped \/ TakeFrame \/ TakeTable \/ map_page
    BY <1>1, SkipMappedKeeps, TakeFrameKeeps, TakeTableKeeps, MapPageKeeps
  <1>2. CASE memory_init \/ heap_ready \/ test_return
    BY <1>2, MemoryInitKeeps, HeapReadyKeeps, TestReturnKeeps
  <1>3. CASE test_take
    <2>1. mem' = mem /\ pc' \in {"test", "untest", "run", "panic"}
      BY <1>3 DEF test_take, space
    <2> QED BY <1>3, <2>1, HoldKeeps DEF test_take, space
  <1>4. CASE alloc_page
    <2>1. mem' \in {mem, Fill(mem, answer', "dma")} /\ (answer' = NoFrame => mem' = mem)
      BY <1>4 DEF alloc_page
    <2>2. pc' \in {"test", "untest", "run", "panic"}
      BY <1>4 DEF alloc_page
    <2> QED BY <1>4, <2>1, <2>2, HoldKeeps DEF alloc_page
  <1>5. CASE load \/ copy_segment \/ enter_user \/ exit_user \/ map_mmio
    BY <1>5, LoadKeeps, CopySegmentKeeps, EnterUserKeeps, ExitUserKeeps, MapMmioKeeps
  <1>6. CASE UNCHANGED all
    <2>1. SpaceTypes' /\ Apart' /\ NoLeak'
      BY <1>6 DEF SpaceInv, Layout, SpaceTypes, Apart, NoLeak, all, vars, space, job
    <2>2. Loops' /\ HeapSafe'
      BY <1>6 DEF SpaceInv, Layout, Loops, Looping, HeapSafe, all, vars, space, job
    <2> QED BY <2>1, <2>2 DEF Layout
  <1> QED
    BY <1>1, <1>2, <1>3, <1>4, <1>5, <1>6 DEF SpaceNext

\* The heap keeps its contents: page tables, program images, stacks, programs
\* and the card's buffers are all somewhere else.
THEOREM HeapSurvives ==
  ASSUME ProgramsFit
  PROVE  SpaceSpec => []HeapIntact
  <1>1. SpaceInv => HeapIntact
    BY DEF SpaceInv, Layout, HeapSafe, HeapIntact
  <1> QED
    BY <1>1, InitSpaceInv, NextSpaceInv, PTL DEF SpaceSpec
=============================================================================
