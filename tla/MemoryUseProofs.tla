-------------------------- MODULE MemoryUseProofs ---------------------------
(***************************************************************************)
(* What memory is used for.  The allocator finds a frame whenever one is   *)
(* free and implements FramePool; every frame that was given has exactly   *)
(* one use, and the memory self-test returns as many frames as it took;    *)
(* and a program that runs finds the bytes of its image at their addresses.*)
(***************************************************************************)
EXTENDS AddressSpaceProofs, FiniteSetTheorems

(* The allocator and the abstract pool.                                    *)

LEMMA Quotient ==
  ASSUME NEW d \in Nat \ {0}, NEW q \in Nat, NEW r \in 0..(d - 1)
  PROVE  (d * q + r) \div d = q
  OBVIOUS

\* A non-empty set of numbers has a least one.
LEMMA Least ==
  ASSUME NEW S, S \subseteq Nat, S # {}
  PROVE  \E x \in S : \A y \in S : x <= y
  <1>1. PICK x \in S : \A y \in S : ~(<<y, x>> \in OpToRel(<, Nat))
    BY NatLessThanWellFounded, WFMin, Zenon
  <1>2. \A y \in S : ~(y < x)
    BY <1>1, Zenon DEF OpToRel
  <1> QED
    BY <1>2

\* alloc_frame finds a frame whenever one is free, from wherever it starts.
LEMMA FirstFree ==
  ASSUME TypeOK
  PROVE  first_free = {} <=> Frame \subseteq used
  <1>1. ASSUME NEW f0 \in Frame \ used
        PROVE  first_free # {}
    <2> DEFINE S == {scan(f) : f \in Frame \ used}
    <2>1. S \subseteq Nat /\ S # {}
      BY <1>1, ScanType
    <2>2. PICK x \in S : \A y \in S : x <= y
      BY <2>1, Least, Zenon
    <2>3. PICK f \in Frame \ used : x = scan(f)
      BY <2>2
    <2>4. f \in first_free
      BY <2>2, <2>3 DEF first_free
    <2> QED BY <2>4
  <1> QED
    BY <1>1 DEF first_free
-----------------------------------------------------------------------------
\* Applied in order, a well-formed map frees only frames that are Usable as a
\* whole: frames_for rounds outward, and what it rounds over is taken back.
LEMMA FreedIsUsable ==
  ASSUME NEW m \in MemoryMaps, WellFormed(m), NEW f \in FreedBy(m)
  PROVE  WhollyUsable(m, f)
  <1> USE FrameAssumption DEF FrameAssumption
  <1>1. PICK i \in Covering(m, f) :
           m[i].kind = "Usable" /\ \A j \in Covering(m, f) : j <= i
    BY DEF FreedBy
  <1>2. /\ i \in DOMAIN m /\ f \in frames_for(m[i]) /\ f \in Nat
        /\ \A j \in DOMAIN m : j \in Nat /\ m[j] \in Region
    BY DEF Covering, frames_for, Frame
  <1> DEFINE a == m[i].start
             b == m[i].end
             q == b \div PAGE_SIZE
             r == b % PAGE_SIZE
  <1>3. a \in Nat /\ b \in Nat
    BY <1>2 DEF Region
  <1>4. /\ a % PAGE_SIZE = 0
        /\ r # 0 => q # f
    <2>1. SUFFICES ASSUME r # 0, q = f PROVE FALSE
      BY <1>1, <1>2 DEF WellFormed
    <2>2. PICK j \in DOMAIN m : j > i /\ f \in frames_for(m[j])
      BY <1>1, <1>2, <2>1 DEF WellFormed
    <2>3. j \in Covering(m, f)
      BY <2>2 DEF Covering
    <2> QED BY <1>1, <1>2, <2>2, <2>3
  <1>5. a \div PAGE_SIZE <= f /\ f < (b + PAGE_SIZE - 1) \div PAGE_SIZE
    BY <1>2 DEF frames_for
  <1>6. q \in Nat /\ r \in 0..(PAGE_SIZE - 1) /\ b = PAGE_SIZE * q + r
    BY <1>3, Division, Zenon
  <1> HIDE DEF a, b, q, r
  <1>7. a <= PAGE_SIZE * f
    <2>1. a \div PAGE_SIZE \in Nat /\ a = PAGE_SIZE * (a \div PAGE_SIZE)
      <3>1. a \div PAGE_SIZE \in Nat /\ a = PAGE_SIZE * (a \div PAGE_SIZE) + (a % PAGE_SIZE)
        BY <1>3, Division, Zenon
      <3> DEFINE k == a \div PAGE_SIZE
      <3>2. k \in Nat /\ a = PAGE_SIZE * k + 0
        BY <1>4, <3>1
      <3> HIDE DEF k
      <3>3. a = PAGE_SIZE * k
        BY <3>2
      <3> QED BY <3>2, <3>3 DEF k
    <2> QED BY <1>2, <1>5, <2>1, Monotone
  <1>8. f + 1 <= q
    <2>1. CASE r = 0
      <3>1. b + PAGE_SIZE - 1 = PAGE_SIZE * q + (PAGE_SIZE - 1)
        BY <1>6, <2>1
      <3>2. (b + PAGE_SIZE - 1) \div PAGE_SIZE = q
        BY <1>6, <3>1, Quotient
      <3> QED BY <1>2, <1>5, <1>6, <3>2
    <2>2. CASE r # 0
      <3>1. b + PAGE_SIZE - 1 = PAGE_SIZE * (q + 1) + (r - 1)
        BY <1>6
      <3>2. (b + PAGE_SIZE - 1) \div PAGE_SIZE = q + 1
        BY <1>6, <2>2, <3>1, Quotient
      <3> QED BY <1>2, <1>4, <1>5, <1>6, <2>2, <3>2
    <2> QED BY <2>1, <2>2
  <1>9. PAGE_SIZE * f + PAGE_SIZE <= b
    <2>1. PAGE_SIZE * (f + 1) <= PAGE_SIZE * q
      BY <1>2, <1>6, <1>8, Monotone
    <2> QED BY <1>2, <1>6, <2>1
  <1>10. \A u \in Bytes(f) : a <= u /\ u < b
    BY <1>2, <1>3, <1>7, <1>9 DEF Bytes
  <1> QED
    BY <1>1, <1>2, <1>10 DEF WhollyUsable, a, b

\* On well-formed memory maps the bitmap allocator implements FramePool: it
\* never hands out a frame twice, or one that is not wholly usable RAM outside
\* the kernel, and it fails only when every frame is used.
THEOREM AllocatorImplementsPool ==
  ASSUME \A m \in MemoryMaps : WellFormed(m)
  PROVE  Spec => ImplementsFramePool
  <1>1. Init => Pool!Init
    BY DEF Init, Pool!Init
  <1>2. FrameInv /\ [Next]_vars =>
          [Pool!Open \/ Pool!Request \/ Pool!Return]_<<map # <<>>, IF map = <<>> THEN {} ELSE Frame \ used, given, answer>>
    <2> SUFFICES ASSUME FrameInv, [Next]_vars
                 PROVE  \/ Pool!Open \/ Pool!Request \/ Pool!Return
                        \/ UNCHANGED <<map # <<>>, IF map = <<>> THEN {} ELSE Frame \ used, given, answer>>
      OBVIOUS
    <2>1. CASE init
      <3>1. PICK m \in MemoryMaps : map' = m /\ used' = (used \ FreedBy(m)) \cup Protected
        BY <2>1 DEF init
      <3>2. map = <<>> /\ map' # <<>> /\ UNCHANGED <<given, answer>> /\ used = Frame
        BY <2>1, <3>1, FrameAssumption DEF FrameAssumption, init, FrameInv
      <3>3. Frame \ used' \subseteq Offer(m)
        BY <3>1, <3>2, FreedIsUsable DEF Offer, FreedBy
      <3> QED
        BY <3>1, <3>2, <3>3 DEF Pool!Open
    <2>2. CASE alloc_frame
      <3>1. map # <<>> /\ map' = map
        BY <2>2 DEF alloc_frame
      <3>2. CASE first_free = {} /\ UNCHANGED <<used, next_word, given>> /\ answer' = NoFrame
        <4>1. Frame \ used = {}
          BY <3>2, FirstFree DEF FrameInv
        <4> QED BY <3>1, <3>2, <4>1 DEF Pool!Request
      <3>3. ASSUME NEW f \in first_free,
                   used' = used \cup {f}, answer' = f, given' = given \cup {f}
            PROVE  Pool!Request
        <4>1. f \in Frame \ used /\ Frame \ used' = (Frame \ used) \ {f}
          BY <3>3 DEF first_free
        <4> QED BY <3>1, <3>3, <4>1 DEF Pool!Request
      <3> QED BY <2>2, <3>2, <3>3 DEF alloc_frame
    <2>3. ASSUME NEW f \in Frame, free_frame(f) PROVE Pool!Return
      <3>1. /\ map # <<>> /\ map' = map /\ f \in given
            /\ given' = given \ {f} /\ used' = used \ {f} /\ answer' = answer
        BY <2>3 DEF free_frame, FrameInv
      <3>2. Frame \ used' = (Frame \ used) \cup {f}
        BY <3>1
      <3> QED BY <3>1, <3>2 DEF Pool!Return
    <2>4. CASE UNCHANGED vars
      BY <2>4 DEF vars
    <2> QED
      BY <2>1, <2>2, <2>3, <2>4 DEF Next
  <1> QED
    BY <1>1, <1>2, InitFrameInv, NextFrameInv, PTL DEF Spec, ImplementsFramePool, Pool!Spec
-----------------------------------------------------------------------------
(* The uses of a frame.                                                    *)

\* Seen from a frame: one use if it was given, none otherwise.
LEMMA OneUse ==
  ASSUME SpaceInv, NEW f \in Frame
  PROVE  Cardinality(Uses(f)) = IF f \in given THEN 1 ELSE 0
  <1> USE DEF SpaceInv, Layout
  <1>0. DOMAIN tables = TableId /\ f # NoFrame
    BY Nobody DEF SpaceTypes
  <1>1. \A u : u \in Uses(f) <=>
          \/ \E p \in Page : u = <<"page", p>> /\ pages[p] = f
          \/ \E t \in TableId : u = <<"table", t>> /\ tables[t] = f
          \/ u = <<"frame", 0>> /\ frame = f
          \/ u = <<"held", 0>> /\ f \in held
    BY <1>0, Zenon DEF Uses
  <1>2. CASE f \notin given
    <2>1. /\ \A p \in Page : pages[p] # f
          /\ \A t \in TableId : tables[t] # f
          /\ frame # f /\ f \notin held
      BY <1>0, <1>2 DEF Apart, SpaceTypes
    <2>2. Uses(f) = {}
      BY <1>1, <2>1, Zenon
    <2> QED BY <1>2, <2>2, FS_EmptySet
  <1>3. CASE f \in given
    <2>1. ASSUME NEW p \in Page, pages[p] = f PROVE \E x : Uses(f) = {x}
      <3>1. /\ \A q \in Page : pages[q] = f => q = p
            /\ \A t \in TableId : tables[t] # f
            /\ frame # f /\ f \notin held
        BY <1>0, <2>1 DEF Apart
      <3>2. Uses(f) = {<<"page", p>>}
        BY <1>1, <2>1, <3>1, Zenon
      <3> QED BY <3>2, Zenon
    <2>2. ASSUME NEW t \in TableId, tables[t] = f PROVE \E x : Uses(f) = {x}
      <3>1. /\ \A q \in Page : pages[q] # f
            /\ \A u \in TableId : tables[u] = f => u = t
            /\ frame # f /\ f \notin held
        BY <1>0, <2>2 DEF Apart
      <3>2. Uses(f) = {<<"table", t>>}
        BY <1>1, <2>2, <3>1, Zenon
      <3> QED BY <3>2, Zenon
    <2>3. ASSUME frame = f PROVE \E x : Uses(f) = {x}
      <3>1. /\ \A q \in Page : pages[q] # f
            /\ \A u \in TableId : tables[u] # f
            /\ f \notin held
        BY <1>0, <2>3 DEF Apart
      <3>2. Uses(f) = {<<"frame", 0>>}
        BY <1>1, <2>3, <3>1, Zenon
      <3> QED BY <3>2, Zenon
    <2>4. ASSUME f \in held PROVE \E x : Uses(f) = {x}
      <3>1. /\ \A q \in Page : pages[q] # f
            /\ \A u \in TableId : tables[u] # f
            /\ frame # f
        BY <1>0, <2>4 DEF Apart
      <3>2. Uses(f) = {<<"held", 0>>}
        BY <1>1, <2>4, <3>1, Zenon
      <3> QED BY <3>2, Zenon
    <2>5. \E x : Uses(f) = {x}
      BY <1>3, <2>1, <2>2, <2>3, <2>4, Zenon DEF NoLeak
    <2> QED BY <1>3, <2>5, FS_Singleton, Zenon
  <1> QED
    BY <1>2, <1>3

\* Whatever boot maps, loads and runs, every frame it took has exactly one use,
\* and a frame with no use was never taken or has been returned.
THEOREM EveryFrameHasOneUse ==
  ASSUME ProgramsFit
  PROVE  SpaceSpec => []FramesHaveOneUse
  <1>1. SpaceInv => FramesHaveOneUse
    BY OneUse DEF FramesHaveOneUse
  <1> QED
    BY <1>1, InitSpaceInv, NextSpaceInv, PTL DEF SpaceSpec
-----------------------------------------------------------------------------
\* The self-test: the frames it holds are the ones missing from `before`.
TestInv ==
  /\ runs \in Nat
  /\ pc \in {"off", "heap"} => held = {}
  /\ pc \in {"test", "untest"} => free_count + Cardinality(held) = before
  /\ pc \in {"seg", "stack", "user"} => runs # 0
  /\ SelfTestRestores

\* The free frames are finitely many.
LEMMA FreeFinite ==
  /\ IsFiniteSet(Frame)
  /\ \A S : IsFiniteSet(Frame \ S) /\ Cardinality(Frame \ S) \in Nat
  <1>1. NUM_FRAMES - 1 \in Int
    BY FrameAssumption DEF FrameAssumption, NUM_FRAMES
  <1>2. IsFiniteSet(Frame)
    BY <1>1, FS_Interval DEF Frame
  <1>3. ASSUME NEW S PROVE IsFiniteSet(Frame \ S)
    BY <1>2, FS_Difference, Zenon
  <1> QED
    BY <1>2, <1>3, FS_CardinalityType, Zenon

LEMMA TestTakeCounts ==
  ASSUME SpaceInv, TestInv, test_take PROVE TestInv'
  <1> USE DEF SpaceInv, Layout, test_take
  <1>1. CASE answer' = NoFrame
    BY <1>1 DEF TestInv, SelfTestRestores
  <1>2. CASE answer' # NoFrame
    <2>1. PICK f \in first_free : used' = used \cup {f} /\ answer' = f
      BY <1>2 DEF alloc_frame
    <2>2. f \in Frame \ used /\ f \notin held
      BY <2>1 DEF first_free, FrameInv, HeldFramesAreMarked, SpaceTypes
    <2>3. held \subseteq Frame
      BY DEF SpaceTypes, FrameInv, TypeOK
    <2>4. IsFiniteSet(held) /\ Cardinality(held) \in Nat
      BY <2>3, FreeFinite, FS_Subset, FS_CardinalityType
    <2>5. Cardinality(held') = Cardinality(held) + 1
      <3>1. held' = held \cup {f}
        BY <1>2, <2>1
      <3> QED BY <2>2, <2>4, <3>1, FS_AddElement, Zenon
    <2>6. free_count' = free_count - 1 /\ free_count \in Nat
      <3>1. Frame \ used' = (Frame \ used) \ {f}
        BY <2>1
      <3> QED BY <2>2, <3>1, FreeFinite, FS_RemoveElement, Zenon DEF free_count
    <2>7. free_count' + Cardinality(held') = before'
      <3>1. free_count + Cardinality(held) = before /\ before' = before
        BY DEF TestInv
      <3> QED BY <2>4, <2>5, <2>6, <3>1
    <2>8. pc' \in {"test", "untest"} /\ runs' = runs
      BY <1>2
    <2> QED BY <2>7, <2>8 DEF TestInv, SelfTestRestores
  <1> QED
    BY <1>1, <1>2

LEMMA TestReturnCounts ==
  ASSUME SpaceInv, TestInv, test_return PROVE TestInv'
  <1> USE DEF SpaceInv, Layout, test_return
  <1>1. PICK f \in held : free_frame(f) /\ held' = held \ {f}
    OBVIOUS
  <1>2. f \in Frame /\ f \in used /\ held \subseteq Frame
    BY <1>1 DEF free_frame, FrameInv, HeldFramesAreMarked, TypeOK, SpaceTypes
  <1>3. IsFiniteSet(held) /\ Cardinality(held) \in Nat
    BY <1>2, FreeFinite, FS_Subset, FS_CardinalityType
  <1>4. Cardinality(held') = Cardinality(held) - 1
    BY <1>1, <1>3, FS_RemoveElement
  <1>5. free_count' = free_count + 1 /\ free_count \in Nat
    <2>1. Frame \ used' = (Frame \ used) \cup {f}
      BY <1>1, <1>2 DEF free_frame
    <2> QED BY <1>2, <2>1, FreeFinite, FS_AddElement, Zenon DEF free_count
  <1>6. free_count' + Cardinality(held') = before'
    <2>1. free_count + Cardinality(held) = before /\ before' = before
      BY DEF TestInv
    <2> QED BY <1>3, <1>4, <1>5, <2>1
  <1>7. held' = {} => free_count' = before'
    BY <1>5, <1>6, FS_EmptySet
  <1>8. pc' = (IF held' = {} THEN "run" ELSE "untest") /\ runs' = runs
    OBVIOUS
  <1> QED
    BY <1>6, <1>7, <1>8 DEF TestInv, SelfTestRestores
LEMMA NextTestInv == SpaceInv /\ TestInv /\ [SpaceNext]_all => TestInv'
  <1> SUFFICES ASSUME SpaceInv, TestInv, [SpaceNext]_all PROVE TestInv'
    OBVIOUS
  <1>1. CASE test_take
    BY <1>1, TestTakeCounts
  <1>2. CASE test_return
    BY <1>2, TestReturnCounts
  <1>3. CASE heap_ready
    <2>1. held' = {} /\ before' = free_count /\ pc' = "test" /\ runs' = runs /\ used' = used
      BY <1>3 DEF heap_ready, TestInv, vars
    <2>2. free_count' = free_count /\ free_count \in Nat
      BY <2>1, FreeFinite DEF free_count
    <2> QED BY <2>1, <2>2, FS_EmptySet DEF TestInv, SelfTestRestores
  <1>4. CASE memory_init
    BY <1>4 DEF memory_init, job, TestInv, SelfTestRestores
  <1>5. CASE TakeFrame \/ TakeTable
    BY <1>5 DEF TakeFrame, TakeTable, Looping, job, TestInv, SelfTestRestores
  <1>6. CASE SkipMapped \/ map_page
    BY <1>6 DEF SkipMapped, map_page, Looping, job, TestInv, SelfTestRestores
  <1>7. CASE load
    <2>1. runs' = runs + 1 /\ runs' \in Nat /\ runs' # 0
      BY <1>7 DEF load, TestInv
    <2>2. pc' \in {"run", "seg", "stack"}
      BY <1>7 DEF load, Arrive
    <2> QED BY <2>1, <2>2 DEF TestInv, SelfTestRestores
  <1>8. CASE copy_segment
    <2>1. runs' = runs /\ runs # 0 /\ pc' \in {"seg", "stack", "panic"}
      BY <1>8 DEF copy_segment, Arrive, TestInv
    <2> QED BY <2>1 DEF TestInv, SelfTestRestores
  <1>9. CASE enter_user \/ exit_user
    BY <1>9 DEF enter_user, exit_user, job, TestInv, SelfTestRestores
  <1>10. CASE map_mmio \/ alloc_page
    <2>1. /\ runs' = runs /\ runs # 0 /\ pc' \in {"run", "panic"}
      BY <1>10, SpaceAssumption DEF SpaceAssumption, map_mmio, alloc_page, job
    <2> QED BY <2>1 DEF TestInv, SelfTestRestores
  <1>11. CASE UNCHANGED all
    BY <1>11 DEF all, vars, job, TestInv, SelfTestRestores, free_count
  <1> QED
    BY <1>1, <1>2, <1>3, <1>4, <1>5, <1>6, <1>7, <1>8, <1>9, <1>10, <1>11 DEF SpaceNext

\* memory_self_test leaves as many frames free as it found, wherever the
\* round-robin hint stood and whichever frames it was given.
THEOREM SelfTestBalances ==
  ASSUME ProgramsFit
  PROVE  SpaceSpec => []SelfTestRestores
  <1>1. SpaceInit => TestInv
    BY DEF SpaceInit, TestInv, SelfTestRestores
  <1>2. TestInv => SelfTestRestores
    BY DEF TestInv
  <1> QED
    BY <1>1, <1>2, InitSpaceInv, NextSpaceInv, NextTestInv, PTL DEF SpaceSpec
-----------------------------------------------------------------------------
(* Programs find their images.                                             *)

\* No two segments of a program claim the same address: the linker lays them
\* out so, and elf::load copies them in turn without looking.
SegmentsApart ==
  \A p \in DOMAIN Programs : \A k, l \in 1..Len(Programs[p].segs) :
    k # l => \A a \in DOMAIN Image(Programs[p].segs[k]) : a \notin DOMAIN Image(Programs[p].segs[l])

\* The pages pg and the memory m hold segment s.
Holds(pg, m, s) ==
  \A a \in DOMAIN Image(s) :
    pg[a \div PAGE_SIZE] # NoFrame /\ m[pg[a \div PAGE_SIZE]][a % PAGE_SIZE] = Image(s)[a]

LEMMA SegCount ==
  ASSUME ProgramsFit, NEW p \in DOMAIN Programs
  PROVE  Len(Programs[p].segs) \in Nat /\ DOMAIN Programs[p].segs = 1..Len(Programs[p].segs)
  <1> DEFINE R == [vaddr : Nat, memsz : Nat, bytes : Seq(STRING), w : BOOLEAN]
  <1>1. Programs[p].segs \in Seq(R)
    BY Zenon DEF ProgramsFit
  <1> HIDE DEF R
  <1> QED
    BY <1>1

\* From load to the program's exit: the segments passed are in place, and each
\* page of the stack is mapped or on the list.
LoadInv ==
  pc \in {"seg", "stack", "user"} =>
    /\ prog \in DOMAIN Programs /\ seg \in Nat \ {0}
    /\ IF pc = "seg" THEN seg <= Len(Programs[prog].segs) ELSE seg = Len(Programs[prog].segs) + 1
    /\ \A k \in 1..(seg - 1) : Holds(pages, mem, Programs[prog].segs[k])
    /\ pc # "seg" => \A j \in DOMAIN Stack :
         pages[Stack[j]] # NoFrame \/ \E i \in 1..Len(todo) : todo[i] = Stack[j]
    /\ pc = "user" => todo = <<>>

\* The addresses of a segment are in the user region.
LEMMA SegCovered ==
  ASSUME ProgramsFit, NEW p \in DOMAIN Programs, NEW k \in 1..Len(Programs[p].segs),
         NEW a \in DOMAIN Image(Programs[p].segs[k])
  PROVE  a \in Nat /\ a \div PAGE_SIZE \in Page
  <1> DEFINE s == Programs[p].segs[k]
             q == a \div PAGE_SIZE
  <1>1. s.vaddr \in Nat /\ Size(s) \in Nat /\ a \in s.vaddr..(s.vaddr + Size(s) - 1)
    BY SegAt
  <1>2. a \in Nat
    <2> DEFINE z == Size(s)
    <2>1. a \in s.vaddr..(s.vaddr + z - 1)
      BY <1>1
    <2> HIDE DEF s, z
    <2> QED BY <1>1, <2>1 DEF z
  <1>3. q \in 0..(UserPages - 1)
    BY SegFits
  <1> HIDE DEF q
  <1>4. q \in Page
    BY <1>3, Regions
  <1> QED
    BY <1>2, <1>4 DEF q

LEMMA SameAddress ==
  ASSUME NEW a \in Nat, NEW b \in Nat,
         a \div PAGE_SIZE = b \div PAGE_SIZE, a % PAGE_SIZE = b % PAGE_SIZE
  PROVE  a = b
  <1>1. PAGE_SIZE \in Nat \ {0}
    BY FrameAssumption DEF FrameAssumption
  <1>2. /\ a = PAGE_SIZE * (a \div PAGE_SIZE) + (a % PAGE_SIZE)
        /\ b = PAGE_SIZE * (b \div PAGE_SIZE) + (b % PAGE_SIZE)
    BY <1>1, Division
  <1> QED
    BY <1>2, Zenon

\* A step that leaves the mapped pages and their contents alone keeps a segment.
LEMMA HoldsStays ==
  ASSUME ProgramsFit, NEW p \in DOMAIN Programs, NEW k \in 1..Len(Programs[p].segs),
         Holds(pages, mem, Programs[p].segs[k]),
         \A q \in Page : pages[q] # NoFrame =>
           pages'[q] = pages[q] /\ mem'[pages[q]] = mem[pages[q]]
  PROVE  Holds(pages', mem', Programs[p].segs[k])
  <1> DEFINE s == Programs[p].segs[k]
  <1>1. ASSUME NEW a \in DOMAIN Image(s)
        PROVE  /\ pages'[a \div PAGE_SIZE] # NoFrame
               /\ mem'[pages'[a \div PAGE_SIZE]][a % PAGE_SIZE] = Image(s)[a]
    <2> DEFINE q == a \div PAGE_SIZE
               o == a % PAGE_SIZE
    <2>1. q \in Page
      BY SegCovered
    <2>2. pages[q] # NoFrame /\ mem[pages[q]][o] = Image(s)[a]
      BY DEF Holds
    <2> HIDE DEF q, o
    <2>3. pages'[q] # NoFrame /\ mem'[pages'[q]][o] = Image(s)[a]
      BY <2>1, <2>2
    <2> QED BY <2>3 DEF q, o
  <1> HIDE DEF s
  <1>2. Holds(pages', mem', s)
    BY <1>1 DEF Holds
  <1> QED
    BY <1>2 DEF s

\* What is found at address a after segment s was written through the pages.
Lands(s, a) ==
  Writes(s)[pages[a \div PAGE_SIZE]][a % PAGE_SIZE]
    = IF a \in DOMAIN Image(s) THEN Image(s)[a] ELSE mem[pages[a \div PAGE_SIZE]][a % PAGE_SIZE]

LEMMA WritesThere ==
  ASSUME ProgramsFit, SpaceTypes, Apart,
         NEW p \in DOMAIN Programs, NEW k \in 1..Len(Programs[p].segs),
         NEW a \in Nat, a \div PAGE_SIZE \in Page, pages[a \div PAGE_SIZE] # NoFrame
  PROVE  Lands(Programs[p].segs[k], a)
  <1> DEFINE s   == Programs[p].segs[k]
             f   == pages[a \div PAGE_SIZE]
             o   == a % PAGE_SIZE
             hit == {b \in DOMAIN Image(s) : pages[b \div PAGE_SIZE] = f /\ b % PAGE_SIZE = o}
  <1>1. f \in Frame /\ o \in Offset
    <2>1. PAGE_SIZE \in Nat \ {0}
      BY FrameAssumption DEF FrameAssumption
    <2>2. o \in 0..(PAGE_SIZE - 1)
      BY <2>1, Division
    <2>3. f \in Frame
      BY DEF SpaceTypes
    <2> QED BY <2>2, <2>3 DEF Offset
  <1>2. ASSUME NEW b \in hit PROVE b = a
    <2>1. b \in Nat /\ b \div PAGE_SIZE \in Page
      BY SegCovered
    <2>2. pages[b \div PAGE_SIZE] = pages[a \div PAGE_SIZE] /\ b % PAGE_SIZE = a % PAGE_SIZE
      OBVIOUS
    <2>3. b \div PAGE_SIZE = a \div PAGE_SIZE
      BY <2>1, <2>2, Zenon DEF Apart
    <2> QED BY <2>1, <2>2, <2>3, SameAddress, Zenon
  <1>3. a \in DOMAIN Image(s) => a \in hit
    OBVIOUS
  <1>4. a \notin DOMAIN Image(s) => hit = {}
    BY <1>2
  <1>5. Writes(s)[f][o] = IF hit = {} THEN mem[f][o] ELSE Image(s)[CHOOSE b \in hit : TRUE]
    <2> HIDE DEF s, f, o
    <2> QED BY <1>1 DEF Writes
  <1> HIDE DEF s, f, o, hit
  <1>6. hit # {} => (CHOOSE b \in hit : TRUE) = a
    BY <1>2, Zenon
  <1>7. Writes(s)[f][o] = IF a \in DOMAIN Image(s) THEN Image(s)[a] ELSE mem[f][o]
    BY <1>3, <1>4, <1>5, <1>6, Zenon
  <1> QED
    BY <1>7, Zenon DEF Lands, s, f, o

\* Mapping leaves mapped pages alone: a new frame backs no page yet.
LEMMA MappingSpares ==
  ASSUME SpaceInv, SkipMapped \/ TakeFrame \/ TakeTable \/ map_page
  PROVE  \A q \in Page : pages[q] # NoFrame =>
           pages'[q] = pages[q] /\ mem'[pages[q]] = mem[pages[q]]
  <1> USE DEF SpaceInv, Layout
  <1> SUFFICES ASSUME NEW q \in Page, pages[q] # NoFrame
               PROVE  pages'[q] = pages[q] /\ mem'[pages[q]] = mem[pages[q]]
    OBVIOUS
  <1>1. pages[q] \in Frame /\ pages[q] \in given /\ pages[q] # frame
    BY DEF SpaceTypes, Apart
  <1>2. CASE SkipMapped \/ TakeFrame
    BY <1>2 DEF SkipMapped, TakeFrame, space
  <1>3. CASE TakeTable
    <2>1. answer' = NoFrame \/ answer' \in Frame \ given
      BY <1>3, Fresh DEF TakeTable
    <2> QED BY <1>1, <1>3, <2>1 DEF TakeTable, SpaceTypes, Fill
  <1>4. CASE map_page
    <2>1. pages[Head(todo)] = NoFrame
      BY <1>4 DEF map_page, Looping, Loops
    <2>2. pages' = [pages EXCEPT ![Head(todo)] = frame] /\ mem' \in {mem, Fill(mem, frame, "0")}
      BY <1>4 DEF map_page
    <2> QED BY <1>1, <2>1, <2>2 DEF SpaceTypes, Fill
  <1> QED
    BY <1>2, <1>3, <1>4

\* A page leaves the list only when it is mapped.
LEMMA MappingServes ==
  ASSUME SpaceInv, SkipMapped \/ TakeFrame \/ TakeTable \/ map_page, pc' # "panic",
         pc \in {"seg", "stack"}, NEW q \in Page,
         pages[q] # NoFrame \/ \E i \in 1..Len(todo) : todo[i] = q
  PROVE  pages'[q] # NoFrame \/ \E i \in 1..Len(todo') : todo'[i] = q
  <1> USE DEF SpaceInv, Layout
  <1>1. CASE pages[q] # NoFrame
    BY <1>1, MappingSpares
  <1>2. ASSUME NEW i \in 1..Len(todo), todo[i] = q, todo' = todo
        PROVE  pages'[q] # NoFrame \/ \E j \in 1..Len(todo') : todo'[j] = q
    BY <1>2
  <1>3. ASSUME NEW i \in 1..Len(todo), todo[i] = q, pages[q] = NoFrame,
               todo' = Tail(todo), pages'[Head(todo)] # NoFrame, todo # <<>>
        PROVE  pages'[q] # NoFrame \/ \E j \in 1..Len(todo') : todo'[j] = q
    <2>1. /\ Head(todo) = todo[1]
          /\ i = 1 \/ (i - 1 \in 1..Len(Tail(todo)) /\ Tail(todo)[i - 1] = todo[i])
      BY <1>3, HeadTail DEF SpaceTypes
    <2> QED BY <1>3, <2>1, Zenon
  <1>4. CASE TakeFrame \/ TakeTable
    <2>1. todo' = todo
      BY <1>4 DEF TakeFrame, TakeTable
    <2> QED BY <1>1, <1>2, <2>1
  <1>5. CASE SkipMapped \/ map_page
    <2>1. todo' = Tail(todo) /\ todo # <<>>
      BY <1>5 DEF SkipMapped, map_page, Looping
    <2>2. pages'[Head(todo)] # NoFrame
      <3>1. Head(todo) \in Page
        BY <2>1, HeadTail DEF SpaceTypes
      <3> QED BY <1>5, <3>1 DEF SkipMapped, map_page, AlreadyMapped, space, SpaceTypes
    <2> QED BY <1>1, <1>3, <2>1, <2>2
  <1> QED
    BY <1>4, <1>5

LEMMA StackPage ==
  ASSUME NEW j \in DOMAIN Stack
  PROVE  Stack[j] \in Page
  <1> DEFINE R == 0..(UserPages - 1)
  <1>1. R \subseteq Page /\ Stack \in Seq(R)
    BY StackFits, Regions
  <1> HIDE DEF R
  <1>2. Stack[j] \in R
    BY <1>1
  <1> QED
    BY <1>1, <1>2

LEMMA MappingLoads ==
  ASSUME ProgramsFit, SpaceInv, LoadInv, SkipMapped \/ TakeFrame \/ TakeTable \/ map_page
  PROVE  LoadInv'
  <1> SUFFICES ASSUME pc' \in {"seg", "stack", "user"} PROVE LoadInv'
    BY DEF LoadInv
  <1>1. pc' = pc /\ prog' = prog /\ seg' = seg /\ pc \in {"seg", "stack"}
    BY DEF SkipMapped, TakeFrame, TakeTable, map_page, job, Looping
  <1>2. /\ prog \in DOMAIN Programs /\ seg \in Nat \ {0}
        /\ IF pc = "seg" THEN seg <= Len(Programs[prog].segs) ELSE seg = Len(Programs[prog].segs) + 1
        /\ \A k \in 1..(seg - 1) : Holds(pages, mem, Programs[prog].segs[k])
        /\ pc # "seg" => \A j \in DOMAIN Stack :
             pages[Stack[j]] # NoFrame \/ \E i \in 1..Len(todo) : todo[i] = Stack[j]
    BY <1>1 DEF LoadInv
  <1>3. \A k \in 1..(seg - 1) : k \in 1..Len(Programs[prog].segs)
    <2>1. Len(Programs[prog].segs) \in Nat
      BY <1>2, SegCount
    <2> QED BY <1>2, <2>1
  <1>4. ASSUME NEW k \in 1..(seg - 1) PROVE Holds(pages', mem', Programs[prog].segs[k])
    BY <1>2, <1>3, MappingSpares, HoldsStays
  <1>5. ASSUME NEW j \in DOMAIN Stack, pc # "seg"
        PROVE  pages'[Stack[j]] # NoFrame \/ \E i \in 1..Len(todo') : todo'[i] = Stack[j]
    <2>1. Stack[j] \in Page
      BY StackPage
    <2>2. pc' # "panic"
      BY <1>1
    <2> QED BY <1>1, <1>2, <1>5, <2>1, <2>2, MappingServes
  <1> QED
    BY <1>1, <1>2, <1>4, <1>5 DEF LoadInv

\* A loop starts with a list of all that it is there to map.
LEMMA ArriveLoads ==
  ASSUME ProgramsFit, NEW p \in DOMAIN Programs, NEW k \in 1..(Len(Programs[p].segs) + 1),
         Arrive(p, k), \A j \in 1..(k - 1) : Holds(pages', mem', Programs[p].segs[j])
  PROVE  LoadInv'
  <1>0. /\ Len(Programs[p].segs) \in Nat /\ k \in Nat \ {0}
        /\ k <= Len(Programs[p].segs) => k \in 1..Len(Programs[p].segs)
    <2> DEFINE n == Len(Programs[p].segs)
    <2>1. n \in Nat
      BY SegCount
    <2>2. k \in 1..(n + 1)
      OBVIOUS
    <2> HIDE DEF n
    <2>3. n \in Nat /\ k \in Nat \ {0} /\ (k <= n => k \in 1..n)
      BY <2>1, <2>2
    <2> QED BY <2>3 DEF n
  <1>1. CASE k <= Len(Programs[p].segs)
    <2>1. prog' = p /\ seg' = k /\ pc' = "seg"
      BY <1>1 DEF Arrive
    <2> QED BY <1>0, <1>1, <2>1 DEF LoadInv
  <1>2. CASE ~(k <= Len(Programs[p].segs))
    <2>1. prog' = p /\ seg' = k /\ pc' = "stack" /\ todo' = Stack
      BY <1>2 DEF Arrive
    <2>2. k = Len(Programs[p].segs) + 1
      BY <1>0, <1>2
    <2>3. Stack \in Seq(0..(UserPages - 1))
      BY StackFits
    <2>4. \A j \in DOMAIN Stack : \E i \in 1..Len(todo') : todo'[i] = Stack[j]
      BY <2>1, <2>3
    <2> QED BY <1>0, <2>1, <2>2, <2>4 DEF LoadInv
  <1> QED
    BY <1>1, <1>2

LEMMA CopyLoads ==
  ASSUME ProgramsFit, SegmentsApart, SpaceInv, LoadInv, copy_segment PROVE LoadInv'
  <1>0. CASE ~Reachable(Segment)
    BY <1>0 DEF copy_segment, LoadInv
  <1> SUFFICES ASSUME Reachable(Segment) PROVE LoadInv'
    BY <1>0
  <1>1. /\ pc = "seg" /\ mem' = Writes(Segment) /\ Arrive(prog, seg + 1) /\ pages' = pages
    BY DEF copy_segment
  <1>2. /\ prog \in DOMAIN Programs /\ seg \in Nat \ {0} /\ seg <= Len(Programs[prog].segs)
        /\ \A k \in 1..(seg - 1) : Holds(pages, mem, Programs[prog].segs[k])
    BY <1>1 DEF LoadInv
  <1>3. /\ Len(Programs[prog].segs) \in Nat /\ seg \in 1..Len(Programs[prog].segs)
        /\ seg + 1 \in 1..(Len(Programs[prog].segs) + 1)
    <2>1. Len(Programs[prog].segs) \in Nat
      BY <1>2, SegCount
    <2> QED BY <1>2, <2>1
  <1>4. ASSUME NEW k \in 1..seg, NEW a \in DOMAIN Image(Programs[prog].segs[k])
        PROVE  /\ pages[a \div PAGE_SIZE] # NoFrame
               /\ mem'[pages[a \div PAGE_SIZE]][a % PAGE_SIZE] = Image(Programs[prog].segs[k])[a]
    <2>1. k \in 1..Len(Programs[prog].segs)
      BY <1>3
    <2>2. a \in Nat /\ a \div PAGE_SIZE \in Page
      BY <1>2, <2>1, SegCovered
    <2>3. k # seg => /\ pages[a \div PAGE_SIZE] # NoFrame
                     /\ mem[pages[a \div PAGE_SIZE]][a % PAGE_SIZE] = Image(Programs[prog].segs[k])[a]
      <3>1. k # seg => k \in 1..(seg - 1)
        BY <1>3
      <3> QED BY <1>2, <3>1 DEF Holds
    <2>4. k = seg => pages[a \div PAGE_SIZE] # NoFrame
      BY Zenon DEF Reachable, Segment
    <2>5. mem'[pages[a \div PAGE_SIZE]][a % PAGE_SIZE]
            = IF a \in DOMAIN Image(Segment) THEN Image(Segment)[a]
              ELSE mem[pages[a \div PAGE_SIZE]][a % PAGE_SIZE]
      <3>1. SpaceTypes /\ Apart
        BY DEF SpaceInv, Layout
      <3>2. pages[a \div PAGE_SIZE] # NoFrame
        BY <2>3, <2>4
      <3>3. seg \in 1..Len(Programs[prog].segs)
        BY <1>3
      <3>4. Lands(Segment, a)
        BY <1>2, <2>2, <3>1, <3>2, <3>3, WritesThere DEF Segment
      <3> QED BY <1>1, <3>4, Zenon DEF Lands
    <2>6. k # seg => a \notin DOMAIN Image(Segment)
      BY <1>2, <1>3, <2>1, Zenon DEF SegmentsApart, Segment
    <2> QED BY <2>3, <2>4, <2>5, <2>6 DEF Segment
  <1>5. ASSUME NEW k \in 1..((seg + 1) - 1) PROVE Holds(pages', mem', Programs[prog].segs[k])
    <2>1. k \in 1..seg
      BY <1>2
    <2> QED BY <1>1, <1>4, <2>1 DEF Holds
  <1> QED
    BY <1>1, <1>2, <1>3, <1>5, ArriveLoads

LEMMA NextLoadInv ==
  ASSUME ProgramsFit, SegmentsApart
  PROVE  SpaceInv /\ LoadInv /\ [SpaceNext]_all => LoadInv'
  <1> SUFFICES ASSUME SpaceInv, LoadInv, [SpaceNext]_all PROVE LoadInv'
    OBVIOUS
  <1>1. CASE SkipMapped \/ TakeFrame \/ TakeTable \/ map_page
    BY <1>1, MappingLoads
  <1>2. CASE memory_init \/ heap_ready \/ test_take \/ test_return \/ exit_user \/ map_mmio \/ alloc_page
    <2>1. pc' \notin {"seg", "stack", "user"}
      BY <1>2 DEF memory_init, heap_ready, test_take, test_return, exit_user, map_mmio, alloc_page
    <2> QED BY <2>1 DEF LoadInv
  <1>3. CASE load
    <2>1. CASE pc' = "run"
      BY <2>1 DEF LoadInv
    <2>2. ASSUME NEW p \in DOMAIN Programs, Arrive(p, 1) PROVE LoadInv'
      <3>1. Len(Programs[p].segs) \in Nat
        BY SegCount
      <3>2. 1 \in 1..(Len(Programs[p].segs) + 1) /\ 1..(1 - 1) = {}
        BY <3>1
      <3> QED BY <2>2, <3>2, ArriveLoads
    <2> QED BY <1>3, <2>1, <2>2 DEF load
  <1>4. CASE copy_segment
    BY <1>4, CopyLoads
  <1>5. CASE enter_user
    <2>1. /\ pc = "stack" /\ pc' = "user" /\ todo = <<>>
          /\ UNCHANGED <<pages, mem, todo, prog, seg>>
      BY <1>5 DEF enter_user, space, job
    <2> QED BY <2>1 DEF LoadInv
  <1>6. CASE UNCHANGED all
    <2>1. UNCHANGED <<pc, pages, mem, todo, prog, seg>>
      BY <1>6 DEF all, space, job
    <2> QED BY <2>1 DEF LoadInv
  <1> QED
    BY <1>1, <1>2, <1>3, <1>4, <1>5, <1>6 DEF SpaceNext

LEMMA LoadInvSees ==
  ASSUME ProgramsFit, LoadInv PROVE ImageIntact
  <1> SUFFICES ASSUME pc = "user" PROVE ImageIntact
    BY DEF ImageIntact
  <1>1. /\ prog \in DOMAIN Programs /\ seg = Len(Programs[prog].segs) + 1
        /\ \A k \in 1..(seg - 1) : Holds(pages, mem, Programs[prog].segs[k])
        /\ \A j \in DOMAIN Stack : pages[Stack[j]] # NoFrame \/ \E i \in 1..Len(todo) : todo[i] = Stack[j]
        /\ todo = <<>>
    BY DEF LoadInv
  <1>2. \A k \in DOMAIN Programs[prog].segs : k \in 1..(seg - 1)
    <2>1. Len(Programs[prog].segs) \in Nat /\ DOMAIN Programs[prog].segs = 1..Len(Programs[prog].segs)
      BY <1>1, SegCount
    <2> QED BY <1>1, <2>1
  <1>3. \A k \in DOMAIN Programs[prog].segs : Holds(pages, mem, Programs[prog].segs[k])
    BY <1>1, <1>2
  <1>4. \A j \in DOMAIN Stack : pages[Stack[j]] # NoFrame
    <2>1. 1..Len(todo) = {}
      BY <1>1
    <2> QED BY <1>1, <2>1
  <1> QED
    BY <1>3, <1>4 DEF ImageIntact, Holds

\* When elf::load hands over to a program, the program sees its own file bytes,
\* a zeroed .bss and a mapped stack: for every page size, layout of segments
\* that do not overlap, memory map and sequence of programs loaded before it
\* at the same addresses.
THEOREM ProgramsSeeTheirImages ==
  ASSUME ProgramsFit, SegmentsApart
  PROVE  SpaceSpec => []ImageIntact
  <1>1. SpaceInit => LoadInv
    BY DEF SpaceInit, LoadInv
  <1> QED
    BY <1>1, InitSpaceInv, NextSpaceInv, NextLoadInv, LoadInvSees, PTL DEF SpaceSpec
=============================================================================
