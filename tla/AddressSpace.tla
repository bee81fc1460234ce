---------------------------- MODULE AddressSpace ----------------------------
(***************************************************************************)
(* Everything that takes frames from the allocator, in boot order: the     *)
(* kernel heap (memory/heap.rs), the frame self-test (main.rs), the ELF    *)
(* loader and its user programs (process/elf.rs, syscall/mod.rs) and the   *)
(* network card's rings and buffers (drivers/e1000.rs), over the active    *)
(* page table (memory/vmm.rs).                                             *)
(*                                                                         *)
(* Boot is one sequential context.  The levels of a page table are folded  *)
(* into one: a page needs one table, shared by TableSpan pages.  Memory is *)
(* physical: what the kernel writes through a page lands in its frame, so  *)
(* an aliased frame shows as damaged contents.                             *)
(*                                                                         *)
(* An operator named X_Variant is a deliberately wrong variant of X, there *)
(* to show that the properties below notice it.                            *)
(***************************************************************************)
EXTENDS FrameAllocator

CONSTANTS
  UserPages,    \* pages 0..UserPages-1 are the user region, below the heap
  HeapPages,    \* HEAP_SIZE / 4096
  TableSpan,    \* pages a page table covers
  MmioTables,   \* tables the card's register pages lack, at most
  StackPages,   \* USER_STACK_PAGES, at the top of the user region
  TestFrames,   \* frames memory_self_test takes (1000 in the code)
  NicFrames,    \* pages alloc_page takes for the rings and buffers
  Programs,     \* program images: [elf, segs], segs the PT_LOAD segments
  Runs          \* how many programs boot runs

ASSUME SpaceAssumption ==
  /\ UserPages \in Nat /\ HeapPages \in Nat /\ StackPages \in 0..UserPages
  /\ TableSpan \in Nat \ {0} /\ TestFrames \in Nat \ {0}
  /\ MmioTables \in Nat /\ NicFrames \in Nat
  /\ Runs \in Nat \ {0}

Page      == 0..(UserPages + HeapPages - 1)
Heap      == UserPages..(UserPages + HeapPages - 1)
Offset    == 0..(PAGE_SIZE - 1)
Table(p)  == p \div TableSpan
MmioTable == (-MmioTables)..(-1)    \* the tables of pages that are not in Page

VARIABLES
  pc,       \* where boot stands
  pages,    \* frame of each mapped page, or NoFrame
  tables,   \* frame of each page table, or NoFrame
  mem,      \* contents of physical memory
  todo,     \* pages the current loop still has to map
  w,        \* those pages are mapped WRITABLE
  frame,    \* the frame taken for Head(todo), not mapped yet
  held,     \* frames taken without a mapping: the self-test's, the card's
  before,   \* memory_self_test's `before`
  prog,     \* the program being loaded or run
  seg,      \* its segment
  runs      \* programs run so far

space == <<pages, tables, mem>>
job   == <<held, before, prog, seg, runs>>
all   == <<vars, pc, space, todo, w, frame, job>>

Fill(m, f, v) == [m EXCEPT ![f] = [o \in Offset |-> v]]

\* A page range as the order in which a loop visits it.
Up(a, b) == [i \in 1..(b - a + 1) |-> a + i - 1]
-----------------------------------------------------------------------------
(* Mapping one page: allocate_and_map for the heap, ensure_mapped for user *)
(* memory.  Every caller unwraps the result, so a failure is a panic.      *)

Looping == pc \in {"heap", "seg", "stack"} /\ todo # <<>>

\* ensure_mapped leaves a page alone that is mapped already.
AlreadyMapped == pc # "heap" /\ pages[Head(todo)] # NoFrame

SkipMapped ==
  /\ Looping /\ frame = NoFrame /\ AlreadyMapped
  /\ todo' = Tail(todo)
  /\ UNCHANGED <<vars, pc, space, w, frame, job>>

TakeFrame ==
  /\ Looping /\ frame = NoFrame /\ ~AlreadyMapped
  /\ alloc_frame
  /\ frame' = answer'
  /\ pc' = IF answer' = NoFrame THEN "panic" ELSE pc
  /\ UNCHANGED <<space, todo, w, job>>

\* map_to (x86_64 crate) takes a frame for a missing page table and clears it.
TakeTable ==
  /\ Looping /\ frame # NoFrame /\ tables[Table(Head(todo))] = NoFrame
  /\ alloc_frame
  /\ IF answer' = NoFrame
       THEN pc' = "panic" /\ UNCHANGED <<tables, mem>>
       ELSE /\ tables' = [tables EXCEPT ![Table(Head(todo))] = answer']
            /\ mem' = Fill(mem, answer', "pte")
            /\ UNCHANGED pc
  /\ UNCHANGED <<pages, todo, w, frame, job>>

\* A user page is cleared through its own mapping, which faults unless it is
\* WRITABLE (the boot loader leaves CR0.WP set).
map_page_KeepFrame ==
  /\ Looping /\ frame # NoFrame /\ tables[Table(Head(todo))] # NoFrame
  /\ pages' = [pages EXCEPT ![Head(todo)] = frame]
  /\ todo' = Tail(todo)
  /\ UNCHANGED <<vars, pc, mem, tables, frame, w, job>>
map_page ==
  /\ Looping /\ frame # NoFrame /\ tables[Table(Head(todo))] # NoFrame
  /\ pages' = [pages EXCEPT ![Head(todo)] = frame]
  /\ todo' = Tail(todo)
  /\ frame' = NoFrame
  /\ mem' = IF pc # "heap" /\ w THEN Fill(mem, frame, "0") ELSE mem
  /\ pc' = IF pc # "heap" /\ ~w THEN "panic" ELSE pc
  /\ UNCHANGED <<vars, tables, w, job>>
-----------------------------------------------------------------------------
(* Boot.                                                                   *)

memory_init ==
  /\ pc = "off"
  /\ init
  /\ pc' = "heap" /\ w' = TRUE
  /\ todo' = Up(UserPages, UserPages + HeapPages - 1)
  /\ UNCHANGED <<space, frame, job>>

\* ALLOCATOR.init takes the region over; memory_self_test starts.
heap_ready ==
  /\ pc = "heap" /\ todo = <<>>
  /\ mem' = [f \in Frame |-> IF \E p \in Heap : pages[p] = f
                               THEN [o \in Offset |-> "heap"] ELSE mem[f]]
  /\ before' = free_count
  /\ pc' = "test"
  /\ UNCHANGED <<vars, pages, tables, todo, w, frame, held, prog, seg, runs>>

test_take ==
  /\ pc = "test" /\ Cardinality(held) < TestFrames
  /\ alloc_frame
  /\ held' = IF answer' = NoFrame THEN held ELSE held \cup {answer'}
  /\ pc' = IF answer' = NoFrame THEN "panic"
           ELSE IF Cardinality(held') = TestFrames THEN "untest" ELSE pc
  /\ UNCHANGED <<space, todo, w, frame, before, prog, seg, runs>>

test_return_AllButOne ==
  /\ pc = "untest"
  /\ \E f \in held : free_frame(f) /\ held' = held \ {f}
  /\ pc' = IF Cardinality(held') <= 1 THEN "run" ELSE pc
  /\ UNCHANGED <<space, todo, w, frame, before, prog, seg, runs>>
test_return ==
  /\ pc = "untest"
  /\ \E f \in held :
       /\ free_frame(f)
       /\ held' = held \ {f}
  /\ pc' = IF held' = {} THEN "run" ELSE pc
  /\ UNCHANGED <<space, todo, w, frame, before, prog, seg, runs>>

\* run_user: load() rejects what is not an ELF64 file and boot goes on.
Segment == Programs[prog].segs[seg]

SegPages(s) ==
  Up(s.vaddr \div PAGE_SIZE, (s.vaddr + s.memsz + PAGE_SIZE - 1) \div PAGE_SIZE - 1)

\* From the top of the user region down.
Stack == [i \in 1..StackPages |-> UserPages - i]

\* The loop over the program headers arrives at segment k of program p.
Arrive(p, k) ==
  /\ prog' = p /\ seg' = k
  /\ IF k <= Len(Programs[p].segs)
       THEN /\ pc' = "seg"
            /\ todo' = SegPages(Programs[p].segs[k])
            /\ w' = Programs[p].segs[k].w
       ELSE pc' = "stack" /\ todo' = Stack /\ w' = TRUE

load ==
  /\ pc = "run" /\ runs < Runs
  /\ runs' = runs + 1
  /\ \E p \in DOMAIN Programs :
       \/ ~Programs[p].elf /\ UNCHANGED <<prog, seg, pc, todo, w>>
       \/ Programs[p].elf /\ Arrive(p, 1)
  /\ UNCHANGED <<vars, space, frame, held, before>>

\* The bytes of the file, all of them, then zeroes up to memsz.
Size(s)  == IF s.memsz > Len(s.bytes) THEN s.memsz ELSE Len(s.bytes)
Image(s) == [a \in s.vaddr..(s.vaddr + Size(s) - 1) |->
               IF a < s.vaddr + Len(s.bytes) THEN s.bytes[a - s.vaddr + 1] ELSE "0"]

Writes_NoBss(s) ==
  [f \in Frame |-> [o \in Offset |->
     LET hit == {i \in DOMAIN s.bytes : pages[(s.vaddr + i - 1) \div PAGE_SIZE] = f
                                         /\ (s.vaddr + i - 1) % PAGE_SIZE = o}
     IN  IF hit = {} THEN mem[f][o] ELSE s.bytes[CHOOSE i \in hit : TRUE]]]
Writes(s) ==
  [f \in Frame |-> [o \in Offset |->
     LET hit == {a \in DOMAIN Image(s) : pages[a \div PAGE_SIZE] = f /\ a % PAGE_SIZE = o}
     IN  IF hit = {} THEN mem[f][o] ELSE Image(s)[CHOOSE a \in hit : TRUE]]]

\* They are written through the pages; a byte past the mapped ones faults.
Reachable(s) == \A a \in DOMAIN Image(s) : a \div PAGE_SIZE \in Page /\ pages[a \div PAGE_SIZE] # NoFrame

copy_segment ==
  /\ pc = "seg" /\ todo = <<>>
  /\ IF Reachable(Segment)
       THEN mem' = Writes(Segment) /\ Arrive(prog, seg + 1)
       ELSE pc' = "panic" /\ UNCHANGED <<mem, todo, w, prog, seg>>
  /\ UNCHANGED <<vars, pages, tables, frame, held, before, runs>>

\* load() returns and the program runs in ring 3 until it exits.
enter_user ==
  /\ pc = "stack" /\ todo = <<>>
  /\ pc' = "user"
  /\ UNCHANGED <<vars, space, todo, w, frame, job>>

\* It may write anything it can reach; its image is not used again.
exit_user ==
  /\ pc = "user"
  /\ mem' = [f \in Frame |-> IF \E p \in Page \ Heap : pages[p] = f
                               THEN [o \in Offset |-> "user"] ELSE mem[f]]
  /\ pc' = "run"
  /\ UNCHANGED <<vars, pages, tables, todo, w, frame, job>>

\* build_nic: map_mmio first.  It maps the pages of the card's registers that the
\* boot loader has not, and map_to takes frames for the tables they lack; ...
map_mmio ==
  /\ pc = "run" /\ runs = Runs /\ held = {}
  /\ \E t \in MmioTable :
       /\ tables[t] = NoFrame
       /\ alloc_frame
       /\ IF answer' = NoFrame
            THEN pc' = "panic" /\ UNCHANGED <<tables, mem>>
            ELSE /\ tables' = [tables EXCEPT ![t] = answer']
                 /\ mem' = Fill(mem, answer', "pte")
                 /\ UNCHANGED pc
  /\ UNCHANGED <<pages, todo, w, frame, job>>

\* ... then a page for each ring and buffer, reached through the physical map.
alloc_page ==
  /\ pc = "run" /\ runs = Runs /\ Cardinality(held) < NicFrames
  /\ alloc_frame
  /\ held' = IF answer' = NoFrame THEN held ELSE held \cup {answer'}
  /\ mem' = IF answer' = NoFrame THEN mem ELSE Fill(mem, answer', "dma")
  /\ pc' = IF answer' = NoFrame THEN "panic" ELSE pc
  /\ UNCHANGED <<pages, tables, todo, w, frame, before, prog, seg, runs>>
-----------------------------------------------------------------------------
SpaceInit ==
  /\ Init
  /\ pc = "off"
  /\ pages = [p \in Page |-> NoFrame]
  /\ tables = [t \in {Table(p) : p \in Page} \cup MmioTable |-> NoFrame]
  /\ mem = [f \in Frame |-> [o \in Offset |-> "junk"]]
  /\ todo = <<>> /\ w = FALSE /\ frame = NoFrame
  /\ held = {} /\ before = 0 /\ prog = 0 /\ seg = 0 /\ runs = 0

SpaceNext ==
  \/ SkipMapped \/ TakeFrame \/ TakeTable \/ map_page
  \/ memory_init \/ heap_ready \/ test_take \/ test_return
  \/ load \/ copy_segment \/ enter_user \/ exit_user
  \/ map_mmio \/ alloc_page

SpaceSpec == SpaceInit /\ [][SpaceNext]_all
-----------------------------------------------------------------------------
\* Every frame taken has exactly one use: a page, a page table, the frame about
\* to be mapped, the self-test or the card.
Uses(f) ==
  {<<"page", p>> : p \in {p \in Page : pages[p] = f}}
    \cup {<<"table", t>> : t \in {t \in DOMAIN tables : tables[t] = f}}
    \cup {<<"frame", 0>> : x \in {frame} \cap {f}}
    \cup {<<"held", 0>> : x \in held \cap {f}}

FramesHaveOneUse ==
  pc # "panic" => \A f \in Frame : Cardinality(Uses(f)) = IF f \in given THEN 1 ELSE 0

\* The heap's contents survive every later mapping, load, program and buffer.
HeapIntact ==
  pc \notin {"off", "heap", "panic"} =>
    \A p \in Heap, o \in Offset : mem[pages[p]][o] = "heap"

\* When a program starts, it sees its file bytes, its zeroed .bss and a mapped
\* stack, whatever ran at the same addresses before.
ImageIntact ==
  pc = "user" =>
    /\ \A k \in DOMAIN Programs[prog].segs :
         LET image == Image(Programs[prog].segs[k])
         IN  \A a \in DOMAIN image :
               /\ pages[a \div PAGE_SIZE] # NoFrame
               /\ mem[pages[a \div PAGE_SIZE]][a % PAGE_SIZE] = image[a]
    /\ \A i \in DOMAIN Stack : pages[Stack[i]] # NoFrame

\* "expected -1000 then restored": the self-test leaves as many frames as it found.
SelfTestRestores == pc = "run" /\ runs = 0 => free_count = before

=============================================================================
