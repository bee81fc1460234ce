--------------------------- MODULE FrameAllocator ---------------------------
(***************************************************************************)
(* The bitmap frame allocator (kernel/src/memory/pmm.rs) and its seeding   *)
(* from the firmware memory map (kernel/src/memory/mod.rs).                *)
(*                                                                         *)
(* The bitmap is the set `used` of the frames whose bit is set.  Addresses *)
(* count abstract units, PAGE_SIZE of them to a frame.                     *)
(*                                                                         *)
(* An operator named X_Variant is a deliberately wrong variant of X, there *)
(* to show that the properties below notice it.                            *)
(***************************************************************************)
EXTENDS Integers, Sequences, FiniteSets

CONSTANTS
  WORDS,        \* words of the bitmap
  WordBits,     \* bits of a word (64 in the code)
  PAGE_SIZE,    \* units of a frame (4096 bytes in the code)
  MemoryMaps,   \* bound: the memory maps the boot loader may hand over
  Kernel        \* the kernel image's range

Region == [start : Nat, end : Nat, kind : {"Usable", "Reserved"}]

ASSUME FrameAssumption ==
  /\ WORDS \in Nat \ {0}
  /\ WordBits \in Nat \ {0}
  /\ PAGE_SIZE \in Nat \ {0}
  /\ Kernel \in [start : Nat, end : Nat]
  /\ MemoryMaps \subseteq Seq(Region) \ {<<>>}

NUM_FRAMES == WORDS * WordBits
Frame      == 0..(NUM_FRAMES - 1)
Word       == 0..(WORDS - 1)
NoFrame    == -1

VARIABLES
  used,        \* the frames whose bit is set
  next_word,   \* the word the next scan starts at
  given,       \* frames handed out and not returned
  answer,      \* what the last allocate_frame returned
  map          \* the memory map, <<>> before memory::init

vars == <<used, next_word, given, answer, map>>
-----------------------------------------------------------------------------
\* The frames a byte range touches: the start rounds down, the end rounds up
\* and is clamped to the bitmap.
frames_for(range) ==
  {f \in Frame : /\ range.start \div PAGE_SIZE <= f
                 /\ f < (range.end + PAGE_SIZE - 1) \div PAGE_SIZE}

\* mark_free_range / mark_used_range over the map in order: what the last
\* region that touches a frame says counts.
Covering(m, f) == {i \in DOMAIN m : f \in frames_for(m[i])}

FreedBy(m) ==
  {f \in Frame : \E i \in Covering(m, f) :
     /\ m[i].kind = "Usable"
     /\ \A j \in Covering(m, f) : j <= i}

\* The kernel image and the first page (null guard) are protected explicitly.
NullPage == [start |-> 0, end |-> PAGE_SIZE]

Protected == frames_for(Kernel) \cup frames_for(NullPage)

\* memory::init up to the heap.
init_Unprotected ==
  /\ map = <<>>
  /\ \E m \in MemoryMaps : map' = m /\ used' = used \ FreedBy(m)
  /\ UNCHANGED <<next_word, given, answer>>
init ==
  /\ map = <<>>
  /\ \E m \in MemoryMaps :
       /\ map' = m
       /\ used' = (used \ FreedBy(m)) \cup Protected
  /\ UNCHANGED <<next_word, given, answer>>

\* The position of frame f in a scan that starts at next_word and wraps.
bit_index_Next(f) == <<f \div WordBits + 1, f % WordBits>>
bit_index(f) == <<f \div WordBits, f % WordBits>>

scan(f) ==
  ((bit_index(f)[1] + WORDS - next_word) % WORDS) * WordBits + bit_index(f)[2]

\* The first frame of the scan whose bit is clear, if there is one.
first_free_NoWrap ==
  {f \in Frame \ used : /\ bit_index(f)[1] >= next_word
                        /\ \A g \in Frame \ used : scan(f) <= scan(g)}
first_free ==
  {f \in Frame \ used : \A g \in Frame \ used : scan(f) <= scan(g)}

alloc_frame ==
  /\ map # <<>>
  /\ \/ /\ first_free = {}
        /\ answer' = NoFrame
        /\ UNCHANGED <<used, next_word, given>>
     \/ \E f \in first_free :
          /\ used' = used \cup {f}
          /\ next_word' = bit_index(f)[1]
          /\ answer' = f
          /\ given' = given \cup {f}
  /\ UNCHANGED map

\* deallocate_frame's contract: the caller returns a frame it holds.
free_frame_Word(f) ==
  /\ f \in given
  /\ used' = {g \in used : bit_index(g)[1] # bit_index(f)[1]}
  /\ given' = given \ {f}
  /\ UNCHANGED <<next_word, answer, map>>
free_frame(f) ==
  /\ f \in given
  /\ used' = used \ {f}
  /\ given' = given \ {f}
  /\ UNCHANGED <<next_word, answer, map>>

free_count == Cardinality(Frame \ used)
-----------------------------------------------------------------------------
Init ==
  /\ used = Frame
  /\ next_word = 0
  /\ given = {}
  /\ answer = NoFrame
  /\ map = <<>>

Next == init \/ alloc_frame \/ \E f \in Frame : free_frame(f)

Spec == Init /\ [][Next]_vars
-----------------------------------------------------------------------------
TypeOK ==
  /\ used \subseteq Frame
  /\ next_word \in Word
  /\ given \subseteq Frame
  /\ answer \in Frame \cup {NoFrame}
  /\ map \in MemoryMaps \cup {<<>>}

\* A frame somebody holds has its bit set, and neither the kernel image nor the
\* null page is ever held: once the map is applied nothing frees their bits.
HeldFramesAreMarked ==
  /\ given \subseteq used
  /\ map # <<>> => Protected \subseteq used \ given

\* The frames fit to be given: all of their bytes are Usable, and they belong
\* to neither the kernel image nor the null page.
Bytes(f) == (f * PAGE_SIZE)..(f * PAGE_SIZE + PAGE_SIZE - 1)

WhollyUsable(m, f) ==
  \A u \in Bytes(f) : \E i \in DOMAIN m :
    m[i].kind = "Usable" /\ m[i].start <= u /\ u < m[i].end

\* The memory maps the allocator is right for: a Usable region starts on a page,
\* and ends on one or inside a page that a later Reserved region touches (the
\* 639 KiB boundary of a PC is of that kind).
WellFormed(m) ==
  \A i \in DOMAIN m : m[i].kind = "Usable" =>
    /\ m[i].start % PAGE_SIZE = 0
    /\ \/ m[i].end % PAGE_SIZE = 0
       \/ \E j \in DOMAIN m :
            j > i /\ m[j].kind = "Reserved" /\ m[i].end \div PAGE_SIZE \in frames_for(m[j])

Offer(m) == {f \in Frame \ Protected : WhollyUsable(m, f)}

\* "alloc_frame returns each frame at most once", and it fails only when every
\* frame is used, wherever its round-robin hint stands: the bitmap allocator
\* implements FramePool.
Pool == INSTANCE FramePool WITH
          Offers <- {Offer(m) : m \in MemoryMaps},
          opened <- map # <<>>,
          free   <- IF map = <<>> THEN {} ELSE Frame \ used

ImplementsFramePool == Pool!Spec

\* "Round the end up so partial trailing pages are still protected": a frame
\* that is only partly Usable is never handed out.
PartialPagesProtected == \A f \in given : WhollyUsable(map, f)
=============================================================================
