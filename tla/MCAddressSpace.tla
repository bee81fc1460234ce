--------------------------- MODULE MCAddressSpace ---------------------------
(* A machine of 12 frames that boots, runs programs and sets up the card.  *)
EXTENDS AddressSpace

kernel == [start |-> 2 * PAGE_SIZE, end |-> 3 * PAGE_SIZE + 1]

\* RAM with one reserved hole [a, b); it may begin inside a page.  The larger
\* holes leave too few frames and boot panics.
Hole(a, b) ==
  << [start |-> 0, end |-> a, kind |-> "Usable"],
     [start |-> a, end |-> b, kind |-> "Reserved"],
     [start |-> b, end |-> (NUM_FRAMES + 2) * PAGE_SIZE, kind |-> "Usable"] >>

Holes == {Hole(a, b * PAGE_SIZE) : a \in {1, 7, 8, 9, 16}, b \in {5, 8, 10}}
Maps  == {m \in Holes : m[2].start < m[2].end}

Segm(vaddr, bytes, memsz, writable) ==
  [vaddr |-> vaddr, bytes |-> bytes, memsz |-> memsz, w |-> writable]

\* hello.elf and vfs.elf share an address; then a .bss, segments that share a
\* page, a read-only segment, more file bytes than memory (in the mapped page
\* and past it) and a file that is no ELF64 file.
images ==
  << [elf |-> TRUE, segs |-> <<Segm(0, <<"a", "b", "c">>, 3, TRUE)>>],
     [elf |-> TRUE, segs |-> <<Segm(1, <<"d">>, 4, TRUE)>>],
     [elf |-> TRUE, segs |-> <<Segm(2, <<"e">>, 1, TRUE), Segm(3, <<"f", "g">>, 2, TRUE)>>],
     [elf |-> TRUE, segs |-> <<Segm(0, <<"h">>, 1, FALSE)>>],
     [elf |-> TRUE, segs |-> <<Segm(0, <<"i", "j">>, 1, TRUE)>>],
     [elf |-> TRUE, segs |-> <<Segm(1, <<"k", "l">>, 1, TRUE)>>],
     [elf |-> FALSE, segs |-> <<>>] >>
=============================================================================
