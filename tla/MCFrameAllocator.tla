-------------------------- MODULE MCFrameAllocator --------------------------
(* Small memory maps: a machine of RAM units, split into three regions.    *)
EXTENDS FrameAllocator

CONSTANT RAM   \* units of physical memory the maps describe

kernel == [start |-> PAGE_SIZE, end |-> 2 * PAGE_SIZE]

Kinds == {"Usable", "Reserved"}

Split(a, b, k) ==
  << [start |-> 0, end |-> a, kind |-> k[1]],
     [start |-> a, end |-> b, kind |-> k[2]],
     [start |-> b, end |-> RAM, kind |-> k[3]] >>

\* Every split, page-aligned or not.
AnyMaps ==
  {Split(ab[1], ab[2], k) : ab \in {x \in (1..RAM) \X (1..RAM) : x[1] <= x[2]},
                            k \in [1..3 -> Kinds]}
=============================================================================
