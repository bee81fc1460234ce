---------------------------- MODULE KernelCalls ----------------------------
(***************************************************************************)
(* What the calls that tasks make do to the locks, for Locks.  A guard     *)
(* lives to the end of its block or, when it is a temporary, of its        *)
(* statement; With(l, body) is such a guard.  Every allocation or release  *)
(* of heap memory takes the lock of the global allocator.                  *)
(***************************************************************************)
EXTENDS Locks

With(l, body) == <<Take(l)>> \o body \o <<Drop(l)>>
Touch(l) == With(l, <<>>)

\* The heap, the serial port, the frame allocator.
alloc      == Touch("HEAP")
_print_PerPiece == With("SERIAL1", <<Begin>>) \o With("SERIAL1", <<End>>)
_print     == With("SERIAL1", <<Begin, End>>)
free_count == Touch("FRAMES")

\* The scheduler.
spawn      == With("SCHEDULER", alloc \o <<Add>>)
yield_now  == <<Schedule>>
sleep_GuardKept == <<Take("SCHEDULER"), Schedule, Drop("SCHEDULER")>>
sleep      == Touch("SCHEDULER") \o <<Schedule>>
join       == Touch("SCHEDULER") \o Touch("SCHEDULER") \o <<Schedule>>
snapshot   == With("SCHEDULER", alloc)
task_count == Touch("SCHEDULER")

\* Files: a path is resolved through the mount table and, in the initrd,
\* through the children of a directory; the descriptor table is held while
\* the file behind a descriptor is read.
resolve    == Touch("MOUNTS") \o alloc \o Touch("CHILDREN")
install    == With("FD_TABLE", alloc)
open       == resolve \o install
list_dir   == resolve \o With("CHILDREN", alloc)
read_key   == Touch("KEYBOARD")
read_kbd_Waits == With("FD_TABLE", read_key \o yield_now \o read_key)
read_kbd   == With("FD_TABLE", read_key \o read_key)
read_proc  == With("FD_TABLE", free_count \o alloc)
read_file  == Touch("FD_TABLE")
close      == With("FD_TABLE", alloc)

\* The network card and the stack above it.
mac_address  == Touch("NIC")
send         == Touch("NIC")
poll_receive == With("NIC", alloc)
rx_debug_AsksMac == With("NIC", _print \o mac_address)
rx_debug     == With("NIC", _print \o _print)
remember     == With("CACHE", alloc)
lookup       == Touch("CACHE")
table        == With("CACHE", alloc)
socket       == With("SOCKETS", alloc)
bind         == Touch("SOCKETS")
recvfrom     == With("SOCKETS", alloc)
deliver      == With("SOCKETS", alloc \o _print)
info         == With("SOCKETS", alloc)
read_socket  == With("FD_TABLE", recvfrom)

\* The tasks of phase4_demo and what they spawn: clock, manager, workers, the
\* stress test's tasks, the ARP demo and the shell with its commands.
TaskCalls ==
  {alloc, _print, free_count, spawn, yield_now, sleep, join, snapshot, task_count,
   open, list_dir, read_kbd, read_proc, read_file, close,
   mac_address, send, poll_receive, rx_debug,
   remember, lookup, table, socket, bind, recvfrom, deliver, info, read_socket}
=============================================================================
