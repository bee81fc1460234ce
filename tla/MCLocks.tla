------------------------------ MODULE MCLocks ------------------------------
(* Locks with the calls of the kernel, for TLC.                            *)
EXTENDS KernelCalls, TLC

Tasks == Permutations(Task)

\* A task that only reads the keyboard.
KeyboardCalls == {read_kbd}
=============================================================================
