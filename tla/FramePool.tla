----------------------------- MODULE FramePool -----------------------------
(***************************************************************************)
(* What a physical frame allocator promises its callers: a frame is given  *)
(* to one caller at a time, only out of the frames that are fit to be      *)
(* given at all, and a request fails only when none is left.  Which frame  *)
(* a request gets is left open.                                            *)
(***************************************************************************)
CONSTANTS
  Offers,   \* the sets of fit frames, one for each memory map
  NoFrame

VARIABLES
  opened,   \* the pool has been filled
  free,     \* frames a request may get
  given,    \* frames held by a caller
  answer    \* what the last request returned

Init == opened = FALSE /\ free = {} /\ given = {} /\ answer = NoFrame

Open ==
  /\ ~opened
  /\ opened' = TRUE
  /\ \E offer \in Offers : free' \subseteq offer
  /\ UNCHANGED <<given, answer>>

Request ==
  /\ \/ /\ free = {}
        /\ answer' = NoFrame
        /\ UNCHANGED <<free, given>>
     \/ \E f \in free :
          /\ answer' = f
          /\ free' = free \ {f}
          /\ given' = given \cup {f}
  /\ UNCHANGED opened

Return ==
  /\ \E f \in given :
       /\ free' = free \cup {f}
       /\ given' = given \ {f}
  /\ UNCHANGED <<opened, answer>>

Spec == Init /\ [][Open \/ Request \/ Return]_<<opened, free, given, answer>>
=============================================================================
