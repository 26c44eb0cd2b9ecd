--------------------------- MODULE AbstractFrames ---------------------------
(***************************************************************************)
(* What the frame allocator promises its callers (spec.md 4.A): a pool of  *)
(* free frames; an allocation hands one free frame to one caller or fails  *)
(* only when the pool is empty; a freed frame returns to the pool.         *)
(***************************************************************************)
EXTENDS FiniteSets

CONSTANTS Frames, Reserved, Clients

VARIABLES free, held

Init ==
  /\ free = Frames \ Reserved
  /\ held = [c \in Clients |-> {}]

Alloc(c) ==
  \/ \E f \in free :
       /\ free' = free \ {f}
       /\ held' = [held EXCEPT ![c] = @ \cup {f}]
  \/ /\ free = {}
     /\ UNCHANGED <<free, held>>

Free(c, f) ==
  /\ f \in held[c]
  /\ free' = free \cup {f}
  /\ held' = [held EXCEPT ![c] = @ \ {f}]

Next == \E c \in Clients : Alloc(c) \/ \E f \in Frames : Free(c, f)

Spec == Init /\ [][Next]_<<free, held>>
============================================================================
