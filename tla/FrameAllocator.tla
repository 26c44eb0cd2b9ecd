--------------------------- MODULE FrameAllocator ---------------------------
(***************************************************************************)
(* The frame allocator of src/mem/page_frame_allocator.c as a component:   *)
(* callers (page-fault handler, paging, process creation, fork) allocate   *)
(* frames with alloc_frame and return them with free_frame.  The variable  *)
(* held records which caller got which frame back; callers only free what *)
(* they hold (free_frame itself checks nothing but the range).            *)
(***************************************************************************)
EXTENDS FrameBitmap, FiniteSetsExt

CONSTANTS Clients

VARIABLES frame_bitmap, held

vars == <<frame_bitmap, held>>

Reserved == {i \in Frames : i < KernelEndFrame}

Init ==
  /\ frame_bitmap = InitBitmap
  /\ held = [c \in Clients |-> {}]

\* A call of alloc_frame by caller c; a 0 result is the failure value.
Alloc(c) ==
  LET r == alloc_frame(frame_bitmap)
  IN  /\ frame_bitmap' = r.bitmap
      /\ held' = IF r.frame = NoFrame THEN held
                 ELSE [held EXCEPT ![c] = @ \cup {r.frame}]

\* A call of free_frame by caller c on a frame it holds.
Free(c, f) ==
  /\ f \in held[c]
  /\ frame_bitmap' = free_frame(frame_bitmap, f)
  /\ held' = [held EXCEPT ![c] = @ \ {f}]

Next == \E c \in Clients : Alloc(c) \/ \E f \in Frames : Free(c, f)

Spec == Init /\ [][Next]_vars

TypeOK ==
  /\ frame_bitmap \in [Frames -> BOOLEAN]
  /\ held \in [Clients -> SUBSET Frames]

(***************************************************************************)
(* The scan of alloc_frame (FirstFree) agrees with its reference           *)
(* definition on every reachable bitmap: it finds the lowest clear bit,   *)
(* and reports "none" exactly when every bit is set.                      *)
(***************************************************************************)
FirstFitIsLowestFree ==
  LET clear == {i \in Frames : ~frame_bitmap[i]}
  IN  FirstFree(frame_bitmap, 0) = IF clear = {} THEN NFrames ELSE Min(clear)

(***************************************************************************)
(* The bitmap allocator implements the abstract pool of spec.md 4.A: the   *)
(* clear bits are the free pool, a successful alloc_frame hands out a      *)
(* frame of the pool, and it fails only when the pool is empty.           *)
(***************************************************************************)
Abs == INSTANCE AbstractFrames
         WITH free <- {i \in Frames : ~frame_bitmap[i]}, held <- held

AbstractAllocator == Abs!Spec
============================================================================
