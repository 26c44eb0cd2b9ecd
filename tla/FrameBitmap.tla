---------------------------- MODULE FrameBitmap ----------------------------
(***************************************************************************)
(* The physical frame bitmap of src/mem/page_frame_allocator.c as pure     *)
(* operators.  A frame is named by its index (physical address / 4096);   *)
(* alloc_frame returns the address 0, i.e. frame 0, when it finds no free  *)
(* frame, so frame 0 doubles as the failure value.                         *)
(***************************************************************************)
EXTENDS Naturals

CONSTANTS
  NFrames,        \* total_frames: frames covered by the bitmap
  KernelEndFrame  \* kernel_end_frame: first frame after the bitmap storage

ASSUME NFrames \in Nat \ {0}
ASSUME KernelEndFrame \in 1..NFrames   \* low memory (frame 0 included) is reserved

Frames == 0..NFrames - 1

\* alloc_frame's "no frame" result: the physical address 0.
NoFrame == 0

\* init_page_frame_allocator: the bitmap is zeroed, then every frame below
\* kernel_end_frame (low memory, kernel image, bitmap storage) is set.
InitBitmap == [i \in Frames |-> i < KernelEndFrame]

\* Mutant: the scan stops one frame short and never finds the last frame.
RECURSIVE FirstFreeShort(_, _)
FirstFreeShort(bm, i) ==
  IF i >= NFrames - 1 THEN NFrames
  ELSE IF ~bm[i] THEN i
  ELSE FirstFreeShort(bm, i + 1)

\* The linear scan of alloc_frame: the first clear bit at or after index i,
\* or NFrames when there is none.
RECURSIVE FirstFree(_, _)
FirstFree(bm, i) ==
  IF i >= NFrames THEN NFrames
  ELSE IF ~bm[i] THEN i
  ELSE FirstFree(bm, i + 1)

\* Mutant: alloc_frame without its failure return: after a full scan it
\* hands out the index one past the last frame.
alloc_frame_past_end(bm) ==
  LET i == FirstFree(bm, 0)
  IN  [frame |-> i, bitmap |-> IF i = NFrames THEN bm ELSE [bm EXCEPT ![i] = TRUE]]

\* Mutant: alloc_frame returns the free frame without calling set_bit.
alloc_frame_no_set(bm) ==
  LET i == FirstFree(bm, 0)
  IN  IF i = NFrames THEN [frame |-> NoFrame, bitmap |-> bm]
                     ELSE [frame |-> i, bitmap |-> bm]

\* alloc_frame: set the first clear bit and return its frame, or return 0
\* leaving the bitmap unchanged.
alloc_frame(bm) ==
  LET i == FirstFree(bm, 0)
  IN  IF i = NFrames
        THEN [frame |-> NoFrame, bitmap |-> bm]
        ELSE [frame |-> i, bitmap |-> [bm EXCEPT ![i] = TRUE]]

\* free_frame: clear the bit; an out-of-range frame is ignored.
free_frame(bm, f) == IF f < NFrames THEN [bm EXCEPT ![f] = FALSE] ELSE bm

\* is_frame_allocated: out-of-range frames count as allocated.
is_frame_allocated(bm, f) == IF f < NFrames THEN bm[f] ELSE TRUE
============================================================================
