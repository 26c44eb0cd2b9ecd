-------------------------- MODULE MCFrameAllocator --------------------------
(***************************************************************************)
(* The allocator's callers, and beside them the frame numbers set_bit,     *)
(* clear_bit and test_bit are called with on a 128 MiB machine, where the  *)
(* bitmap's storage is laid out (BitmapLayout).  The two parts share no    *)
(* state; each step is one of them.                                        *)
(***************************************************************************)
EXTENDS FrameAllocator, TLC

\* Two callers, six frames of which frame 0 (low memory) is reserved.
MCClients == {"pf", "fork"}

VARIABLE frame_idx

\* An illustrative kernel image ending at 1 MiB + 200 KiB.
Layout == INSTANCE BitmapLayout WITH KernelPhysicalEnd <- 1253376

MCInit == Init /\ Layout!Init

MCNext ==
  \/ Next /\ UNCHANGED frame_idx
  \/ Layout!Access /\ UNCHANGED vars

MCSpec == MCInit /\ [][MCNext]_<<vars, frame_idx>>

\* The property of BitmapLayout, on the frame the accessors are called with.
BitmapCoversQuarterOfFrames == Layout!BitmapCoversQuarterOfFrames
============================================================================
