---------------------------- MODULE BitmapLayout ----------------------------
(***************************************************************************)
(* Where the frame bitmap of src/mem/page_frame_allocator.c lives and      *)
(* which memory its accessors touch.  init_page_frame_allocator reserves   *)
(* bitmap_size bytes from bitmap_phys, computed for one bit per frame;     *)
(* set_bit, clear_bit and test_bit index frame_bitmap, a uint32_t *, by    *)
(* frame / 8, so every access is a 4-byte word of which 8 bits are used.   *)
(* The model picks the frame an accessor is called with and computes the  *)
(* physical bytes of the word it reads or writes.                          *)
(***************************************************************************)
EXTENDS Naturals

CONSTANTS
  KernelPhysicalEnd   \* mem.kernel_physical_end passed by kmain (linker symbol)

FRAME_SIZE == 4096
BITS_PER_BYTE == 8
WORD_BYTES == 4             \* sizeof(uint32_t), the element type of frame_bitmap

\* init_page_frame_allocator: 128 MiB of physical memory.
total_frames == (1024 * 1024 * 128) \div FRAME_SIZE

\* x & ~(FRAME_SIZE - 1) on a value below 2^32: round down to a page.
PageDown(x) == (x \div FRAME_SIZE) * FRAME_SIZE

bitmap_size ==
  PageDown((total_frames + BITS_PER_BYTE - 1) \div BITS_PER_BYTE + FRAME_SIZE - 1)

bitmap_phys == PageDown(KernelPhysicalEnd + FRAME_SIZE - 1)

kernel_end_frame == (bitmap_phys + bitmap_size) \div FRAME_SIZE

\* Mutant: the accessors index the uint32_t array by frame / 32.
WordBytes_per32(frame_idx) ==
  LET at == bitmap_phys + (frame_idx \div 32) * WORD_BYTES
  IN  at..(at + WORD_BYTES - 1)

\* The bytes of the word frame_bitmap[frame_idx / BITS_PER_BYTE].
WordBytes(frame_idx) ==
  LET at == bitmap_phys + (frame_idx \div BITS_PER_BYTE) * WORD_BYTES
  IN  at..(at + WORD_BYTES - 1)

\* The frame indices set_bit, clear_bit and test_bit are called with:
\* the ends of every quarter of the range alloc_frame scans.
Probes == {0, kernel_end_frame, 8191, 8192, 16383, 16384, total_frames - 1}

VARIABLE frame_idx

Init == frame_idx \in Probes

\* A call of set_bit / clear_bit / test_bit with another frame.
Access == frame_idx' \in Probes

Spec == Init /\ [][Access]_frame_idx

(***************************************************************************)
(* spec.md 3 reserves the bitmap's storage: memset clears it and the       *)
(* frames below kernel_end_frame mark it allocated.  set_bit, clear_bit    *)
(* and test_bit stay inside [bitmap_phys, bitmap_phys + bitmap_size) only  *)
(* for the first quarter of the frames: the word of frame_idx lies in the  *)
(* reservation exactly when frame_idx < total_frames \div 4.  Every frame  *)
(* from there up, all of which alloc_frame hands out, has its bit in       *)
(* memory past the reservation.                                            *)
(***************************************************************************)
BitmapCoversQuarterOfFrames ==
  (WordBytes(frame_idx) \subseteq bitmap_phys..(bitmap_phys + bitmap_size - 1))
    <=> frame_idx < total_frames \div 4
============================================================================
