----------------------------- MODULE InitrdImage -----------------------------
(***************************************************************************)
(* The boot modules kmain can be handed at index 1, as init_initrd reads   *)
(* them.  One kind is the image src/tools/create_initrd.c writes: the      *)
(* signature "INITRD\0\0", the header (magic, num_files and the file       *)
(* table, add_file's entries), then the bodies in argument order.  The     *)
(* other is any module that is not such an image.                          *)
(*                                                                         *)
(* A module is described by what init_initrd looks at: whether its first   *)
(* six bytes are the signature, the offsets below 64 where the 32-bit      *)
(* word is 0xBF, and for each offset where a header could start, the       *)
(* header found there and the bytes after it (sizeof(initrd_header_t)      *)
(* further on).  A file body is a sequence of tokens standing for bytes.   *)
(* kind and src say what the module really is: ground truth for the        *)
(* properties, never read by the kernel.                                   *)
(***************************************************************************)
EXTENDS Naturals, Sequences, SequencesExt

INITRD_MAGIC == 191   \* 0xBF
MAX_FILES == 64

\* The header create_initrd's main zeroes and fills (lines 93-96).
EmptyHeader == [present |-> TRUE, magic |-> INITRD_MAGIC, num_files |-> 0, files |-> <<>>]

\* Mutant: add_file's offset loop also counts the entry just filled in.
add_file_offset_incl(hdr, size) ==
  FoldLeft(LAMBDA acc, e : acc + e.size, 0, hdr.files) + size

\* add_file's offset: the sizes of the files already in the table (60-63).
add_file_offset(hdr, size) == FoldLeft(LAMBDA acc, e : acc + e.size, 0, hdr.files)

\* add_file (lines 42-79): a file fopen refuses is skipped; otherwise a
\* table entry with the name (strncpy to 31), the size, FS_TYPE_FILE,
\* FS_PERM_READ and the offset; num_files++; the body appended to the
\* output.  img is <<header, bodies>>; f.opens says whether fopen succeeds.
add_file(img, f) ==
  LET hdr == img[1]
      size == Len(f.content)
  IN  IF ~f.opens THEN img
      ELSE << [hdr EXCEPT !.files = Append(@, [name |-> f.name, size |-> size,
                                                 offset |-> add_file_offset(hdr, size)]),
                          !.num_files = @ + 1],
              img[2] \o f.content >>

\* create_initrd's main (81-125) on the argument list files: the signature,
\* the header rewritten at offset 8 after every add_file, the bodies.  The
\* magic word 0xBF is at offset 8.
create_initrd(files) ==
  LET img == FoldLeft(add_file, <<EmptyHeader, <<>>>>, files)
  IN  [cmdline |-> TRUE, kind |-> "initrd", src |-> files,
       sig |-> TRUE, magic_offsets |-> {8},
       header_at |-> (8 :> img[1]), data_after |-> (8 :> img[2])]

\* A module that is not an initrd image: no signature, and either no word
\* 0xBF in its first 64 offsets (k = -1) or a first one at offset k,
\* followed by the word w, which init_initrd takes for num_files.  Its file
\* table and data are whatever bytes follow (no entries, no data).
RawModule(cmdline, k, w) ==
  [cmdline |-> cmdline, kind |-> "raw", src |-> <<>>,
   sig |-> FALSE, magic_offsets |-> IF k < 0 THEN {} ELSE {k},
   header_at |-> IF k < 0 THEN <<>>
                 ELSE (k :> [present |-> TRUE, magic |-> INITRD_MAGIC,
                             num_files |-> w, files |-> <<>>]),
   data_after |-> IF k < 0 THEN <<>> ELSE (k :> <<>>)]

\* A module that starts with the signature but whose header at offset 8
\* holds the word m where the magic should be and w as num_files.
SignedModule(m, w) ==
  [cmdline |-> TRUE, kind |-> "raw", src |-> <<>>,
   sig |-> TRUE, magic_offsets |-> IF m = INITRD_MAGIC THEN {8} ELSE {},
   header_at |-> (8 :> [present |-> TRUE, magic |-> m, num_files |-> w, files |-> <<>>]),
   data_after |-> (8 :> <<>>)]
====
