------------------------------- MODULE KernelFs -------------------------------
(***************************************************************************)
(* The filesystem part of kmain's boot: init_vfs, then for a boot module   *)
(* i > 0 with a command line init_initrd (src/fs/initrd.c) on its bytes,   *)
(* mount_fs("/") with the initrd ops, and on success kmain's self-tests    *)
(* test_list_directory and test_read_file (src/kmain.c 15-65), which go    *)
(* through open_file, read_directory, read_file and close_file of          *)
(* src/fs/vfs.c.  Boot.tla sequences these steps; this module gives what   *)
(* each one does to the filesystem state.                                  *)
(*                                                                         *)
(* initrd_header and initrd_data are the statics of initrd.c: a header     *)
(* value (present = FALSE for NULL) and the bytes a pointer reads from.    *)
(* A path is <<"/", name>>: only "/" is ever mounted, so find_mount_point  *)
(* looks at the leading '/' alone and find_file compares the rest whole.  *)
(***************************************************************************)
EXTENDS InitrdImage, FiniteSets

CONSTANT Modules   \* what the loader may pass as a boot module i > 0

Root == <<"/">>
TestNames == <<"hello.txt", "test.txt", "README.txt">>   \* kmain.c 121-123
TestPaths == {<<"/", TestNames[k]>> : k \in 1..3}
BUFFER_SIZE == 512   \* test_read_file's char buffer[512]
MAX_MOUNT_POINTS == 8   \* vfs.c 6

VARIABLES
  num_mount_points, mount_points, path_buffers,  \* vfs.c, as in Vfs.tla
  modules,         \* modules[i]: boot module i > 0 (input, never changes)
  initrd_header,   \* initrd.c initrd_header
  initrd_data,     \* initrd.c initrd_data
  current_file,    \* initrd_readdir's static cursor
  tested,          \* the module whose mount the self-tests ran on (0: none)
  listed,          \* what test_list_directory read
  read_result      \* read_result[k]: what test_read_file(TestPaths k) got

fsvars == <<num_mount_points, mount_points, path_buffers, modules, initrd_header,
            initrd_data, current_file, tested, listed, read_result>>

V == INSTANCE Vfs WITH MAX_MOUNT_POINTS <- MAX_MOUNT_POINTS, MountPaths <- {Root},
                       LookupPaths <- TestPaths

NoHeader == [present |-> FALSE, magic |-> 0, num_files |-> 0, files |-> <<>>]
NoData == [present |-> FALSE, bytes |-> <<>>]
NotRun == [outcome |-> "not_run", bytes |-> <<>>]

\* initrd.c 38-53: the temporary header, one file "test.txt" whose bytes
\* are temp_data without its NUL (38 of them).
TempContent == [j \in 1..38 |-> "m"]
TempFiles == <<[name |-> "test.txt", content |-> TempContent, opens |-> TRUE]>>
TempHeader == [present |-> TRUE, magic |-> INITRD_MAGIC, num_files |-> 1,
               files |-> <<[name |-> "test.txt", size |-> 38, offset |-> 0]>>]
TempData == [present |-> TRUE, bytes |-> TempContent]

\* (uint8_t*)&temp_header + sizeof(initrd_header_t) (line 67): whatever static
\* the linker placed after temp_header, read as test.txt's 38 bytes.
AfterTempHeader == [present |-> TRUE, bytes |-> [j \in 1..38 |-> "?"]]

\* files[i] of a header: the entries the module holds, and past them (a
\* num_files beyond the table's entries) whatever bytes follow, one value.
GarbageEntry == [name |-> "?", size |-> 0, offset |-> 0]
FileAt(h, i) == IF i < Len(h.files) THEN h.files[i + 1] ELSE GarbageEntry

FsInit(mods_count) ==
  /\ num_mount_points = 0
  /\ mount_points = [i \in V!Idx |-> [path |-> V!NULL]]
  /\ path_buffers = [i \in V!Idx |-> <<>>]
  /\ modules \in [1..mods_count - 1 -> Modules]
  /\ initrd_header = NoHeader
  /\ initrd_data = NoData
  /\ current_file = 0
  /\ tested = 0
  /\ listed = [run |-> FALSE, names |-> <<>>]
  /\ read_result = [k \in 1..3 |-> NotRun]

\* init_vfs (vfs.c 14-18): the table zeroed and the count reset.
InitVfs ==
  /\ num_mount_points' = 0
  /\ mount_points' = [i \in V!Idx |-> [path |-> V!NULL]]
  /\ UNCHANGED <<path_buffers, modules, initrd_header, initrd_data, current_file,
                 tested, listed, read_result>>

\* Where init_initrd takes the header of module b: data + 8 after the
\* signature (22-24), else the first offset below 64 holding the word 0xBF
\* (26-32), else none (-1).
HeaderOffset(b) ==
  LET found == b.magic_offsets \cap 0..63
  IN  IF b.sig THEN 8
      ELSE IF found = {} THEN -1
      ELSE CHOOSE o \in found : \A p \in found : o <= p

\* init_initrd (13-76).  initrd_header is static and never reset: with no
\* header found in b the one of an earlier module stays, and only when
\* there is none does the temporary header replace it (35-57).  A header
\* whose magic is wrong stays in use, and initrd_data keeps its old value
\* (62-65).  Otherwise line 67 sets initrd_data just past the header in
\* use: past the module's header, past an earlier module's header (where
\* it already points), or past temp_header.  The loop of 71-75 only logs.
InitInitrd(b) ==
  LET off == HeaderOffset(b)
      hdr == IF off >= 0 THEN b.header_at[off] ELSE initrd_header
  IN  /\ IF ~hdr.present
           THEN /\ initrd_header' = TempHeader
                /\ initrd_data' = TempData
           ELSE /\ initrd_header' = hdr
                /\ initrd_data' = CASE hdr.magic # INITRD_MAGIC -> initrd_data
                                    [] off >= 0 -> [present |-> TRUE, bytes |-> b.data_after[off]]
                                    [] hdr = TempHeader -> AfterTempHeader
                                    [] OTHER -> initrd_data
      /\ UNCHANGED <<num_mount_points, mount_points, path_buffers, modules,
                     current_file, tested, listed, read_result>>

\* mount_fs("/", "initrd", ops, NULL) (vfs.c 20-49), succeeding: i is the
\* module whose init_initrd came before.
MountInitrd(i) ==
  /\ V!MountFs(Root)
  /\ tested' = i
  /\ UNCHANGED <<modules, initrd_header, initrd_data, current_file, listed, read_result>>

\* mount_fs refusing: the table is full or "/" is already mounted.
MountRefused ==
  \/ num_mount_points >= MAX_MOUNT_POINTS
  \/ \E i \in V!Mounted : V!PathOf(i) = Root

\* find_mount_point_by_inode (vfs.c 102-108): the inode is ignored and the
\* first mount is taken, whichever filesystem the descriptor came from.
find_mount_point_by_inode == IF num_mount_points > 0 THEN 0 ELSE V!NULL

\* close_file, read_file and read_directory (vfs.c 125-198) reach the
\* mount's operation, always initrd's here, or return -1 when
\* find_mount_point_by_inode finds no mount.
fd_call_routed == find_mount_point_by_inode # V!NULL

\* find_file (initrd.c 78-94): the index of the first of num_files entries
\* whose name is the path without its '/', or -1.
find_file(path) ==
  LET h == initrd_header
      hits == {i \in 0..h.num_files - 1 : <<FileAt(h, i).name>> = Tail(path)}
  IN  IF ~h.present \/ hits = {} THEN -1
      ELSE CHOOSE i \in hits : \A j \in hits : i <= j

\* initrd_open of a file path (96-121): the inode is find_file's index,
\* -1 when it finds none.
initrd_open(path) == find_file(path)

\* initrd_read (128-147) from position 0 of inode f asking for n bytes:
\* -1 for an inode past num_files, else min(n, size) bytes memcpy'd from
\* initrd_data + offset.  Bytes past the data, or from a NULL initrd_data,
\* are whatever memory holds there ("?").
initrd_read(f, n) ==
  LET e == FileAt(initrd_header, f)
      to_read == IF n < e.size THEN n ELSE e.size
  IN  IF f >= initrd_header.num_files THEN [outcome |-> "error", bytes |-> <<>>]
      ELSE [outcome |-> "read",
            bytes |-> [j \in 1..to_read |->
                         IF initrd_data.present /\ e.offset + j <= Len(initrd_data.bytes)
                           THEN initrd_data.bytes[e.offset + j] ELSE "?"]]

\* initrd_readdir (174-192) called until it returns 0 on the root: the
\* names from the shared cursor up to num_files (strncpy of at most 63
\* characters keeps every 31-character name whole).
initrd_readdir_all ==
  [j \in 1..initrd_header.num_files - current_file |->
     FileAt(initrd_header, current_file + j - 1).name]

\* test_list_directory (kmain.c 48-65): open_file("/") reaches initrd_open,
\* which always opens the root; read_directory is called until it returns
\* 0, which resets the cursor; close_file does nothing.  Were no mount
\* found by inode, read_directory's -1 would keep the loop going for ever
\* (no step).
TestListDirectory ==
  /\ V!find_mount_point(Root) # V!NULL
  /\ fd_call_routed
  /\ listed' = [run |-> TRUE, names |-> initrd_readdir_all]
  /\ current_file' = 0
  /\ UNCHANGED <<num_mount_points, mount_points, path_buffers, modules,
                 initrd_header, initrd_data, tested, read_result>>

\* test_read_file (kmain.c 15-46) on path: open_file, the size check
\* against the buffer, one read_file of fd.size bytes, close_file.
ReadOutcome(path) ==
  LET f == initrd_open(path)
      size == FileAt(initrd_header, f).size
  IN  CASE V!find_mount_point(path) = V!NULL \/ f < 0 ->
             [outcome |-> "absent", bytes |-> <<>>]
        [] size >= BUFFER_SIZE -> [outcome |-> "too_large", bytes |-> <<>>]
        [] ~fd_call_routed -> [outcome |-> "error", bytes |-> <<>>]
        [] OTHER -> initrd_read(f, size)

TestReadFile(k) ==
  /\ read_result' = [read_result EXCEPT ![k] = ReadOutcome(<<"/", TestNames[k]>>)]
  /\ UNCHANGED <<num_mount_points, mount_points, path_buffers, modules,
                 initrd_header, initrd_data, current_file, tested, listed>>

FsTypeOK ==
  /\ num_mount_points \in 0..MAX_MOUNT_POINTS
  /\ initrd_header.present \in BOOLEAN /\ initrd_data.present \in BOOLEAN
  /\ current_file \in 0..initrd_header.num_files
  /\ listed.run \in BOOLEAN
  /\ read_result \in [1..3 -> [outcome : {"not_run", "absent", "too_large", "error", "read"},
                              bytes : Seq(STRING)]]

(***************************************************************************)
(* Properties                                                              *)
(***************************************************************************)
\* The files create_initrd was given and stored (fopen succeeded), or the
\* temporary file of init_initrd for a module with no header at all.
Stored(b) == IF b.kind = "initrd" THEN SelectSeq(b.src, LAMBDA f : f.opens)
             ELSE TempFiles

\* What test_read_file should get for name: the first stored file of
\* that name, unless it does not fit the buffer.
Expected(b, name) ==
  LET s == Stored(b)
      hits == {j \in 1..Len(s) : s[j].name = name}
      f == s[CHOOSE j \in hits : \A l \in hits : j <= l]
  IN  CASE hits = {} -> [outcome |-> "absent", bytes |-> <<>>]
        [] Len(f.content) >= BUFFER_SIZE -> [outcome |-> "too_large", bytes |-> <<>>]
        [] OTHER -> [outcome |-> "read", bytes |-> f.content]

\* A module built by create_initrd, or one with neither signature nor magic.
WellFormed(b) == b.kind = "initrd" \/ (~b.sig /\ b.magic_offsets = {})

(***************************************************************************)
(* kmain's self-tests see the files the initrd was built from: after       *)
(* create_initrd's add_file offsets, init_initrd's header and data         *)
(* pointers, mount_fs, and the VFS routing of open_file by path and of     *)
(* read_file and read_directory by inode, test_list_directory lists the   *)
(* stored names in order and each test_read_file reads exactly the bytes   *)
(* given for that name (or reports it absent or too large).  For a module  *)
(* with no initrd in it, they see the temporary "test.txt".               *)
(***************************************************************************)
SelfTestsSeeImage ==
  tested > 0 /\ WellFormed(modules[tested]) =>
    LET b == modules[tested]
    IN  /\ listed.run => listed.names = [j \in 1..Len(Stored(b)) |-> Stored(b)[j].name]
        /\ \A k \in 1..3 : read_result[k] # NotRun =>
                             read_result[k] = Expected(b, TestNames[k])

(***************************************************************************)
(* spec.md 6: the initrd the kernel mounts has the magic 0xBF and at most  *)
(* 64 files (num_files <= 64), and its data pointer is set.  init_initrd   *)
(* checks neither the count nor, before mount_fs, whether it returned     *)
(* early on a bad magic.                                                   *)
(***************************************************************************)
InitrdHeaderValid ==
  tested > 0 =>
    /\ initrd_header.magic = INITRD_MAGIC
    /\ initrd_header.num_files <= MAX_FILES
    /\ initrd_data.present
====
