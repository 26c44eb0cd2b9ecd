------------------------------- MODULE Initrd -------------------------------
(***************************************************************************)
(* The file operations of src/fs/initrd.c on descriptors held by callers.  *)
(* A file is named by its index in the header's table; a descriptor is    *)
(* the fs_descriptor_t the caller passes in.  initrd_readdir keeps its     *)
(* cursor in one static variable shared by every directory descriptor.    *)
(* initrd_close does nothing; Close models the caller dropping its fd.    *)
(***************************************************************************)
EXTENDS Naturals, Sequences

CONSTANTS
  FileSizes,   \* file sizes of the header's table, index i+1 for file i
  Fds,         \* descriptors callers hold
  ReadSizes    \* sizes callers pass to read

num_files == Len(FileSizes)
Files == 0..num_files - 1
\* 0xFFFFFFFF, given to "/"; it is only compared with num_files, and
\* 2^31 - 1 (TLC's largest integer) compares the same way.
ROOT_INODE == 2147483647
MaxSize == CHOOSE m \in {FileSizes[i] : i \in 1..num_files} :
             \A i \in 1..num_files : FileSizes[i] <= m
size(f) == FileSizes[f + 1]

VARIABLES fd, current_file

vars == <<fd, current_file>>

Closed == [open |-> FALSE, inode |-> 0, position |-> 0, type |-> "FILE", size |-> 0]

Init ==
  /\ fd = [d \in Fds |-> Closed]
  /\ current_file = 0

\* initrd_open("/"): a directory descriptor with inode 0xFFFFFFFF.
OpenRoot(d) ==
  /\ ~fd[d].open
  /\ fd' = [fd EXCEPT ![d] = [open |-> TRUE, inode |-> ROOT_INODE, position |-> 0,
                               type |-> "DIRECTORY", size |-> 0]]
  /\ UNCHANGED current_file

\* initrd_open of a file find_file finds: inode = its index in the table.
OpenFile(d, f) ==
  /\ ~fd[d].open
  /\ fd' = [fd EXCEPT ![d] = [open |-> TRUE, inode |-> f, position |-> 0,
                               type |-> "FILE", size |-> size(f)]]
  /\ UNCHANGED current_file

Close(d) ==
  /\ fd[d].open
  /\ fd' = [fd EXCEPT ![d] = Closed]
  /\ UNCHANGED current_file

\* initrd_read: a bad inode returns -1, a position at or past the end 0;
\* otherwise min(size, remaining) bytes are copied and position advances.
Read(d, n) ==
  /\ fd[d].open
  /\ fd[d].inode < num_files
  /\ fd[d].position < size(fd[d].inode)
  /\ LET remaining == size(fd[d].inode) - fd[d].position
         to_read == IF n < remaining THEN n ELSE remaining
     IN  fd' = [fd EXCEPT ![d].position = @ + to_read]
  /\ UNCHANGED current_file

\* Mutant: initrd_seek accepts an offset one past the end.
SeekAllowedPastEnd(off, sz) == off <= sz + 1

\* initrd_seek's check: offset > file->size is refused.
SeekAllowed(off, sz) == off <= sz

Seek(d, off) ==
  /\ fd[d].open
  /\ fd[d].inode < num_files
  /\ SeekAllowed(off, size(fd[d].inode))
  /\ fd' = [fd EXCEPT ![d].position = off]
  /\ UNCHANGED current_file

\* initrd_readdir on a directory descriptor with the shared cursor on a
\* file: copy its name, advance the cursor, return 1.
ReadDirEntry(d) ==
  /\ fd[d].open
  /\ fd[d].type = "DIRECTORY"
  /\ current_file < num_files
  /\ current_file' = current_file + 1
  /\ UNCHANGED fd

\* initrd_readdir with the cursor past the last file: reset it, return 0.
ReadDirEnd(d) ==
  /\ fd[d].open
  /\ fd[d].type = "DIRECTORY"
  /\ current_file >= num_files
  /\ current_file' = 0
  /\ UNCHANGED fd

Next ==
  \E d \in Fds :
    \/ OpenRoot(d) \/ Close(d) \/ ReadDirEntry(d) \/ ReadDirEnd(d)
    \/ \E f \in Files : OpenFile(d, f)
    \/ \E n \in ReadSizes : Read(d, n)
    \/ \E off \in 0..MaxSize + 1 : Seek(d, off)

Spec == Init /\ [][Next]_vars

TypeOK ==
  /\ fd \in [Fds -> [open : BOOLEAN, inode : Files \cup {0, ROOT_INODE},
                     position : 0..MaxSize, type : {"FILE", "DIRECTORY"},
                     size : 0..MaxSize]]
  /\ current_file \in 0..num_files

(***************************************************************************)
(* A file descriptor's position never passes the end of its file, whatever *)
(* mix of reads and seeks the callers make: read's min(size, remaining)   *)
(* and seek's range check keep it in 0..size, so the memcpy at            *)
(* initrd_data + offset + position stays inside the file.                 *)
(***************************************************************************)
PositionWithinFile ==
  \A d \in Fds : fd[d].open /\ fd[d].type = "FILE" => fd[d].position <= fd[d].size
============================================================================
