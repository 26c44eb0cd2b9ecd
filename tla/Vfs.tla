-------------------------------- MODULE Vfs --------------------------------
(***************************************************************************)
(* The mount table of src/fs/vfs.c.  mount_points[i].path is a pointer;    *)
(* mount_fs points it at path_buffers[idx] and copies the path there, and  *)
(* unmount_fs shifts both the structs and the buffers down.  A pointer is *)
(* modelled as the index of the buffer it points at, so the model sees    *)
(* which buffer each entry reads after a shift.  A path is a sequence of  *)
(* one-character strings, because find_mount_point compares characters.  *)
(* The device string, ops and private_data only reach the log or are     *)
(* copied with the struct, and are left out.                             *)
(***************************************************************************)
EXTENDS Naturals, Sequences, SequencesExt

CONSTANTS
  MAX_MOUNT_POINTS,
  MountPaths,       \* paths mount_fs and unmount_fs are called with
  LookupPaths       \* paths open_file and the other path calls look up

Idx == 0..MAX_MOUNT_POINTS - 1
NULL == -1           \* a NULL char *

VARIABLES num_mount_points, mount_points, path_buffers

vars == <<num_mount_points, mount_points, path_buffers>>

\* init_vfs: the table is zeroed; the static buffers start empty.
Init ==
  /\ num_mount_points = 0
  /\ mount_points = [i \in Idx |-> [path |-> NULL]]
  /\ path_buffers = [i \in Idx |-> <<>>]

\* The string entry i's path pointer reads.
PathOf(i) == path_buffers[mount_points[i].path]

Mounted == 0..num_mount_points - 1

\* Mutant: mount_fs without its num_mount_points >= MAX_MOUNT_POINTS check.
MountFsNoLimit(p) ==
  /\ \A i \in Mounted : PathOf(i) # p
  /\ path_buffers' = [path_buffers EXCEPT ![num_mount_points] = p]
  /\ mount_points' = [mount_points EXCEPT ![num_mount_points].path = num_mount_points]
  /\ num_mount_points' = num_mount_points + 1

\* mount_fs on a path not mounted, with room left: copy the path into
\* path_buffers[idx] and point entry idx at it.  (A full table or a path
\* strcmp finds already mounted returns -1 and changes nothing.)
MountFs(p) ==
  /\ num_mount_points < MAX_MOUNT_POINTS
  /\ \A i \in Mounted : PathOf(i) # p
  /\ path_buffers' = [path_buffers EXCEPT ![num_mount_points] = p]
  /\ mount_points' = [mount_points EXCEPT ![num_mount_points].path = num_mount_points]
  /\ num_mount_points' = num_mount_points + 1

\* unmount_fs: the first entry whose path strcmp-equals p is removed by
\* copying each later struct (its pointer included) and each later buffer
\* down one place.
UnmountFs(p) ==
  /\ \E i \in Mounted : PathOf(i) = p
  /\ LET i == CHOOSE k \in Mounted : PathOf(k) = p /\ \A l \in 0..k - 1 : PathOf(l) # p
         Shift(f) == [j \in Idx |-> IF i <= j /\ j < num_mount_points - 1
                                      THEN f[j + 1] ELSE f[j]]
     IN  /\ mount_points' = Shift(mount_points)
         /\ path_buffers' = Shift(path_buffers)
  /\ num_mount_points' = num_mount_points - 1

Next == \E p \in MountPaths : MountFs(p) \/ UnmountFs(p)

Spec == Init /\ [][Next]_vars

(***************************************************************************)
(* find_mount_point                                                        *)
(***************************************************************************)
\* strncmp(path, m, n) == 0 for the NUL-terminated strings p and m, n = strlen(m).
StrnEq(p, m, n) == Len(p) >= n /\ SubSeq(p, 1, n) = SubSeq(m, 1, n)

\* Mutant: the check that the match ends at a '/' or at the end is dropped.
AtBoundaryAny(p, n) == TRUE

\* path[mount_path_len] == '/' || path[mount_path_len] == '\0'
AtBoundary(p, n) == Len(p) = n \/ p[n + 1] = "/"

\* The loop over the table: the root mount "/" is taken only while nothing
\* matched; any other mount whose path is a prefix ending at a boundary
\* replaces a shorter match.  Returns the entry's index or NULL.
RECURSIVE FindFrom(_, _, _, _)
FindFrom(p, i, best, bestLen) ==
  IF i >= num_mount_points THEN best
  ELSE LET m == PathOf(i)
           n == Len(m)
       IN  IF n = 1 /\ m[1] = "/" /\ Len(p) >= 1 /\ p[1] = "/"
             THEN IF bestLen = 0 THEN FindFrom(p, i + 1, i, 1)
                                 ELSE FindFrom(p, i + 1, best, bestLen)
           ELSE IF StrnEq(p, m, n) /\ AtBoundary(p, n) /\ n > bestLen
             THEN FindFrom(p, i + 1, i, n)
           ELSE FindFrom(p, i + 1, best, bestLen)

find_mount_point(p) == FindFrom(p, 0, NULL, 0)

TypeOK ==
  /\ num_mount_points \in 0..MAX_MOUNT_POINTS
  /\ mount_points \in [Idx -> [path : Idx \cup {NULL}]]
  /\ path_buffers \in [Idx -> MountPaths \cup {<<>>}]

\* Reference: p lies under mount path m when m is "/" and p is absolute, or
\* p is m, or p continues m with a "/".
Under(p, m) ==
  \/ m = <<"/">> /\ Len(p) >= 1 /\ p[1] = "/"
  \/ p = m
  \/ IsPrefix(m \o <<"/">>, p)

(***************************************************************************)
(* find_mount_point returns the mount whose path is the longest one the    *)
(* looked-up path lies under (the first such entry), or NULL when there is *)
(* none: the character loop with its root special case and its boundary   *)
(* check agrees with the path-prefix definition on every table mount and  *)
(* unmount can produce.                                                   *)
(***************************************************************************)
LookupIsLongestPrefix ==
  \A p \in LookupPaths :
    LET cand == {i \in Mounted : Under(p, PathOf(i))}
        longest == {i \in cand : \A j \in cand : Len(PathOf(j)) <= Len(PathOf(i))}
    IN  find_mount_point(p) =
          IF cand = {} THEN NULL
          ELSE CHOOSE i \in longest : \A j \in longest : i <= j
============================================================================
