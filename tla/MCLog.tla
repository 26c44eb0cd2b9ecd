------------------------------- MODULE MCLog -------------------------------
(***************************************************************************)
(* The logger with log_write calls shaped like the kernel's own: their     *)
(* text is cut to a byte or two, their directives and arguments kept.      *)
(***************************************************************************)
EXTENDS Log

\* The format a LOG_<level>(body, ...) macro hands to log_write.
Fmt(level, body) == LogColor[level + 1] \o body \o LOG_COLOR_RESET

Str(bytes) == [present |-> TRUE, bytes |-> bytes]

\* EAX values at int 0x80: a valid call, and the ends of the int32 range.
SyscallNumbers == {0, 10, -1, INT32_MAX, INT32_MIN}

MCCalls ==
  { \* kmain.c:42 LOG_INFO("Read %d bytes from file", bytes_read)
    [level |-> LOG_LEVEL_INFO, fmt |-> Fmt(LOG_LEVEL_INFO, <<"R", "%", "d">>), args |-> <<38>>],
    \* page_frame_allocator.c:148, no current process: PID (uint32_t)-1
    [level |-> LOG_LEVEL_DEBUG, fmt |-> Fmt(LOG_LEVEL_DEBUG, <<"P", "%", "d">>), args |-> <<-1>>],
    \* page_frame_allocator.c:161, a fault at 0xC0100000 from eip 0x100000
    [level |-> LOG_LEVEL_ERROR,
     fmt |-> Fmt(LOG_LEVEL_ERROR, <<"0", "x", "%", "x", ",", "%", "x">>),
     args |-> <<-1072693248, 1048576>>],
    \* syscall.c:77 LOG_INFO("%s", fmt) of a user string holding a '%'
    [level |-> LOG_LEVEL_INFO, fmt |-> Fmt(LOG_LEVEL_INFO, <<"%", "s">>),
     args |-> <<Str(<<"h", "%", "d">>)>>],
    \* kmain.c:20 LOG_ERROR("Failed to open file: %s", path) with path NULL
    [level |-> LOG_LEVEL_ERROR, fmt |-> Fmt(LOG_LEVEL_ERROR, <<"F", "%", "s">>),
     args |-> <<[present |-> FALSE, bytes |-> <<>>]>>],
    \* initrd.c:17 LOG_DEBUG("  %02x ...", data[0]): outside the contract
    [level |-> LOG_LEVEL_DEBUG, fmt |-> Fmt(LOG_LEVEL_DEBUG, <<"%", "0", "2", "x">>),
     args |-> <<191>>] }
  \cup
  \* syscall.c:49 LOG_DEBUG("Syscall %d received ... 0x%x ...", syscall_num, arg1)
  \* and :53 LOG_ERROR("Invalid syscall: %d", syscall_num): user mode picks
  \* EAX and EBX, so any int32 reaches %d.
  { [level |-> LOG_LEVEL_DEBUG, fmt |-> Fmt(LOG_LEVEL_DEBUG, <<"S", "%", "d", "%", "x">>),
     args |-> <<n, n>>] : n \in SyscallNumbers }
  \cup
  { [level |-> LOG_LEVEL_ERROR, fmt |-> Fmt(LOG_LEVEL_ERROR, <<"I", "%", "d">>),
     args |-> <<n>>] : n \in SyscallNumbers \ {0} }
============================================================================
