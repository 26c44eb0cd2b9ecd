-------------------------------- MODULE Log --------------------------------
(***************************************************************************)
(* The kernel logger of src/lib/log.c over the serial driver.  The LOG_*   *)
(* macros of log.h call log_write(level, colour fmt reset, args...);       *)
(* log_write sends the level tag, pads it to ten columns, walks the       *)
(* format, and ends the line, each piece by its own serial_write call.     *)
(* Every serial_write can lose the tail of what it sends when the          *)
(* transmit FIFO does not drain in time, and log_write ignores the count   *)
(* it returns.                                                             *)
(*                                                                         *)
(* A log call is [level, fmt, args]: fmt a sequence of bytes, args the     *)
(* values va_arg takes, in order: an int32 for %d and %x, a byte for %c,   *)
(* and for %s a record saying whether the pointer is NULL and the bytes.  *)
(***************************************************************************)
EXTENDS Serial, FiniteSets

CONSTANTS
  Calls,          \* the log_write calls the kernel makes
  MAX_STALLS      \* FIFO timeouts per line the fault model allows

LOG_LEVEL_DEBUG == 0
LOG_LEVEL_INFO == 1
LOG_LEVEL_WARN == 2
LOG_LEVEL_ERROR == 3
LOG_LEVEL_FATAL == 4
Levels == LOG_LEVEL_DEBUG..LOG_LEVEL_FATAL

ESC == "ESC"
LOG_COLOR_RESET == <<ESC, "[", "0", "m">>
\* LOG_COLOR_DEBUG .. LOG_COLOR_FATAL of log.h, by level + 1.
LogColor == << <<ESC, "[", "3", "6", "m">>, <<ESC, "[", "3", "2", "m">>,
               <<ESC, "[", "3", "3", "m">>, <<ESC, "[", "3", "1", "m">>,
               <<ESC, "[", "3", "5", "m">> >>
LevelNames == << <<"D","E","B","U","G">>, <<"I","N","F","O">>, <<"W","A","R","N">>,
                 <<"E","R","R","O","R">>, <<"F","A","T","A","L">> >>

level_strings(level) ==
  LogColor[level + 1] \o <<"[">> \o LevelNames[level + 1] \o <<"]">> \o LOG_COLOR_RESET
level_lengths == <<7, 6, 6, 7, 7>>

\* current_log_level (5): log_set_level has no caller, so it stays DEBUG.
current_log_level == LOG_LEVEL_DEBUG

NullText == <<"(", "n", "u", "l", "l", ")">>

\* The directives log_write's switch (64-91) knows; each takes an argument.
Conversions == {"d", "x", "s", "c"}

(***************************************************************************)
(* One case of the switch: the texts serial_write may be handed for the    *)
(* byte c after a '%' with the next argument arg (several only where       *)
(* serial_write_decimal's behaviour is undefined).  The default case sends *)
(* the byte after the '%' and takes no argument.                           *)
(***************************************************************************)
Conversion(c, arg) ==
  CASE c = "d" -> num_to_decimal(arg)
    [] c = "x" -> {num_to_hex(arg)}
    [] c = "s" -> {IF arg.present THEN arg.bytes ELSE NullText}
    [] c = "c" -> {<<arg>>}
    [] OTHER   -> {<<c>>}

(***************************************************************************)
(* The loop of log_write (60-115) over the rest p of the format: the       *)
(* sequence of serial_write calls it makes, each the set of texts it may   *)
(* be handed (one text but for %d of INT32_MIN).  A colour                 *)
(* sequence, from ESC to the next 'm', is sent whole except at INFO, where *)
(* it is skipped; an ESC with no 'm' after it ends the walk at the NUL.    *)
(***************************************************************************)
RECURSIVE FormatWalk(_, _, _)
FormatWalk(level, p, args) ==
  IF p = <<>> THEN <<>>
  ELSE IF Head(p) = "%"
  THEN LET c == p[2]
           rest == IF c \in Conversions THEN Tail(args) ELSE args
       IN  <<Conversion(c, IF args = <<>> THEN 0 ELSE Head(args))>>
             \o FormatWalk(level, SubSeq(p, 3, Len(p)), rest)
  ELSE IF Head(p) = ESC
  THEN LET m == SelectInSeq(p, LAMBDA b : b = "m")
           after == SubSeq(p, m + 1, Len(p))
       IN  CASE m = 0 -> <<>>
             [] level # LOG_LEVEL_INFO -> <<{SubSeq(p, 1, m)}>> \o FormatWalk(level, after, args)
             [] OTHER -> FormatWalk(level, after, args)
  ELSE <<{<<Head(p)>>}>> \o FormatWalk(level, Tail(p), args)

(***************************************************************************)
(* log_write (45-119): its serial_write calls in order.  The              *)
(* level filter (46-48), the tag (50), one call per padding space (52-55), *)
(* the format, and the newline (118).                                      *)
(***************************************************************************)
log_write(level, fmt, args) ==
  IF level < current_log_level THEN <<>>
  ELSE << {level_strings(level)} >>
         \o [i \in 1..(10 - level_lengths[level + 1]) |-> {<<" ">>}]
         \o FormatWalk(level, fmt, args)
         \o << {<<"\n">>} >>

-----------------------------------------------------------------------------
(***************************************************************************)
(* The logger as the kernel drives it: kmain calls log_init first, then    *)
(* LOG_* calls follow one another.  Each serial_write sends its bytes one *)
(* by one through serial_write_byte, which polls the transmit FIFO and    *)
(* gives up after SERIAL_MAX_WAIT_ATTEMPTS polls; serial_write then       *)
(* returns early, and log_write goes on with its next piece.  line holds  *)
(* the bytes of the current call that reached the wire, pending the       *)
(* pieces still to send (the head: what is left of the current           *)
(* serial_write), attempts the polls of the current wait loop, stalls the *)
(* timeouts so far in this call.  fifo_empty is the UART's THRE bit,      *)
(* which only the hardware sets.  uart is the port the kernel finds:      *)
(* "live" (it transmits, sometimes slower than a wait loop) or "dead"     *)
(* (absent or stuck: the FIFO never drains).                              *)
(***************************************************************************)
VARIABLES serial_state, call, pending, line, stalls, attempts, fifo_empty, uart

logvars == <<serial_state, call, pending, line, stalls, attempts, fifo_empty, uart>>

NoCall == [level |-> -1, fmt |-> <<>>, args |-> <<>>]

LogInitial ==
  /\ serial_state = "reset"
  /\ call = NoCall
  /\ pending = <<>>
  /\ line = <<>>
  /\ stalls = 0
  /\ attempts = 0
  /\ fifo_empty = TRUE
  /\ uart \in {"live", "dead"}

(***************************************************************************)
(* log_init (31-41): serial_init (128-150) programs the UART, sends the    *)
(* test byte 0xAA and waits for the FIFO; on a timeout it returns -2 and   *)
(* log_init returns early.  Otherwise log_init sends two newlines.  Either *)
(* way the later log_write calls go to the same port.  On a dead port the  *)
(* wait always times out.                                                  *)
(***************************************************************************)
log_init ==
  /\ serial_state = "reset"
  /\ \E r \in IF uart = "dead" THEN {-2} ELSE serial_init_results :
       /\ serial_state' = IF r = 0 THEN "ready" ELSE "timed_out"
       /\ line' = <<SERIAL_TEST_BYTE>> \o (IF r = 0 THEN <<"\n", "\n">> ELSE <<>>)
       /\ fifo_empty' = (r = 0)
  /\ UNCHANGED <<call, pending, stalls, attempts, uart>>

\* One text for each serial_write of log_write's sequence, as one build
\* produces them (only %d of INT32_MIN has two).
RECURSIVE Picks(_)
Picks(w) ==
  IF w = <<>> THEN {<<>>}
  ELSE {<<t>> \o r : t \in Head(w), r \in Picks(Tail(w))}

\* A LOG_* call c: log_write starts a line and computes what it will send.
LogWrite(c) ==
  /\ serial_state # "reset"
  /\ pending = <<>>
  /\ call' = c
  /\ pending' \in Picks(log_write(c.level, c.fmt, c.args))
  /\ line' = <<>>
  /\ stalls' = 0
  /\ UNCHANGED <<serial_state, attempts, fifo_empty, uart>>

\* A poll of a wait loop that finds the FIFO busy: attempts++ (84, 119),
\* below the limit.  The same loop shape ends each serial_write (117-123).
SerialPollBusy ==
  /\ pending # <<>>
  /\ ~fifo_empty
  /\ attempts + 1 < SERIAL_MAX_WAIT_ATTEMPTS
  /\ attempts' = attempts + 1
  /\ UNCHANGED <<serial_state, call, pending, line, stalls, fifo_empty, uart>>

\* The fault model: a dead port never drains; a live one is still busy at
\* the last poll of a wait at most MAX_STALLS times in a line.
FifoStillBusyAtLimit == uart = "dead" \/ stalls < MAX_STALLS

\* Mutant: on a timeout serial_write retries the byte instead of returning.
SerialWriteTimeout_retry ==
  /\ pending # <<>>
  /\ Head(pending) # <<>>
  /\ ~fifo_empty
  /\ attempts + 1 >= SERIAL_MAX_WAIT_ATTEMPTS
  /\ FifoStillBusyAtLimit
  /\ attempts' = 0
  /\ UNCHANGED <<serial_state, call, pending, line, stalls, fifo_empty, uart>>

\* serial_write_byte's poll reaches the limit and returns -1 (85-86);
\* serial_write returns i (112-114) and the rest of its piece is dropped.
SerialWriteTimeout ==
  /\ pending # <<>>
  /\ Head(pending) # <<>>
  /\ ~fifo_empty
  /\ attempts + 1 >= SERIAL_MAX_WAIT_ATTEMPTS
  /\ FifoStillBusyAtLimit
  /\ pending' = Tail(pending)
  /\ attempts' = 0
  /\ stalls' = stalls + 1
  /\ UNCHANGED <<serial_state, call, line, fifo_empty, uart>>

\* The FIFO is empty: outb of the byte (89), which fills the FIFO again.
SerialWriteByte ==
  /\ pending # <<>>
  /\ Head(pending) # <<>>
  /\ fifo_empty
  /\ line' = Append(line, Head(Head(pending)))
  /\ pending' = [pending EXCEPT ![1] = Tail(@)]
  /\ attempts' = 0
  /\ fifo_empty' = FALSE
  /\ UNCHANGED <<serial_state, call, stalls, uart>>

\* Every byte sent: the final wait ends, drained or at the limit (117-125),
\* and serial_write returns len.
SerialWriteReturn ==
  /\ pending # <<>>
  /\ Head(pending) = <<>>
  /\ fifo_empty \/ attempts + 1 >= SERIAL_MAX_WAIT_ATTEMPTS
  /\ pending' = Tail(pending)
  /\ attempts' = 0
  /\ UNCHANGED <<serial_state, call, line, stalls, fifo_empty, uart>>

\* The UART shifts its FIFO out and sets THRE (read at 77).
FifoDrain ==
  /\ uart = "live"
  /\ ~fifo_empty
  /\ fifo_empty' = TRUE
  /\ UNCHANGED <<serial_state, call, pending, line, stalls, attempts, uart>>

SerialStep == SerialPollBusy \/ SerialWriteTimeout \/ SerialWriteByte \/ SerialWriteReturn

LogNext ==
  \/ log_init
  \/ \E c \in Calls : LogWrite(c)
  \/ SerialStep
  \/ FifoDrain

LogSpec == LogInitial /\ [][LogNext]_logvars

(***************************************************************************)
(* Fairness.  The CPU runs log_write's loop to its end: a kernel path is  *)
(* not preempted while it logs unless a tick switches away, which Kernel  *)
(* models.  A live UART shifts its FIFO out at the baud rate, so its     *)
(* drain is weakly fair; a dead one never drains, and nothing then ends a *)
(* wait but serial.c's own poll limit.                                    *)
(***************************************************************************)
LogFairSpec ==
  /\ LogSpec
  /\ WF_logvars(SerialStep)
  /\ WF_logvars(FifoDrain)

-----------------------------------------------------------------------------
(***************************************************************************)
(* The line spec.md 6 describes for log_write(level, fmt, args): the level *)
(* tag in its colour, padded with spaces to ten visible columns; the       *)
(* format with %d, %x, %s and %c replaced by the argument in decimal, as   *)
(* eight upper-case hex digits, as its bytes ("(null)" for NULL) and as    *)
(* one byte; colour sequences kept, except at INFO, whose format is        *)
(* written without colour; then a newline.                                 *)
(***************************************************************************)
NumDigits(n) ==
  CHOOSE k \in 1..10 : /\ (k = 1 \/ n >= 10^(k - 1))
                       /\ (k = 10 \/ n < 10^k)

Digits(n) == LET k == NumDigits(n) IN [i \in 1..k |-> DecChars[((n \div 10^(k - i)) % 10) + 1]]

\* The decimal text of v; |v| is written as 10 * high + low from |v| - 1,
\* which stays in the int32 range even for INT32_MIN.
RefDecimal(v) ==
  IF v >= 0 THEN Digits(v)
  ELSE LET w == -(v + 1)
           low == (w % 10) + 1
           high == w \div 10 + (IF low = 10 THEN 1 ELSE 0)
           last == <<DecChars[(low % 10) + 1]>>
       IN  <<"-">> \o (IF high = 0 THEN last ELSE Digits(high) \o last)

\* Nibble i of the 32-bit pattern of v, counted from the top.
RefHex(v) == [i \in 1..8 |-> HexChars[((v \div 16^(8 - i)) % 16) + 1]]

RefArg(c, arg) ==
  CASE c = "d" -> RefDecimal(arg)
    [] c = "x" -> RefHex(arg)
    [] c = "s" -> IF arg.present THEN arg.bytes ELSE NullText
    [] c = "c" -> <<arg>>

RECURSIVE RefBody(_, _, _)
RefBody(level, f, args) ==
  IF f = <<>> THEN <<>>
  ELSE IF f[1] = "%"
  THEN RefArg(f[2], Head(args)) \o RefBody(level, SubSeq(f, 3, Len(f)), Tail(args))
  ELSE IF f[1] = ESC
  THEN LET k == SelectInSeq(f, LAMBDA b : b = "m")
       IN  (IF level = LOG_LEVEL_INFO THEN <<>> ELSE SubSeq(f, 1, k))
             \o RefBody(level, SubSeq(f, k + 1, Len(f)), args)
  ELSE <<f[1]>> \o RefBody(level, Tail(f), args)

RefLine(c) ==
  LET name == LevelNames[c.level + 1]
  IN  LogColor[c.level + 1] \o <<"[">> \o name \o <<"]">> \o LOG_COLOR_RESET
        \o [i \in 1..(10 - (Len(name) + 2)) |-> " "]
        \o RefBody(c.level, c.fmt, c.args)
        \o <<"\n">>

\* The calls inside that contract: every '%' starts one of the four
\* directives, one argument each, and every ESC has its 'm'.
InContract(c) ==
  /\ \A i \in 1..Len(c.fmt) :
       /\ c.fmt[i] = "%" => i < Len(c.fmt) /\ c.fmt[i + 1] \in Conversions
       /\ c.fmt[i] = ESC => \E j \in (i + 1)..Len(c.fmt) : c.fmt[j] = "m"
  /\ Len(c.args) = Cardinality({i \in 1..Len(c.fmt) : c.fmt[i] = "%"})

\* The calls that log INT32_MIN through a %d.
LogsIntMin(c) ==
  \E i \in 1..(Len(c.fmt) - 1) :
    /\ c.fmt[i] = "%"
    /\ c.fmt[i + 1] = "d"
    /\ c.args[Cardinality({j \in 1..i : c.fmt[j] = "%"})] = INT32_MIN

LogWriteReturns == pending # <<>> ~> pending = <<>>
============================================================================
