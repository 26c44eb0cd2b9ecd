------------------------------- MODULE Serial -------------------------------
(***************************************************************************)
(* The COM1 driver of src/drivers/serial.c, which the logger writes        *)
(* through: the number conversions behind serial_write_hex and            *)
(* serial_write_decimal, and serial_write's byte loop with the transmit   *)
(* FIFO wait that gives up after SERIAL_MAX_WAIT_ATTEMPTS polls.           *)
(*                                                                         *)
(* A byte is a one-character string ("ESC" for \033).  Numbers are kept   *)
(* in the int32 range: a uint32_t is held as the int32 with the same bits, *)
(* and wrap-around is written out where the code overflows.                *)
(***************************************************************************)
EXTENDS Integers, Sequences, SequencesExt

CONSTANT SERIAL_MAX_WAIT_ATTEMPTS  \* 1000 in serial.h: polls of a wait loop
INT32_MIN == -2147483647 - 1
INT32_MAX == 2147483647

HexChars == <<"0","1","2","3","4","5","6","7","8","9","A","B","C","D","E","F">>
DecChars == SubSeq(HexChars, 1, 10)

\* num >>= 4 on the uint32_t num (a logical shift), its bits held as an int32.
ShiftRight4(num) == IF num < 0 THEN num \div 16 + 268435456 ELSE num \div 16

\* num_to_hex's loop (9-12): buf[i] from the low nibble of num, for i from 7
\* down to 0, shifting num after each digit.
RECURSIVE HexLoop(_, _)
HexLoop(num, i) ==
  IF i < 0 THEN <<>>
  ELSE HexLoop(ShiftRight4(num), i - 1) \o <<HexChars[(num % 16) + 1]>>

\* num_to_hex (5-14), as serial_write_hex sends it (16-20): 8 digits.
num_to_hex(num) == HexLoop(num, 7)

\* num = -num on an int32_t (line 28).  The negation of INT32_MIN overflows;
\* the two's complement machine leaves INT32_MIN.
Negate32(num) == IF num = INT32_MIN THEN INT32_MIN ELSE -num

\* The digit loop while (num > 0) (34-37), with the reversal of 44-53
\* already applied: the most significant digit first.
RECURSIVE DecimalLoop(_)
DecimalLoop(num) ==
  IF num <= 0 THEN <<>>
  ELSE DecimalLoop(num \div 10) \o <<DecChars[(num % 10) + 1]>>

(***************************************************************************)
(* num_to_decimal (22-55), as serial_write_decimal sends it (57-61): the   *)
(* set of texts the build can produce.  For INT32_MIN the negation is      *)
(* undefined behaviour: with wrap-around num stays negative and the loop   *)
(* is skipped, leaving "-"; a compiler that takes num > 0 for granted      *)
(* after the negation runs the loop once, writing '0' + (-8) = '(' before  *)
(* num / 10 ends it, leaving "-(".  Every other value has one text.        *)
(***************************************************************************)
num_to_decimal(num) ==
  LET is_negative == num < 0
      mag == IF is_negative THEN Negate32(num) ELSE num
      sign == IF is_negative THEN <<"-">> ELSE <<>>
      digits == CASE mag = 0 -> {<<"0">>}
                  [] mag > 0 -> {DecimalLoop(mag)}
                  [] OTHER   -> {<<>>, <<"(">>}
  IN  {sign \o d : d \in digits}

(***************************************************************************)
(* serial_init (128-150), called with SERIAL_COM1_BASE: the baud, line,    *)
(* FIFO and modem writes, then the test byte 0xAA, then the wait for the   *)
(* FIFO: 0 when it drains, -2 when SERIAL_MAX_WAIT_ATTEMPTS polls pass.    *)
(***************************************************************************)
SERIAL_TEST_BYTE == "0xAA"
serial_init_results == {0, -2}

============================================================================
