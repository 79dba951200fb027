------------------------------ MODULE Crc16 ------------------------------
(***************************************************************************)
(* crc16_ccitt of master/protocol.rs: a 16-bit register that starts at     *)
(* 0xFFFF and shifts in each byte, most significant bit first.             *)
(***************************************************************************)
EXTENDS Integers, Sequences, SequencesExt
LOCAL INSTANCE Bitwise

Polynomial == 4129       \* 0x1021
Initial    == 65535      \* 0xFFFF
Width      == 65536      \* u16

\* One turn of the inner loop.
ShiftOut(crc) ==
    IF crc >= Width \div 2 THEN ((crc * 2) % Width) ^^ Polynomial ELSE crc * 2

\* The eight turns for one byte, for every register: a constant that TLC
\* evaluates once.
ShiftedOut == [crc \in 0 .. Width - 1 |->
    FoldLeft(LAMBDA c, bit : ShiftOut(c), crc, <<1, 2, 3, 4, 5, 6, 7, 8>>)]

\* One turn of the outer loop; the byte meets the upper half of the register.
ShiftIn(crc, byte) == ShiftedOut[256 * ((crc \div 256) ^^ byte) + (crc % 256)]

crc16_ccitt(data) == FoldLeft(ShiftIn, Initial, data)
===========================================================================
