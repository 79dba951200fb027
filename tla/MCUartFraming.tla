-------------------------- MODULE MCUartFraming --------------------------
(* A small instance of UartFraming, with the real CRC. *)
EXTENDS UartFraming

LOCAL INSTANCE Crc16
MCCrc(data) == crc16_ccitt(data)

\* Two empty messages that can be told apart, free of the start byte in all of
\* their frame, and one whose payload looks like the start of a frame.
MCMessages == {[cmd |-> 6, parameter |-> 1, payload |-> <<>>],
               [cmd |-> 7, parameter |-> 0, payload |-> <<>>],
               [cmd |-> 7, parameter |-> 0, payload |-> <<SOF>>]}
===========================================================================
