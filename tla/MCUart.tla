-------------------------------- MODULE MCUart -------------------------------
(* Small instances of Uart for TLC.                                        *)
EXTENDS Uart

CONSTANTS a, b
TwoChars == {a, b}
==============================================================================
