---------------------------- MODULE MCGpioCommands ----------------------------
(***************************************************************************)
(* A small instance of GpioCommands: a missing pin, the pins of a UART,    *)
(* the last pin below 32, an output and an input above, and no pin at all. *)
(***************************************************************************)
EXTENDS GpioCommands

MCPins == {-1, 1, 3, 24, 27, 33, 39, 40}
===============================================================================
