---------------------------- MODULE MCSdioTransmit ----------------------------
(***************************************************************************)
(* A small instance of SdioTransmit: a buffer of two blocks of two words.  *)
(***************************************************************************)
EXTENDS SdioTransmit

MCByte == 0 .. MaxBytes
MCLengths == {5, 9}
===============================================================================
