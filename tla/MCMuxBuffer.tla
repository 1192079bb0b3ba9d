----------------------------- MODULE MCMuxBuffer ------------------------------
(***************************************************************************)
(* A small instance of MuxBuffer: a buffer of four bytes, frames of two    *)
(* and three bytes, reads of one byte and of more than there is.           *)
(***************************************************************************)
EXTENDS MuxBuffer

MCByte == 0 .. MaxBytes
MCFrameLengths == {2, 3}
MCReadLengths == {1, 5}
===============================================================================
