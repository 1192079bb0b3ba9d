--------------------------- MODULE MCXmodemTransfer ---------------------------
(***************************************************************************)
(* A small instance of XmodemTransfer: a file of eight bytes, sent as two  *)
(* long packets and a short one.                                           *)
(***************************************************************************)
EXTENDS XmodemTransfer

MCData == 0 .. FileSize
===============================================================================
