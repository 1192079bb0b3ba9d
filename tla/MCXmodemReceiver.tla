--------------------------- MODULE MCXmodemReceiver ---------------------------
(***************************************************************************)
(* A small instance of XmodemReceiver: a file of five bytes, packets of    *)
(* two or three, packet numbers modulo three.                              *)
(***************************************************************************)
EXTENDS XmodemReceiver

MCData == {0}
===============================================================================
