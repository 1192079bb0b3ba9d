---------------------------- MODULE MCSdioReceive -----------------------------
(***************************************************************************)
(* A small instance of SdioReceive: three buffers, packets of one or two   *)
(* bytes, reads shorter and longer than a packet.                          *)
(***************************************************************************)
EXTENDS SdioReceive

MCPacketLengths == 1 .. 2
MCReadLengths == {1, 3}
===============================================================================
