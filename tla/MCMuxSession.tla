----------------------------- MODULE MCMuxSession -----------------------------
(***************************************************************************)
(* A small instance of MuxSession: queues of two, enough chunks for a      *)
(* session, its end and a second one.                                      *)
(***************************************************************************)
EXTENDS MuxSession
===============================================================================
