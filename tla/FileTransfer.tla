----------------------------- MODULE FileTransfer -----------------------------
(***************************************************************************)
(* What a file transfer promises to the code that asked for it, the        *)
(* AT+FWUPD handler: bytes reach the destination in order and one portion  *)
(* at a time, and the transfer ends in one of two ways.  It is reported as *)
(* done only when the whole file was delivered.  XmodemReceiver implements *)
(* it (main/xmodem_receiver.h, the Status values of run()).                *)
(***************************************************************************)
EXTENDS Naturals

CONSTANT FileSize       \* the size the handler was given, in bytes

VARIABLES delivered,    \* number of bytes written to the destination
          outcome       \* "running", "done" or "failed"

vars == <<delivered, outcome>>

Init == /\ delivered = 0
        /\ outcome = "running"

\* The next portion of the file goes to the destination.
Deliver == /\ outcome = "running"
           /\ \E n \in 1 .. (FileSize - delivered) : delivered' = delivered + n
           /\ UNCHANGED outcome

Succeed == /\ outcome = "running"
           /\ delivered = FileSize
           /\ outcome' = "done"
           /\ UNCHANGED delivered

Fail == /\ outcome = "running"
        /\ outcome' = "failed"
        /\ UNCHANGED delivered

Next == Deliver \/ Succeed \/ Fail

Safe == Init /\ [][Next]_vars

\* A transfer always ends, whatever the other side does.
Spec == Safe /\ WF_vars(Succeed \/ Fail)
===============================================================================
