------------------------------ MODULE ByteQueue -------------------------------
(***************************************************************************)
(* What a ring buffer promises to the code that uses it (util/ringbuffer.h *)
(* and its use in main/at_transport_sdio.cpp): a bounded queue.  Bytes are *)
(* added at its end and taken, oldest first, from its front; no other byte *)
(* changes, moves or gets lost.                                            *)
(***************************************************************************)
EXTENDS Integers, Sequences

CONSTANT Capacity       \* the size of the buffer

VARIABLE queue          \* the bytes in the buffer, oldest first

Init == queue = <<>>

Enqueue == /\ Len(queue') \in Len(queue) + 1 .. Capacity
           /\ \A i \in 1 .. Len(queue) : queue'[i] = queue[i]

Dequeue == \E n \in 1 .. Len(queue) :
               /\ Len(queue') = Len(queue) - n
               /\ \A i \in 1 .. Len(queue') : queue'[i] = queue[i + n]

Clear == queue' = <<>>

Next == Enqueue \/ Dequeue \/ Clear

Safe == Init /\ [][Next]_queue
===============================================================================
