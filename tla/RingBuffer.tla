------------------------------ MODULE RingBuffer ------------------------------
(***************************************************************************)
(* The ring buffer of main/util/ringbuffer.h, as operators on the record   *)
(* rb of its fields: each returns the buffer that a member function leaves *)
(* behind.  No caller acquires space in place, so headPending_ is always 0 *)
(* and curSize_ always size_, and both are left out.  The callers test     *)
(* space(), data() and consumable() before they change the buffer.         *)
(***************************************************************************)
EXTENDS Integers, Sequences

CONSTANTS Size,         \* size_
          Byte          \* the values of a cell

ASSUME RingAssumption ==
    /\ Size \in Nat \ {0}
    /\ 0 \in Byte

VARIABLE rb     \* [head, tail, tailPending, full, cell]

Index == 0 .. Size - 1
Buffers == [head : Index, tail : Index, tailPending : 0 .. Size,
            full : BOOLEAN, cell : [Index -> Byte]]

Wrap(v) == IF v >= Size THEN v - Size ELSE v

\* How far index i lies behind index p, in the direction of writing.
Behind(p, i) == IF i >= p THEN i - p ELSE i - p + Size

\* The constructor, over zeroed memory.
New == [head |-> 0, tail |-> 0, tailPending |-> 0, full |-> FALSE,
        cell |-> [i \in Index |-> 0]]

Reset(b) == [b EXCEPT !.head = 0, !.tail = 0, !.tailPending = 0, !.full = FALSE]

Empty(b) == b.head = b.tail /\ ~b.full

\* curData(), curSpace()
DataSize(b) ==
    IF b.head >= b.tail /\ ~b.full THEN b.head - b.tail ELSE Size + b.head - b.tail
Space(b) == Size - DataSize(b)

\* consumable(): what can be lent to a reader in one piece.
Consumable(b) ==
    LET tail == Wrap(b.tail + b.tailPending)
    IN  IF b.head >= tail /\ ~b.full THEN b.head - tail ELSE Size - tail

\* put(nullptr, n): the head moves over n bytes of whatever is there.
Skip(b, n) ==
    [b EXCEPT !.head = Wrap(b.head + n), !.full = (Wrap(b.head + n) = b.tail)]

\* put(v, size)
Put(b, v) ==
    [Skip(b, Len(v)) EXCEPT
        !.cell = [i \in Index |-> IF Behind(b.head, i) < Len(v)
                                  THEN v[Behind(b.head, i) + 1] ELSE b.cell[i]]]

\* consume(n): n bytes are lent, from index Wrap(b.tail + b.tailPending) on.
Consume(b, n) == [b EXCEPT !.tailPending = b.tailPending + n]

\* Variant: the full mark survives although bytes were consumed.
ConsumeCommitKeepsFull(b, n, cancel) ==
    [b EXCEPT !.tailPending = b.tailPending - (n + cancel),
              !.tail = Wrap(b.tail + n)]

\* consumeCommit(n, cancel): n of the lent bytes are given up, cancel are kept.
ConsumeCommit(b, n, cancel) ==
    [b EXCEPT !.tailPending = b.tailPending - (n + cancel),
              !.tail = Wrap(b.tail + n),
              !.full = IF n > 0 THEN FALSE ELSE b.full]

\* The bytes in the buffer, oldest first.
Contents(b) == [i \in 1 .. DataSize(b) |-> b.cell[Wrap(b.tail + i - 1)]]
===============================================================================
